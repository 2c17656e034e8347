-------------------------- MODULE Bep3HistoryProofs --------------------------
(***************************************************************************)
(* What Bep3 remembers: no swap is opened twice under one ID and           *)
(* timestamp, and how much is minted in how long.                          *)
(***************************************************************************)
EXTENDS Bep3LedgerProofs, Bep3History

-------------------------------------------------------------------------------
(* A chain with a memory is a chain.                                        *)

(* A step that is remembered is a step of a chain whose params stay as they are. *)
LEMMA HistoryStep == [HNext]_hvars => [FixedNext]_vars
  BY DEF HNext, hvars

(* So what holds of the chain holds of it with its memory. *)
LEMMA HistoryIsFixed == HSpec => FixedSpec
  BY HistoryStep, PTL DEF HSpec, HInit, FixedSpec

(* The history variables change nothing that Bep3 guarantees.               *)
LEMMA HistoryTypes == HSpec => [](TypeOK /\ IndexInv)
  BY HistoryIsFixed, FixedIsSpec, TypeCorrect, SpecIndex, PTL

-------------------------------------------------------------------------------
(* No swap is opened twice under one ID and timestamp.                      *)

\* Blocks are at least a second apart, and a storage duration of such blocks is
\* longer than a timestamp is accepted.
StorageOutlastsWindow ==
    /\ \A step \in Steps : step >= 1
    /\ PastWindow + FutureWindow <= StorageDuration

\* A timestamp that was used is either too old to be accepted again or that of
\* the swap still stored.  While that swap waits for its deletion, a second goes
\* by with every block.
TimestampSpent(id, timestamp) ==
    \/ timestamp < blockTime - PastWindow
    \/ /\ swaps[id].status # "NULL" /\ swaps[id].timestamp = timestamp
       /\ timestamp < blockTime + FutureWindow
       /\ swaps[id].status = "Completed" =>
             timestamp < blockTime - (height - swaps[id].closedBlock) + FutureWindow

OpenedInv ==
    /\ opened \subseteq SwapIDs \X Timestamps
    /\ \A id \in SwapIDs, timestamp \in Timestamps :
          <<id, timestamp>> \in opened => TimestampSpent(id, timestamp)

(* A step that leaves the clock alone, opens at most `id' and rewrites no   *)
(* other swap than `id', which it opens or settles.                         *)
OpensOrSettles(id) ==
    /\ blockTime' = blockTime /\ height' = height
    /\ \A i \in SwapIDs \ {id} : swaps'[i] = swaps[i]
    /\ \/ /\ swaps[id].status = "NULL" /\ swaps'[id].status = "Open"
          /\ swaps'[id].timestamp \in Timestamps /\ TimestampInWindow(swaps'[id].timestamp)
       \/ /\ swaps[id].status \in {"Open", "Expired"} /\ swaps'[id].status = "Completed"
          /\ swaps'[id].timestamp = swaps[id].timestamp /\ swaps'[id].closedBlock = height

(* Every message does that.                                                 *)
LEMMA MessagesOpenOrSettle ==
    ASSUME TypeOK, Create \/ Claim \/ Refund
    PROVE  \E id \in SwapIDs : OpensOrSettles(id)
  <1>1. CASE Create
    <2>1. PICK id \in SwapIDs, recipient \in Users \cup Maccs, d \in Denoms,
               amount \in Amounts, timestamp \in Timestamps, span \in Spans :
                  \/ CreateIncoming(id, recipient, d, amount, timestamp, span)
                  \/ CreateOutgoing(id, recipient, d, amount, timestamp, span)
      BY <1>1 DEF Create
    <2>2. swaps[id].status = "NULL" /\ TimestampInWindow(timestamp)
      BY <2>1 DEF CreateIncoming, CreateOutgoing, AcceptSwap, IsNewSwap, Stored
    <2>3. \A i \in SwapIDs \ {id} : swaps'[i] = swaps[i]  BY <2>1, CreateLifecycle
    <2>4. swaps'[id].status = "Open" /\ swaps'[id].timestamp = timestamp
      BY <2>1 DEF CreateIncoming, CreateOutgoing, StoreOpenSwap, NewAtomicSwap, TypeOK, StoreTypeOK
    <2>5. blockTime' = blockTime /\ height' = height  BY <2>1 DEF CreateIncoming, CreateOutgoing, block
    <2> QED  BY <2>2, <2>3, <2>4, <2>5 DEF OpensOrSettles
  <1>2. CASE Claim \/ Refund
    <2>1. PICK id \in SwapIDs :
             \/ \E number \in Numbers : ClaimIncoming(id, number) \/ ClaimOutgoing(id, number)
             \/ RefundIncoming(id) \/ RefundOutgoing(id)
      BY <1>2 DEF Claim, Refund
    <2>2. /\ swaps[id].status \in {"Open", "Expired"} /\ CompleteSwap(id)
          /\ blockTime' = blockTime /\ height' = height
      BY <2>1 DEF ClaimIncoming, ClaimOutgoing, IsClaimable, RefundIncoming, RefundOutgoing,
                  IsRefundable, block
    <2>3. swaps[id] \in Swap  BY <2>2, SwapFields DEF TypeOK
    <2>4. swaps'[id] = Completed(id) /\ \A i \in SwapIDs \ {id} : swaps'[i] = swaps[i]
      BY <2>2 DEF TypeOK, StoreTypeOK, CompleteSwap
    <2>5. /\ Completed(id).status = "Completed" /\ Completed(id).timestamp = swaps[id].timestamp
          /\ Completed(id).closedBlock = height
      BY <2>3 DEF Completed, Swap
    <2> QED  BY <2>2, <2>4, <2>5 DEF OpensOrSettles
  <1> QED  BY <1>1, <1>2

(* The timestamp it used is spent, and what was spent is still.             *)
LEMMA MessageSpends ==
    ASSUME TypeOK, NEW id \in SwapIDs, OpensOrSettles(id), NEW i \in SwapIDs, NEW t \in Nat,
           TimestampSpent(i, t) \/ (Opens(i) /\ t = swaps'[i].timestamp)
    PROVE  TimestampSpent(i, t)'
  <1>1. /\ blockTime' = blockTime /\ height' = height /\ blockTime \in Nat /\ height \in Nat
        /\ PastWindow \in Nat /\ FutureWindow \in Nat
    BY NumbersAssumption DEF OpensOrSettles, TypeOK, BlockTypeOK
  <1>2. CASE Opens(i) /\ t = swaps'[i].timestamp
    <2>1. i = id /\ swaps[id].status = "NULL"  BY <1>2 DEF Opens, OpensOrSettles
    <2>2. swaps'[id].status = "Open" /\ TimestampInWindow(t)
      BY <1>2, <2>1 DEF OpensOrSettles
    <2> QED  BY <1>1, <1>2, <2>1, <2>2 DEF TimestampSpent, TimestampInWindow
  <1>3. CASE t < blockTime - PastWindow  BY <1>1, <1>3 DEF TimestampSpent
  <1>4. CASE TimestampSpent(i, t) /\ i # id
    <2>1. swaps'[i] = swaps[i]  BY <1>4 DEF OpensOrSettles
    <2> QED  BY <1>1, <1>4, <2>1 DEF TimestampSpent
  <1>5. CASE TimestampSpent(i, t) /\ i = id /\ ~ (t < blockTime - PastWindow)
    <2>1. /\ swaps[id].status # "NULL" /\ swaps[id].timestamp = t
          /\ t < blockTime + FutureWindow
      BY <1>5 DEF TimestampSpent
    <2>2. /\ swaps'[id].status = "Completed" /\ swaps'[id].timestamp = swaps[id].timestamp
          /\ swaps'[id].closedBlock = height
      BY <2>1 DEF OpensOrSettles
    <2> QED  BY <1>1, <1>5, <2>1, <2>2 DEF TimestampSpent
  <1> QED  BY <1>2, <1>3, <1>4, <1>5

(* A message opens a swap under a timestamp of the window, and it stays.    *)
LEMMA MessageOpened ==
    ASSUME TypeOK, OpenedInv, NEW id \in SwapIDs, OpensOrSettles(id), Remember
    PROVE  OpenedInv'
  <1>1. \A i \in SwapIDs : Opens(i) => swaps'[i].timestamp \in Timestamps
    BY DEF Opens, OpensOrSettles
  <1>2. opened' = opened \cup {<<i, swaps'[i].timestamp>> : i \in {j \in SwapIDs : Opens(j)}}
    BY DEF Remember
  <1>3. opened' \subseteq SwapIDs \X Timestamps  BY <1>1, <1>2 DEF OpenedInv
  <1>4. ASSUME NEW i \in SwapIDs, NEW t \in Timestamps, <<i, t>> \in opened'
        PROVE  TimestampSpent(i, t)'
    <2>1. <<i, t>> \in opened \/ (Opens(i) /\ t = swaps'[i].timestamp)  BY <1>2, <1>4
    <2>2. TimestampSpent(i, t) \/ (Opens(i) /\ t = swaps'[i].timestamp)  BY <2>1 DEF OpenedInv
    <2>3. t \in Nat  BY NumbersAssumption
    <2> QED  BY <2>2, <2>3, MessageSpends
  <1> QED  BY <1>3, <1>4 DEF OpenedInv

(* What a new block deletes was kept for the storage duration, and what it  *)
(* keeps waits a block and at least a second longer.                        *)
LEMMA BlockSpends ==
    ASSUME TypeOK, IndexInv, StorageOutlastsWindow, NEW step \in Steps, BeginBlock(step),
           NEW id \in SwapIDs, NEW t \in Nat, TimestampSpent(id, t)
    PROVE  TimestampSpent(id, t)'
  <1>1. /\ blockTime' = blockTime + step /\ height' = height + 1
        /\ blockTime \in Nat /\ height \in Nat /\ step \in Nat /\ step >= 1
    BY NumbersAssumption DEF BeginBlock, TypeOK, BlockTypeOK, StorageOutlastsWindow
  <1>2. /\ PastWindow \in Nat /\ FutureWindow \in Nat /\ StorageDuration \in Nat
        /\ PastWindow + FutureWindow <= StorageDuration
    BY NumbersAssumption DEF StorageOutlastsWindow
  <1>3. CASE t < blockTime - PastWindow  BY <1>1, <1>2, <1>3 DEF TimestampSpent
  <1>4. CASE ~ (t < blockTime - PastWindow)
    <2>1. /\ swaps[id].status # "NULL" /\ swaps[id].timestamp = t
          /\ t < blockTime + FutureWindow
          /\ swaps[id].status = "Completed" =>
                t < blockTime - (height - swaps[id].closedBlock) + FutureWindow
      BY <1>4 DEF TimestampSpent
    <2>2. swaps[id].status \in {"Open", "Completed", "Expired"}
      BY <2>1 DEF TypeOK, StoreTypeOK, Swap, NoSwap
    <2>3. swaps[id].closedBlock \in Nat  BY <2>1, SwapFields DEF TypeOK
    <2>4. CASE swaps[id].status \in {"Open", "Expired"}
      <3>1. swaps'[id].status \in {"Open", "Expired"} /\ swaps'[id].timestamp = t
        <4>1. CASE swaps'[id] = swaps[id]  BY <2>1, <2>4, <4>1
        <4>2. CASE swaps'[id] # swaps[id]
          <5>1. LifecycleStep(id)  BY <4>2, BeginBlockLifecycle
          <5>2. swaps'[id].status = "Expired"  BY <2>4, <4>2, BeginBlockSwap
          <5> QED  BY <2>1, <2>4, <5>1, <5>2 DEF LifecycleStep, Terms
        <4> QED  BY <4>1, <4>2
      <3> QED  BY <1>1, <1>2, <2>1, <3>1 DEF TimestampSpent
    <2>5. CASE swaps[id].status = "Completed" /\ ~ (DeletionHeight(swaps[id]) <= height')
      <3>1. swaps'[id] = swaps[id]  BY <2>5, BeginBlockSwap
      <3> QED  BY <1>1, <1>2, <2>1, <2>3, <2>5, <3>1 DEF TimestampSpent
    <2>6. CASE swaps[id].status = "Completed" /\ DeletionHeight(swaps[id]) <= height'
      <3>1. swaps[id].closedBlock + StorageDuration <= height + 1
        BY <1>1, <2>6 DEF DeletionHeight
      <3>2. t < blockTime - (height - swaps[id].closedBlock) + FutureWindow  BY <2>1, <2>6
      <3>3. t < blockTime' - PastWindow  BY <1>1, <1>2, <2>3, <3>1, <3>2
      <3> QED  BY <3>3 DEF TimestampSpent
    <2> QED  BY <2>2, <2>4, <2>5, <2>6
  <1> QED  BY <1>3, <1>4

(* A block opens nothing; each takes a second and nears a deletion by one.  *)
LEMMA BlockOpened ==
    ASSUME TypeOK, IndexInv, StorageOutlastsWindow, OpenedInv,
           NEW step \in Steps, BeginBlock(step), Remember
    PROVE  OpenedInv'
  <1>1. \A i \in SwapIDs : ~ Opens(i)  BY BeginBlockSwap DEF Opens
  <1>2. opened' = opened  BY <1>1 DEF Remember
  <1>3. ASSUME NEW i \in SwapIDs, NEW t \in Timestamps, <<i, t>> \in opened
        PROVE  TimestampSpent(i, t)'
    <2>1. TimestampSpent(i, t) /\ t \in Nat  BY <1>3, NumbersAssumption DEF OpenedInv
    <2> QED  BY <2>1, BlockSpends
  <1> QED  BY <1>2, <1>3 DEF OpenedInv

(* What was opened stays stored until its timestamp is too old.             *)
LEMMA NextOpened ==
    ASSUME TypeOK, IndexInv, StorageOutlastsWindow, OpenedInv, [HNext]_hvars
    PROVE  OpenedInv'
  <1>1. CASE HNext
    <2>1. CASE Create \/ Claim \/ Refund  BY <1>1, <2>1, MessagesOpenOrSettle, MessageOpened DEF HNext
    <2>2. CASE NextBlock  BY <1>1, <2>2, BlockOpened DEF HNext, NextBlock
    <2> QED  BY <1>1, <2>1, <2>2 DEF HNext, FixedNext
  <1>2. CASE UNCHANGED hvars
    BY <1>2 DEF hvars, vars, store, block, OpenedInv, TimestampSpent
  <1> QED  BY <1>1, <1>2

(* An ID is refused with a timestamp it was used with before.               *)
LEMMA SpentIsRefused ==
    ASSUME TypeOK, IndexInv, OpenedInv, [HNext]_hvars, NEW id \in SwapIDs, Opens(id)
    PROVE  <<id, swaps'[id].timestamp>> \notin opened
  <1>1. [FixedNext]_vars  BY HistoryStep
  <1>2. CASE Create \/ Claim \/ Refund
    <2>1. PICK i \in SwapIDs : OpensOrSettles(i)  BY <1>2, MessagesOpenOrSettle
    <2>2. i = id /\ swaps[id].status = "NULL"  BY <2>1 DEF Opens, OpensOrSettles
    <2>3. swaps'[id].timestamp \in Timestamps /\ TimestampInWindow(swaps'[id].timestamp)
      BY <2>1, <2>2 DEF OpensOrSettles
    <2> DEFINE t == swaps'[id].timestamp
    <2>4. t \in Nat /\ PastWindow \in Nat /\ blockTime \in Nat
      BY <2>3, NumbersAssumption DEF TypeOK, BlockTypeOK
    <2>5. ~ TimestampSpent(id, t)
      <3>1. blockTime - PastWindow <= t  BY <2>3 DEF TimestampInWindow
      <3> HIDE DEF t
      <3> QED  BY <2>2, <2>4, <3>1 DEF TimestampSpent
    <2> QED  BY <2>3, <2>5 DEF OpenedInv
  <1>3. CASE NextBlock  BY <1>3, BeginBlockSwap DEF NextBlock, Opens
  <1>4. CASE UNCHANGED vars  BY <1>4 DEF vars, store, Opens
  <1> QED  BY <1>1, <1>2, <1>3, <1>4 DEF FixedNext

(* A swap ID is never opened a second time with one timestamp, although the *)
(* store forgets completed swaps: so long as blocks take at least a second  *)
(* each, a swap is kept until its timestamp has left the window of accepted *)
(* ones, and the secret a claim revealed opens no later swap.               *)
THEOREM NeverReopened ==
    ASSUME StorageOutlastsWindow
    PROVE  HSpec => OpenedOnce
  <1>1. HInit => OpenedInv  BY DEF HInit, OpenedInv
  <1>2. (TypeOK /\ IndexInv) /\ OpenedInv /\ [HNext]_hvars => OpenedInv'  BY NextOpened
  <1>3. HSpec => []OpenedInv  BY <1>1, <1>2, HistoryTypes, PTL DEF HSpec
  <1>4. (TypeOK /\ IndexInv) /\ OpenedInv /\ [HNext]_hvars =>
           [\A id \in SwapIDs : Opens(id) => <<id, swaps'[id].timestamp>> \notin opened]_hvars
    BY SpentIsRefused
  <1> QED  BY <1>3, <1>4, HistoryTypes, PTL DEF HSpec, OpenedOnce

-------------------------------------------------------------------------------
(* What is minted in a stretch of time.                                     *)

Seconds == GenesisTime .. MaxTime

Between(m, first, last) == SumFunctionOnSet(m, first .. last)

(* A stretch of the run has a sum, which is a count and zero if it is empty. *)
LEMMA BetweenNat ==
    ASSUME NEW m \in [Seconds -> Nat], NEW first \in Int, NEW last \in Int,
           GenesisTime <= first, last <= MaxTime
    PROVE  /\ IsFiniteSet(first .. last) /\ \A x \in first .. last : x \in Seconds /\ m[x] \in Nat
           /\ Between(m, first, last) \in Nat
           /\ first > last => Between(m, first, last) = 0
  <1>1. GenesisTime \in Int /\ MaxTime \in Int  BY NumbersAssumption
  <1>2. \A x \in first .. last : x \in Seconds  BY <1>1 DEF Seconds
  <1>3. \A x \in first .. last : m[x] \in Nat  BY <1>2
  <1>4. IsFiniteSet(first .. last)  BY FS_Interval
  <1>5. first > last => first .. last = {}  OBVIOUS
  <1> DEFINE S == first .. last
  <1>6. SumFunctionOnSet(m, S) \in Nat
    <2> HIDE DEF S
    <2> QED  BY <1>3, <1>4, SumNat DEF S
  <1> QED  BY <1>2, <1>3, <1>4, <1>5, <1>6, SumEmpty DEF Between

\* n is m with a more at the second now.
MintedAt(m, n, now, a) == \A x \in Seconds : n[x] = m[x] + (IF x = now THEN a ELSE 0)

(* What is minted in a second counts in every stretch with that second.     *)
LEMMA BetweenRaised ==
    ASSUME NEW m \in [Seconds -> Nat], NEW n \in [Seconds -> Nat], NEW now \in Int, NEW a \in Nat,
           MintedAt(m, n, now, a), NEW first \in Int, NEW last \in Int, GenesisTime <= first, last <= MaxTime
    PROVE  Between(n, first, last)
              = Between(m, first, last) + (IF first <= now /\ now <= last THEN a ELSE 0)
  <1> DEFINE S == first .. last
  <1>1. IsFiniteSet(S) /\ \A x \in S : x \in Seconds /\ m[x] \in Nat  BY BetweenNat
  <1>2. now \in S <=> first <= now /\ now <= last  OBVIOUS
  <1> HIDE DEF S
  <1>3. (now \in S => n[now] = m[now] + a) /\ \A y \in S \ {now} : n[y] = m[y]  BY <1>1 DEF MintedAt
  <1>4. SumFunctionOnSet(n, S) = SumFunctionOnSet(m, S) + (IF now \in S THEN a ELSE 0)
    BY <1>1, <1>3, SumRaised
  <1> QED  BY <1>2, <1>4 DEF Between, S

(* Seconds in which nothing was minted can be left off a stretch's end.     *)
LEMMA BetweenCut ==
    ASSUME NEW m \in [Seconds -> Nat], NEW first \in Int, NEW last \in Int, NEW now \in Int,
           GenesisTime <= first, last <= MaxTime, now <= last,
           \A x \in Seconds : x > now => m[x] = 0
    PROVE  Between(m, first, last) = Between(m, first, now)
  <1> DEFINE S == first .. last
             T == first .. now
  <1>1. IsFiniteSet(S) /\ \A x \in S : x \in Seconds /\ m[x] \in Nat  BY BetweenNat
  <1>2. T \subseteq S /\ \A x \in S \ T : x > now  OBVIOUS
  <1> HIDE DEF S, T
  <1>3. \A x \in S \ T : m[x] = 0  BY <1>1, <1>2
  <1>4. SumFunctionOnSet(m, S) = SumFunctionOnSet(m, T)  BY <1>1, <1>2, <1>3, SumIgnoresZeros
  <1> QED  BY <1>4 DEF Between, S, T

(* A stretch that begins earlier has at least as much.                      *)
LEMMA BetweenLonger ==
    ASSUME NEW m \in [Seconds -> Nat], NEW first \in Int, NEW later \in Int, NEW last \in Int,
           GenesisTime <= first, first <= later, last <= MaxTime
    PROVE  Between(m, later, last) <= Between(m, first, last)
  <1> DEFINE S == first .. last
             T == later .. last
  <1>1. IsFiniteSet(S) /\ \A x \in S : m[x] \in Nat  BY BetweenNat
  <1>2. T \subseteq S  OBVIOUS
  <1> HIDE DEF S, T
  <1>3. SumFunctionOnSet(m, T) <= SumFunctionOnSet(m, S)  BY <1>1, <1>2, SumSubset
  <1> QED  BY <1>3 DEF Between, S, T

(* Nothing is minted in a stretch whose every second has nothing.            *)
LEMMA BetweenNothing ==
    ASSUME NEW m \in [Seconds -> Nat], \A x \in Seconds : m[x] = 0,
           NEW first \in Int, NEW last \in Int, GenesisTime <= first, last <= MaxTime
    PROVE  Between(m, first, last) = 0
  <1> DEFINE S == first .. last
  <1>1. IsFiniteSet(S) /\ \A x \in S : x \in Seconds  BY BetweenNat
  <1> HIDE DEF S
  <1>2. \A x \in S : m[x] = 0  BY <1>1
  <1>3. SumFunctionOnSet(m, S) = 0  BY <1>1, <1>2, SumZeros
  <1> QED  BY <1>3 DEF Between, S

-------------------------------------------------------------------------------
(* What a message mints is counted by the running time window.              *)

Counted(d) ==
    /\ Mints(d) \in Nat /\ (Mints(d) # 0 => params[d].listed)
    /\ supplies'[d].timeElapsed = supplies[d].timeElapsed
    /\ supplies'[d].timeLimitedCurrent =
          supplies[d].timeLimitedCurrent + (IF params[d].timeLimited THEN Mints(d) ELSE 0)

(* A step that mints nothing and leaves the window alone.                   *)
LEMMA NothingCounted ==
    ASSUME TypeOK, NEW d \in Denoms, NEW a \in Nat,
           bankSupply'[d] = bankSupply[d] - a,
           supplies'[d].timeElapsed = supplies[d].timeElapsed,
           supplies'[d].timeLimitedCurrent = supplies[d].timeLimitedCurrent
    PROVE  Counted(d)
  <1>1. bankSupply[d] \in Nat /\ supplies[d].timeLimitedCurrent \in Nat
    BY DEF TypeOK, LedgerTypeOK, SupplyRecord
  <1>2. Mints(d) = 0  BY <1>1 DEF Mints
  <1> QED  BY <1>1, <1>2 DEF Counted

(* The creation of a swap mints nothing.                                    *)
LEMMA CreateCounted ==
    ASSUME TypeOK, Create, NEW d \in Denoms
    PROVE  Counted(d)
  <1>1. PICK id \in SwapIDs, recipient \in Users \cup Maccs, c \in Denoms,
             amount \in Amounts, timestamp \in Timestamps, span \in Spans :
                \/ CreateIncoming(id, recipient, c, amount, timestamp, span)
                \/ CreateOutgoing(id, recipient, c, amount, timestamp, span)
    BY DEF Create
  <1>2. bankSupply' = bankSupply  BY <1>1 DEF CreateIncoming, CreateOutgoing, bank
  <1>3. bankSupply'[d] = bankSupply[d] - 0  BY <1>2 DEF TypeOK, LedgerTypeOK
  <1>4. supplies[d] \in SupplyRecord  BY DEF TypeOK, LedgerTypeOK
  <1>5. supplies'[d] \in {supplies[d], IncrementIncoming(supplies[d], amount),
                          IncrementOutgoing(supplies[d], amount)}
    BY <1>1 DEF CreateIncoming, CreateOutgoing, TypeOK, LedgerTypeOK
  <1>6. /\ supplies'[d].timeElapsed = supplies[d].timeElapsed
        /\ supplies'[d].timeLimitedCurrent = supplies[d].timeLimitedCurrent
    BY <1>4, <1>5 DEF IncrementIncoming, IncrementOutgoing, SupplyRecord
  <1> QED  BY <1>3, <1>6, NothingCounted

(* Nor does a refund.                                                       *)
LEMMA RefundCounted ==
    ASSUME TypeOK, Refund, NEW d \in Denoms
    PROVE  Counted(d)
  <1>1. PICK id \in SwapIDs : RefundIncoming(id) \/ RefundOutgoing(id)  BY DEF Refund
  <1>2. bankSupply' = bankSupply  BY <1>1 DEF RefundIncoming, RefundOutgoing, bank
  <1>3. bankSupply'[d] = bankSupply[d] - 0  BY <1>2 DEF TypeOK, LedgerTypeOK
  <1>4. supplies[d] \in SupplyRecord  BY DEF TypeOK, LedgerTypeOK
  <1>5. supplies'[d] \in {supplies[d], DecrementIncoming(supplies[d], swaps[id].amount),
                          DecrementOutgoing(supplies[d], swaps[id].amount)}
    BY <1>1 DEF RefundIncoming, RefundOutgoing, TypeOK, LedgerTypeOK
  <1>6. /\ supplies'[d].timeElapsed = supplies[d].timeElapsed
        /\ supplies'[d].timeLimitedCurrent = supplies[d].timeLimitedCurrent
    BY <1>4, <1>5 DEF DecrementIncoming, DecrementOutgoing, SupplyRecord
  <1> QED  BY <1>3, <1>6, NothingCounted

(* Nor the claim of an outgoing swap, which burns.                          *)
LEMMA ClaimOutgoingCounted ==
    ASSUME TypeOK, OneCoinSwaps, NEW id \in SwapIDs, NEW number, ClaimOutgoing(id, number), NEW d \in Denoms
    PROVE  Counted(d)
  <1> DEFINE a == swaps[id].amount
  <1>1. swaps[id].status # "NULL"  BY DEF ClaimOutgoing, IsClaimable
  <1>2. a \in Nat  BY <1>1, SettledSwapFields
  <1>3. bankSupply[d] \in Nat /\ supplies[d] \in SupplyRecord  BY DEF TypeOK, LedgerTypeOK
  <1>4. \E b \in {0, a} : bankSupply'[d] = bankSupply[d] - b
    <2>1. bankSupply'[d] \in {bankSupply[d], bankSupply[d] - a}
      BY OneCoinClaimOutgoing DEF TypeOK, LedgerTypeOK
    <2> HIDE DEF a
    <2> QED  BY <1>2, <1>3, <2>1
  <1>5. supplies'[d] \in {supplies[d], DecrementCurrent(DecrementOutgoing(supplies[d], a), a)}
    BY DEF ClaimOutgoing, TypeOK, LedgerTypeOK
  <1> HIDE DEF a
  <1>6. /\ supplies'[d].timeElapsed = supplies[d].timeElapsed
        /\ supplies'[d].timeLimitedCurrent = supplies[d].timeLimitedCurrent
    BY <1>3, <1>5 DEF DecrementCurrent, DecrementOutgoing, SupplyRecord
  <1> QED  BY <1>2, <1>4, <1>6, NothingCounted

(* The claim of an incoming swap mints its amount, of a listed asset.       *)
LEMMA ClaimIncomingCounted ==
    ASSUME TypeOK, OneCoinSwaps, NEW id \in SwapIDs, NEW number, ClaimIncoming(id, number), NEW d \in Denoms
    PROVE  Counted(d)
  <1> DEFINE a == swaps[id].amount
             s == DecrementIncoming(supplies[d], a)
             n == IncrementCurrent(s, params[d], a)
  <1>1. swaps[id].status # "NULL"  BY DEF ClaimIncoming, IsClaimable
  <1>2. a \in Nat /\ swaps[id].denom \in Denoms  BY <1>1, SettledSwapFields
  <1>3. /\ bankSupply[d] \in Nat /\ supplies[d] \in SupplyRecord
        /\ supplies[d].timeLimitedCurrent \in Nat
    BY DEF TypeOK, LedgerTypeOK, SupplyRecord
  <1>4. CASE swaps[id].denom # d
    <2>0. bankSupply'[d] = bankSupply[d]  BY <1>4, OneCoinClaimIncoming DEF TypeOK, LedgerTypeOK
    <2>1. bankSupply'[d] = bankSupply[d] /\ supplies'[d] = supplies[d]
      BY <1>4, <2>0 DEF ClaimIncoming, TypeOK, LedgerTypeOK
    <2>2. bankSupply'[d] = bankSupply[d] - 0  BY <1>3, <2>1
    <2> QED  BY <2>1, <2>2, NothingCounted
  <1>5. CASE swaps[id].denom = d
    <2>0. bankSupply'[d] = bankSupply[d] + a
      BY <1>2, <1>5, OneCoinClaimIncoming DEF TypeOK, LedgerTypeOK
    <2>1. bankSupply'[d] = bankSupply[d] + a /\ supplies'[d] = n /\ params[d].listed
      BY <1>2, <1>5, <2>0 DEF ClaimIncoming, CanMint, CanIncrementCurrent, TypeOK, LedgerTypeOK
    <2> HIDE DEF a
    <2>2. /\ s.timeElapsed = supplies[d].timeElapsed
          /\ s.timeLimitedCurrent = supplies[d].timeLimitedCurrent
      BY <1>3 DEF DecrementIncoming, SupplyRecord
    <2>3. /\ n.timeElapsed = s.timeElapsed
          /\ n.timeLimitedCurrent = IF params[d].timeLimited THEN s.timeLimitedCurrent + a
                                                             ELSE s.timeLimitedCurrent
      BY <1>3 DEF IncrementCurrent, DecrementIncoming, SupplyRecord
    <2>4. Mints(d) = a  BY <1>2, <1>3, <2>1 DEF Mints
    <2> HIDE DEF s, n
    <2> QED  BY <1>2, <1>3, <2>1, <2>2, <2>3, <2>4 DEF Counted
  <1> QED  BY <1>4, <1>5

(* So every message is counted, in a block whose time it does not change.   *)
LEMMA MessageCounted ==
    ASSUME TypeOK, OneCoinSwaps, Create \/ Claim \/ Refund, NEW d \in Denoms
    PROVE  /\ Counted(d) /\ inBlock
           /\ blockTime' = blockTime /\ inBlock' = inBlock /\ prevBlockTime' = prevBlockTime
           /\ params' = params
  <1>1. CASE Create
    <2>1. inBlock /\ UNCHANGED <<params, block>>
      BY <1>1 DEF Create, CreateIncoming, CreateOutgoing, AcceptSwap
    <2> QED  BY <1>1, <2>1, CreateCounted DEF block
  <1>2. CASE Claim
    <2>1. inBlock /\ UNCHANGED <<params, block>>  BY <1>2 DEF Claim, ClaimIncoming, ClaimOutgoing
    <2> QED  BY <1>2, <2>1, ClaimIncomingCounted, ClaimOutgoingCounted DEF Claim, block
  <1>3. CASE Refund
    <2>1. inBlock /\ UNCHANGED <<params, block>>  BY <1>3 DEF Refund, RefundIncoming, RefundOutgoing
    <2> QED  BY <1>3, <2>1, RefundCounted DEF block
  <1> QED  BY <1>1, <1>2, <1>3

-------------------------------------------------------------------------------
(* The clock and the memory of mints.                                       *)

Unminted(d) == \A t \in Seconds : minted[d][t] = 0

\* Nothing is minted ahead of time, before the first block or of an asset that
\* is not listed; once a block has begun, its time is the stored one.
MemoryInv ==
    /\ params = GenesisParams /\ OneCoinSwaps
    /\ minted \in [Denoms -> [Seconds -> Nat]]
    /\ GenesisTime <= blockTime
    /\ \A d \in Denoms : \A t \in Seconds : t > blockTime => minted[d][t] = 0
    /\ \A d \in Denoms : ~ params[d].listed => Unminted(d)
    /\ inBlock => /\ blockTime <= MaxTime
                  /\ (\E d \in Denoms : params[d].listed) => prevBlockTime = blockTime
    /\ ~ inBlock => /\ supplies = GenesisSupplies /\ prevBlockTime \in GenesisPrevTimes
                    /\ blockTime = GenesisTime /\ \A d \in Denoms : Unminted(d)

(* The chain with a memory was not started from a file. *)
LEMMA RememberedCoins == MemoryInv => OneCoinSwaps
  BY DEF MemoryInv

(* What the memory adds to a second. *)
LEMMA RememberedMint ==
    ASSUME TypeOK, MemoryInv, Remember, NEW d \in Denoms, Mints(d) \in Nat
    PROVE  /\ minted'[d] \in [Seconds -> Nat]
           /\ \A x \in Seconds : minted'[d][x] = minted[d][x] + (IF x = blockTime THEN Mints(d) ELSE 0)
  <1> DEFINE m == minted[d]
             a == Mints(d)
  <1>1. m \in [Seconds -> Nat]  BY DEF MemoryInv
  <1>2. minted'[d] = [m EXCEPT ![blockTime] = m[blockTime] + a]  BY DEF Remember
  <1> HIDE DEF m, a
  <1>3. \A x \in Seconds : [m EXCEPT ![blockTime] = m[blockTime] + a][x]
                              = m[x] + (IF x = blockTime THEN a ELSE 0)
    BY <1>1 DEF a
  <1>4. a \in Nat  BY DEF a
  <1>5. [m EXCEPT ![blockTime] = m[blockTime] + a] \in [Seconds -> Nat]
    <2> DEFINE n == [m EXCEPT ![blockTime] = m[blockTime] + a]
    <2>1. n = [x \in Seconds |-> n[x]]  BY <1>1
    <2>2. \A x \in Seconds : n[x] \in Nat  BY <1>1, <1>3, <1>4
    <2> HIDE DEF n
    <2>3. n \in [Seconds -> Nat]  BY <2>1, <2>2
    <2> QED  BY <2>3 DEF n
  <1> QED  BY <1>2, <1>3, <1>5 DEF m, a

(* A new block mints nothing, and stores its time if an asset is listed.    *)
LEMMA BlockMemory ==
    ASSUME TypeOK, MemoryInv, NEW step \in Steps, BeginBlock(step), Remember
    PROVE  /\ MemoryInv' /\ \A d \in Denoms : minted'[d] = minted[d]
           /\ inBlock' /\ params' = params /\ step \in Nat /\ blockTime' = blockTime + step
           /\ blockTime' <= MaxTime
  <1>1. /\ inBlock' = TRUE /\ params' = params /\ bankSupply' = bankSupply /\ blockTime' = blockTime + step
        /\ blockTime' <= MaxTime /\ step \in Nat /\ blockTime \in Nat
        /\ GenesisTime \in Nat /\ MaxTime \in Int
    BY NumbersAssumption DEF BeginBlock, bank, TypeOK, BlockTypeOK
  <1>2. ASSUME NEW d \in Denoms
        PROVE  minted'[d] \in [Seconds -> Nat] /\ \A x \in Seconds : minted'[d][x] = minted[d][x]
    <2>1. bankSupply[d] \in Nat  BY DEF TypeOK, LedgerTypeOK
    <2>2. Mints(d) = 0  BY <1>1, <2>1 DEF Mints
    <2>3. \A x \in Seconds : minted[d][x] \in Nat  BY DEF MemoryInv
    <2> QED  BY <2>2, <2>3, RememberedMint
  <1>3. \A d \in Denoms : minted'[d] = minted[d]
    <2> SUFFICES ASSUME NEW d \in Denoms PROVE minted'[d] = minted[d]  OBVIOUS
    <2>1. minted[d] \in [Seconds -> Nat]  BY DEF MemoryInv
    <2> QED  BY <1>2, <2>1
  <1>4. minted' \in [Denoms -> [Seconds -> Nat]]
    <2>1. minted' = [d \in Denoms |-> minted'[d]]  BY DEF Remember
    <2> QED  BY <1>2, <2>1
  <1>5. (\E d \in Denoms : params[d].listed) => prevBlockTime' = blockTime'
    BY DEF BeginBlock, UpdateTimeBasedSupplyLimits
  <1>6. \A t \in Seconds : t \in Int  BY <1>1 DEF Seconds
  <1>7. \A d \in Denoms : \A t \in Seconds : t > blockTime' => minted'[d][t] = 0
    <2> SUFFICES ASSUME NEW d \in Denoms, NEW t \in Seconds, t > blockTime'
                 PROVE  minted'[d][t] = 0
      OBVIOUS
    <2>1. t > blockTime  BY <1>1, <1>6
    <2> QED  BY <1>2, <2>1 DEF MemoryInv
  <1>8. \A d \in Denoms : ~ params'[d].listed => \A t \in Seconds : minted'[d][t] = 0
    BY <1>1, <1>2 DEF MemoryInv, Unminted
  <1>9. GenesisTime <= blockTime'  BY <1>1 DEF MemoryInv
  <1>10. OneCoinSwaps'  BY NextOneCoin DEF MemoryInv, NextBlock, FixedNext, Next
  <1>11. MemoryInv'
    BY <1>1, <1>4, <1>5, <1>7, <1>8, <1>9, <1>10 DEF MemoryInv, Unminted
  <1> QED  BY <1>1, <1>3, <1>11

(* A message mints in the second of its block. *)
LEMMA MessageMemory ==
    ASSUME TypeOK, MemoryInv, Create \/ Claim \/ Refund, Remember
    PROVE  MemoryInv'
  <1>1. ASSUME NEW d \in Denoms
        PROVE  /\ minted'[d] \in [Seconds -> Nat] /\ Mints(d) \in Nat
               /\ \A x \in Seconds : minted'[d][x] = minted[d][x] + (IF x = blockTime THEN Mints(d) ELSE 0)
               /\ Mints(d) # 0 => params[d].listed
               /\ inBlock /\ blockTime' = blockTime /\ inBlock' = inBlock
               /\ prevBlockTime' = prevBlockTime /\ params' = params
    <2>1. Mints(d) \in Nat  BY MessageCounted DEF Counted, MemoryInv
    <2> QED  BY <2>1, MessageCounted, RememberedMint DEF Counted, MemoryInv
  <1>2. minted' \in [Denoms -> [Seconds -> Nat]]
    <2>1. minted' = [d \in Denoms |-> minted'[d]]  BY DEF Remember
    <2> QED  BY <1>1, <2>1
  <1>3. /\ inBlock /\ UNCHANGED <<params, block>>
    <2>1. Create => inBlock /\ UNCHANGED <<params, block>>
      BY DEF Create, CreateIncoming, CreateOutgoing, AcceptSwap
    <2>2. Claim => inBlock /\ UNCHANGED <<params, block>>  BY DEF Claim, ClaimIncoming, ClaimOutgoing
    <2>3. Refund => inBlock /\ UNCHANGED <<params, block>>  BY DEF Refund, RefundIncoming, RefundOutgoing
    <2> QED  BY <2>1, <2>2, <2>3
  <1>4. blockTime \in Nat /\ \A t \in Seconds : t \in Int
    BY NumbersAssumption DEF TypeOK, BlockTypeOK, Seconds
  <1>5. ASSUME NEW d \in Denoms, NEW t \in Seconds, t > blockTime \/ ~ params[d].listed
        PROVE  minted'[d][t] = 0
    <2>1. minted[d][t] = 0  BY <1>5 DEF MemoryInv, Unminted
    <2>2. t = blockTime => Mints(d) = 0  BY <1>1, <1>4, <1>5
    <2> QED  BY <1>1, <2>1, <2>2
  <1>6. OneCoinSwaps'  BY NextOneCoin DEF MemoryInv, FixedNext, Next
  <1> QED  BY <1>2, <1>3, <1>5, <1>6 DEF MemoryInv, Unminted, block

(* The memory of every reachable state. *)
LEMMA MemoryKept == HSpec => []MemoryInv
  <1>1. ASSUME HInit PROVE MemoryInv
    <2>1. minted = [d \in Denoms |-> [t \in Seconds |-> 0]]  BY <1>1 DEF HInit, Seconds
    <2>2. minted \in [Denoms -> [Seconds -> Nat]] /\ \A d \in Denoms : Unminted(d)
      BY <2>1 DEF Unminted
    <2>3. /\ params = GenesisParams /\ supplies = GenesisSupplies /\ prevBlockTime \in GenesisPrevTimes
          /\ blockTime = GenesisTime /\ inBlock = FALSE
      BY <1>1 DEF HInit, Init
    <2>4. GenesisTime <= blockTime  BY <2>3, NumbersAssumption
    <2>5. OneCoinSwaps  BY <1>1 DEF HInit, Init, OneCoinSwaps, NoSwap
    <2> QED  BY <2>2, <2>3, <2>4, <2>5 DEF MemoryInv, Unminted
  <1>2. ASSUME TypeOK, MemoryInv, [HNext]_hvars PROVE MemoryInv'
    <2>1. CASE HNext
      <3>1. CASE Create \/ Claim \/ Refund  BY <1>2, <2>1, <3>1, MessageMemory DEF HNext
      <3>2. CASE NextBlock  BY <1>2, <2>1, <3>2, BlockMemory DEF HNext, NextBlock
      <3> QED  BY <2>1, <3>1, <3>2 DEF HNext, FixedNext
    <2>2. CASE UNCHANGED hvars
      BY <1>2, <2>2 DEF hvars, vars, store, block, OneCoinSwaps, MemoryInv, Unminted
    <2> QED  BY <1>2, <2>1, <2>2
  <1>3. (TypeOK /\ IndexInv) /\ MemoryInv /\ [HNext]_hvars => MemoryInv'  BY <1>2
  <1> QED  BY <1>1, <1>3, HistoryTypes, PTL DEF HSpec

-------------------------------------------------------------------------------
(* No stretch of a time period sees more than two windows' limits minted.   *)

(* A sum of durations that overflows is a negative one, never a longer one. *)
LEMMA WrappedBelow ==
    ASSUME NEW seconds \in Int
    PROVE  /\ WrapDuration(seconds) \in Int /\ -DurationLimit <= WrapDuration(seconds)
           /\ -DurationLimit <= seconds => WrapDuration(seconds) <= seconds
           /\ -DurationLimit <= seconds /\ seconds < DurationLimit => WrapDuration(seconds) = seconds
  <1>1. DurationLimit \in Nat /\ DurationLimit > 0  BY DurationAssumption
  <1> DEFINE range == 2 * DurationLimit
             sum   == seconds + DurationLimit
  <1>2. range \in Nat \ {0} /\ sum \in Int  BY <1>1
  <1>3. sum % range \in Int /\ 0 <= sum % range /\ sum % range < range
    <2> HIDE DEF range, sum
    <2> QED  BY <1>2
  <1>4. 0 <= sum /\ sum < range => sum % range = sum
    <2> HIDE DEF range, sum
    <2> QED  BY <1>2
  <1>5. /\ -DurationLimit <= seconds => 0 <= sum
        /\ seconds < DurationLimit => sum < range
    BY <1>1
  <1> HIDE DEF range
  <1>6. 0 <= sum => sum % range <= sum  BY <1>2, <1>3, <1>4
  <1> QED  BY <1>1, <1>2, <1>3, <1>4, <1>5, <1>6 DEF WrapDuration, range

(* The window of a listed, time-limited asset at a new block.               *)
LEMMA BlockWindow ==
    ASSUME TypeOK, NEW step \in Steps, BeginBlock(step),
           NEW d \in Denoms, params[d].listed, params[d].timeLimited
    PROVE  LET sum == WrapDuration(supplies[d].timeElapsed + Elapsed(blockTime'))
           IN  IF sum < params[d].timePeriod
                 THEN /\ supplies'[d].timeElapsed = sum
                      /\ supplies'[d].timeLimitedCurrent = supplies[d].timeLimitedCurrent
                 ELSE supplies'[d].timeElapsed = 0 /\ supplies'[d].timeLimitedCurrent = 0
  <1> DEFINE elapsed == Elapsed(blockTime')
             sum == WrapDuration(supplies[d].timeElapsed + elapsed)
  <1>1. supplies'[d] = UpdateWindow(supplies[d], params[d], elapsed)
    BY DEF BeginBlock, UpdateTimeBasedSupplyLimits
  <1>2. supplies[d] \in SupplyRecord  BY DEF TypeOK, LedgerTypeOK
  <1> HIDE DEF elapsed
  <1>3. /\ UpdateWindow(supplies[d], params[d], elapsed).timeElapsed
              = IF sum < params[d].timePeriod THEN sum ELSE 0
        /\ UpdateWindow(supplies[d], params[d], elapsed).timeLimitedCurrent
              = IF sum < params[d].timePeriod THEN supplies[d].timeLimitedCurrent ELSE 0
    BY <1>2 DEF UpdateWindow, SupplyRecord
  <1> QED  BY <1>1, <1>3 DEF elapsed

\* The running window of an asset began at s or after: what it counts is at
\* least what was minted after s, and with one more window's limit at least
\* what was minted from a period before s on.
RunsSince(d, s) ==
    /\ s <= blockTime
    /\ supplies[d].timeElapsed <= blockTime - s /\ -DurationLimit <= supplies[d].timeElapsed
    /\ \A t \in Seconds :
          /\ t > s => Between(minted[d], t, blockTime) <= supplies[d].timeLimitedCurrent
          /\ t > s - params[d].timePeriod =>
                Between(minted[d], t, blockTime)
                   <= params[d].timeBasedLimit + supplies[d].timeLimitedCurrent

WindowInv ==
    \A d \in Denoms : inBlock /\ params[d].listed /\ params[d].timeLimited =>
        \E s \in Int : RunsSince(d, s)

(* A message adds to the window what it adds to the memory. *)
LEMMA MessageRuns ==
    ASSUME TypeOK, MemoryInv, Create \/ Claim \/ Refund, Remember,
           NEW d \in Denoms, params[d].timeLimited, NEW s \in Int, RunsSince(d, s)
    PROVE  RunsSince(d, s)'
  <1> DEFINE m == minted[d]
             n == minted'[d]
             a == Mints(d)
             c == supplies[d].timeLimitedCurrent
  <1>1. /\ a \in Nat /\ blockTime' = blockTime /\ params' = params
        /\ supplies'[d].timeElapsed = supplies[d].timeElapsed
        /\ supplies'[d].timeLimitedCurrent = c + a
        /\ inBlock
    BY MessageCounted, RememberedCoins DEF Counted
  <1>2. /\ m \in [Seconds -> Nat] /\ n \in [Seconds -> Nat]
        /\ \A x \in Seconds : n[x] = m[x] + (IF x = blockTime THEN a ELSE 0)
    BY <1>1, RememberedMint DEF MemoryInv
  <1>3. blockTime \in Int /\ blockTime <= MaxTime /\ c \in Nat /\ params[d].timeBasedLimit \in Nat
    BY <1>1, ParamFields DEF TypeOK, BlockTypeOK, MemoryInv
  <1> HIDE DEF m, n, a, c
  <1>4. ASSUME NEW t \in Seconds
        PROVE  /\ Between(n, t, blockTime) = Between(m, t, blockTime) + (IF t <= blockTime THEN a ELSE 0)
               /\ Between(m, t, blockTime) \in Nat
               /\ t > blockTime => Between(m, t, blockTime) = 0
    <2>1. t \in Int /\ GenesisTime <= t  BY NumbersAssumption DEF Seconds
    <2>2. Between(n, t, blockTime)
             = Between(m, t, blockTime) + (IF t <= blockTime /\ blockTime <= blockTime THEN a ELSE 0)
      <3>1. MintedAt(m, n, blockTime, a)  BY <1>2 DEF MintedAt
      <3> QED  BY <1>1, <1>2, <1>3, <2>1, <3>1, BetweenRaised
    <2>3. Between(m, t, blockTime) \in Nat /\ (t > blockTime => Between(m, t, blockTime) = 0)
      BY <1>2, <1>3, <2>1, BetweenNat
    <2> QED  BY <1>3, <2>2, <2>3
  <1>5. ASSUME NEW t \in Seconds
        PROVE  /\ t > s => Between(n, t, blockTime) <= c + a
               /\ t > s - params[d].timePeriod =>
                     Between(n, t, blockTime) <= params[d].timeBasedLimit + (c + a)
    <2>1. /\ t > s => Between(m, t, blockTime) <= c
          /\ t > s - params[d].timePeriod =>
                Between(m, t, blockTime) <= params[d].timeBasedLimit + c
      BY DEF RunsSince, m, c
    <2> QED  BY <1>1, <1>3, <1>4, <2>1
  <1> QED  BY <1>1, <1>5 DEF RunsSince, n, c

(* Before the first block nothing is minted, so any window will do. *)
LEMMA FirstBlockRuns ==
    ASSUME TypeOK, TypeOK', MemoryInv, ~ inBlock, NEW step \in Steps, BeginBlock(step), Remember,
           NEW d \in Denoms, params[d].listed, params[d].timeLimited
    PROVE  \E s \in Int : RunsSince(d, s)'
  <1> DEFINE e == supplies'[d].timeElapsed
             sum == WrapDuration(supplies[d].timeElapsed + Elapsed(blockTime'))
  <1>1. /\ blockTime' \in Int /\ blockTime' <= MaxTime /\ minted'[d] \in [Seconds -> Nat]
        /\ \A x \in Seconds : minted'[d][x] = 0
    BY BlockMemory DEF TypeOK, BlockTypeOK, MemoryInv, Unminted
  <1>2. ASSUME NEW t \in Seconds
        PROVE  Between(minted'[d], t, blockTime') = 0
    <2>1. t \in Int /\ GenesisTime <= t  BY NumbersAssumption DEF Seconds
    <2> QED  BY <1>1, <2>1, BetweenNothing
  <1>3. supplies'[d].timeLimitedCurrent \in Nat /\ params'[d].timeBasedLimit \in Nat /\ e \in Int
    BY ParamsAssumption DEF TypeOK, LedgerTypeOK, SupplyRecord, AssetParam
  <1>4. -DurationLimit <= e
    <2>1. supplies[d].timeElapsed + Elapsed(blockTime') \in Int
      BY <1>1, ElapsedType DEF TypeOK, LedgerTypeOK, BlockTypeOK, SupplyRecord
    <2>2. sum \in Int /\ -DurationLimit <= sum  BY <2>1, WrappedBelow
    <2>3. e = sum \/ e = 0  BY BlockWindow
    <2> QED  BY <2>2, <2>3, DurationAssumption
  <1>5. PICK s \in Int : s <= blockTime' /\ e <= blockTime' - s
    <2>1. ASSUME NEW now \in Int, NEW x \in Int
          PROVE  \E s \in Int : s <= now /\ x <= now - s
      <3>1. CASE x >= 0
        <4>1. now - x \in Int /\ now - x <= now /\ x <= now - (now - x)  BY <3>1
        <4> QED  BY <4>1
      <3>2. CASE x < 0  BY <3>2
      <3> QED  BY <3>1, <3>2
    <2> QED  BY <1>1, <1>3, <2>1
  <1>6. RunsSince(d, s)'  BY <1>2, <1>3, <1>4, <1>5 DEF RunsSince
  <1> QED  BY <1>6

(* A later block keeps the window, or begins one a period after the last.    *)
LEMMA BlockRuns ==
    ASSUME TypeOK, TypeOK', MemoryInv, LimitInv, inBlock, NEW step \in Steps, BeginBlock(step), Remember,
           NEW d \in Denoms, params[d].listed, params[d].timeLimited, NEW s \in Int, RunsSince(d, s)
    PROVE  \E r \in Int : RunsSince(d, r)'
  <1> DEFINE m == minted[d]
             c == supplies[d].timeLimitedCurrent
             e == supplies[d].timeElapsed
             period == params[d].timePeriod
             limit == params[d].timeBasedLimit
             now == blockTime'
             elapsed == Elapsed(now)
             sum == WrapDuration(e + elapsed)
  <1>1. /\ now = blockTime + step /\ now <= MaxTime /\ step \in Nat /\ params' = params /\ minted'[d] = m
        /\ blockTime \in Nat /\ prevBlockTime = blockTime
        /\ m \in [Seconds -> Nat] /\ \A x \in Seconds : x > blockTime => m[x] = 0
    BY BlockMemory DEF TypeOK, BlockTypeOK, MemoryInv
  <1>2. c \in Nat /\ e \in Int /\ limit \in Nat /\ period \in Int /\ c <= limit
    <2>1. supplies[d] \in SupplyRecord /\ supplies[d].incoming \in Nat
      BY DEF TypeOK, LedgerTypeOK, SupplyRecord
    <2>2. c \in Nat /\ e \in Int  BY <2>1 DEF SupplyRecord
    <2>3. limit \in Nat /\ period \in Int  BY ParamsAssumption DEF TypeOK, AssetParam
    <2>4. c + supplies[d].incoming <= limit  BY DEF LimitInv
    <2> QED  BY <2>1, <2>2, <2>3, <2>4
  <1>3. elapsed \in Int /\ 0 <= elapsed /\ elapsed <= step
    <2>1. elapsed = SaturateDuration(now - blockTime)  BY <1>1 DEF Elapsed, NoTime
    <2>2. now - blockTime = step  BY <1>1
    <2>3. DurationLimit \in Nat /\ DurationLimit > 0  BY DurationAssumption
    <2> HIDE DEF elapsed, now
    <2> QED  BY <1>1, <2>1, <2>2, <2>3 DEF SaturateDuration
  <1>4. /\ s <= blockTime /\ e <= blockTime - s /\ -DurationLimit <= e
        /\ \A t \in Seconds : /\ t > s => Between(m, t, blockTime) <= c
                              /\ t > s - period => Between(m, t, blockTime) <= limit + c
    BY DEF RunsSince
  <1>5. IF sum < period
          THEN supplies'[d].timeElapsed = sum /\ supplies'[d].timeLimitedCurrent = c
          ELSE supplies'[d].timeElapsed = 0 /\ supplies'[d].timeLimitedCurrent = 0
    BY BlockWindow
  <1>6. DurationLimit \in Nat /\ DurationLimit > 0  BY DurationAssumption
  <1> HIDE DEF m, c, e, period, limit, elapsed, sum
  <1>7. ASSUME NEW t \in Seconds
        PROVE  /\ t \in Int /\ Between(m, t, now) = Between(m, t, blockTime)
               /\ Between(m, t, now) \in Nat /\ (t > now => Between(m, t, now) = 0)
    <2>1. t \in Int /\ GenesisTime <= t  BY NumbersAssumption DEF Seconds
    <2>2. now \in Int /\ blockTime <= now  BY <1>1
    <2>3. Between(m, t, now) = Between(m, t, blockTime)  BY <1>1, <2>1, <2>2, BetweenCut
    <2> QED  BY <1>1, <2>1, <2>2, <2>3, BetweenNat
  <1>8. sum \in Int /\ -DurationLimit <= sum /\ sum <= e + elapsed
    <2>1. e + elapsed \in Int /\ -DurationLimit <= e + elapsed  BY <1>2, <1>3, <1>4, <1>6
    <2> QED  BY <2>1, WrappedBelow DEF sum
  <1>9. sum <= now - s  BY <1>1, <1>2, <1>3, <1>4, <1>8
  <1>10. CASE sum < period
    <2>1. s <= now  BY <1>1, <1>4
    <2>2. \A t \in Seconds : /\ t > s => Between(m, t, now) <= c
                             /\ t > s - period => Between(m, t, now) <= limit + c
      BY <1>4, <1>7
    <2>3. RunsSince(d, s)'
      BY <1>1, <1>5, <1>8, <1>9, <1>10, <2>1, <2>2 DEF RunsSince, c, m, limit, period
    <2> QED  BY <2>3
  <1>11. CASE ~ (sum < period)
    <2>1. s <= now - period  BY <1>1, <1>2, <1>8, <1>9, <1>11
    <2>2. PICK r \in Int : r = now  BY <1>1
    <2>3. ASSUME NEW t \in Seconds
          PROVE  /\ t > r => Between(m, t, now) <= 0
                 /\ t > r - period => Between(m, t, now) <= limit + 0
      <3>1. t > r => Between(m, t, now) = 0  BY <1>7, <2>2
      <3>2. t > r - period => Between(m, t, now) <= c
        <4>1. t > r - period => t > s  BY <1>1, <1>2, <1>7, <2>1, <2>2
        <4> QED  BY <1>4, <1>7, <4>1
      <3> QED  BY <1>2, <1>7, <3>1, <3>2
    <2>4. RunsSince(d, r)'
      <3>1. supplies'[d].timeElapsed = 0 /\ supplies'[d].timeLimitedCurrent = 0  BY <1>5, <1>11
      <3>2. r <= now /\ 0 <= now - r /\ -DurationLimit <= 0  BY <1>1, <1>6, <2>2
      <3> QED  BY <1>1, <2>3, <3>1, <3>2 DEF RunsSince, m, limit, period
    <2> QED  BY <2>4
  <1> QED  BY <1>10, <1>11

(* So a window runs in every reachable state. *)
LEMMA NextWindow ==
    ASSUME TypeOK, TypeOK', MemoryInv, LimitInv, WindowInv, [HNext]_hvars
    PROVE  WindowInv'
  <1> SUFFICES ASSUME NEW d \in Denoms, inBlock', params'[d].listed, params'[d].timeLimited
               PROVE  (\E s \in Int : RunsSince(d, s))'
    BY DEF WindowInv
  <1>1. CASE HNext
    <2>1. CASE Create \/ Claim \/ Refund
      <3>1. inBlock /\ params' = params /\ Remember  BY <1>1, <2>1, MessageCounted, RememberedCoins DEF HNext
      <3>2. PICK s \in Int : RunsSince(d, s)  BY <3>1 DEF WindowInv
      <3>3. RunsSince(d, s)'  BY <2>1, <3>1, <3>2, MessageRuns
      <3> QED  BY <3>3
    <2>2. CASE NextBlock
      <3>1. PICK step \in Steps : BeginBlock(step)  BY <2>2 DEF NextBlock
      <3>2. params' = params /\ Remember  BY <1>1, <3>1 DEF HNext, BeginBlock
      <3>3. CASE ~ inBlock  BY <3>1, <3>2, <3>3, FirstBlockRuns
      <3>4. CASE inBlock
        <4>1. PICK s \in Int : RunsSince(d, s)  BY <3>2, <3>4 DEF WindowInv
        <4> QED  BY <3>1, <3>2, <3>4, <4>1, BlockRuns
      <3> QED  BY <3>3, <3>4
    <2> QED  BY <1>1, <2>1, <2>2 DEF HNext, FixedNext
  <1>2. CASE UNCHANGED hvars
    <2>1. /\ inBlock' = inBlock /\ params' = params /\ supplies' = supplies /\ blockTime' = blockTime
          /\ minted' = minted
      BY <1>2 DEF hvars, vars, block
    <2>2. PICK s \in Int : RunsSince(d, s)  BY <2>1 DEF WindowInv
    <2>3. RunsSince(d, s)'  BY <2>1, <2>2 DEF RunsSince
    <2> QED  BY <2>3
  <1> QED  BY <1>1, <1>2

(* The end of a stretch of one time period, cut off at the end of the run. *)
LEMMA LeastOfTwo ==
    ASSUME NEW a \in Int, NEW b \in Int
    PROVE  Min({a, b}) \in Int /\ Min({a, b}) <= a /\ Min({a, b}) <= b
  <1>1. \E x \in {a, b} : \A y \in {a, b} : x <= y
    <2>1. CASE a <= b  BY <2>1
    <2>2. CASE ~ (a <= b)  BY <2>2
    <2> QED  BY <2>1, <2>2
  <1>2. Min({a, b}) \in {a, b} /\ \A y \in {a, b} : Min({a, b}) <= y  BY <1>1 DEF Min
  <1> QED  BY <1>2

\* The stretches of one asset that begin at t.
RateBounded(d, t, m) ==
    Between(m, t, Min({t + params[d].timePeriod - 1, MaxTime})) <= 2 * params[d].timeBasedLimit

(* The invariant, stretch by stretch.                                       *)
LEMMA RateOfStretches ==
    MintRateBounded <=> \A d \in Denoms : params[d].timeLimited =>
                            \A t \in Seconds : RateBounded(d, t, minted[d])
  BY DEF MintRateBounded, MintedBetween, RateBounded, Between, Seconds

(* Whatever a message adds to a stretch was minted in this window or in the *)
(* one before: a stretch that reached further back would be longer than the *)
(* time period.                                                             *)
LEMMA MessageRate ==
    ASSUME TypeOK, MemoryInv, MemoryInv', LimitInv', WindowInv',
           Create \/ Claim \/ Refund, Remember, TypeOK',
           NEW d \in Denoms, params[d].timeLimited, NEW t \in Seconds, RateBounded(d, t, minted[d])
    PROVE  RateBounded(d, t, minted'[d])
  <1> DEFINE m == minted[d]
             n == minted'[d]
             a == Mints(d)
             c == supplies'[d].timeLimitedCurrent
             period == params[d].timePeriod
             limit == params[d].timeBasedLimit
             last == Min({t + period - 1, MaxTime})
  <1>1. /\ a \in Nat /\ blockTime' = blockTime /\ params' = params /\ inBlock /\ inBlock'
        /\ a # 0 => params[d].listed
    BY MessageCounted, RememberedCoins DEF Counted
  <1>2. /\ m \in [Seconds -> Nat] /\ n \in [Seconds -> Nat]
        /\ \A x \in Seconds : n[x] = m[x] + (IF x = blockTime THEN a ELSE 0)
    BY <1>1, RememberedMint DEF MemoryInv
  <1>3. /\ blockTime \in Int /\ blockTime <= MaxTime /\ c \in Nat /\ limit \in Nat /\ period \in Int
        /\ t \in Int /\ GenesisTime <= t /\ MaxTime \in Int
        /\ \A x \in Seconds : x > blockTime => n[x] = 0
    <2>1. supplies'[d] \in SupplyRecord  BY DEF TypeOK, LedgerTypeOK
    <2>2. limit \in Nat /\ period \in Int  BY ParamsAssumption DEF TypeOK, AssetParam
    <2>3. t \in Int /\ GenesisTime <= t /\ MaxTime \in Int  BY NumbersAssumption DEF Seconds
    <2> QED  BY <1>1, <2>1, <2>2, <2>3 DEF TypeOK, BlockTypeOK, MemoryInv, SupplyRecord
  <1>4. last \in Int /\ last <= t + period - 1 /\ last <= MaxTime
    <2>1. t + period - 1 \in Int  BY <1>3
    <2> QED  BY <1>3, <2>1, LeastOfTwo
  <1>5. Between(m, t, last) <= 2 * limit  BY DEF RateBounded
  <1>6. params[d].listed => c <= limit
    <2>1. params[d].listed => c + supplies'[d].incoming <= limit  BY <1>1 DEF LimitInv
    <2>2. supplies'[d].incoming \in Nat  BY DEF TypeOK, LedgerTypeOK, SupplyRecord
    <2> QED  BY <1>3, <2>1, <2>2
  <1>7. ASSUME params[d].listed, blockTime <= last, t <= blockTime
        PROVE  Between(n, t, blockTime) <= limit + c
    <2>1. PICK s \in Int : RunsSince(d, s)'  BY <1>1, <1>7 DEF WindowInv
    <2>2. s <= blockTime /\ (t > s - period => Between(n, t, blockTime) <= limit + c)
      BY <1>1, <2>1 DEF RunsSince
    <2> HIDE DEF n, c, limit, period, last
    <2>3. t > s - period  BY <1>3, <1>4, <1>7, <2>2
    <2> QED  BY <2>2, <2>3
  <1> HIDE DEF m, n, a, c, period, limit, last
  <1>8. /\ Between(n, t, last)
              = Between(m, t, last) + (IF t <= blockTime /\ blockTime <= last THEN a ELSE 0)
        /\ Between(m, t, last) \in Nat
    <2>1. Between(n, t, last) = Between(m, t, last) + (IF t <= blockTime /\ blockTime <= last THEN a ELSE 0)
      <3>1. a \in Nat /\ blockTime \in Int  BY <1>1, <1>3
      <3>2. t \in Int /\ GenesisTime <= t  BY <1>3
      <3>3. MintedAt(m, n, blockTime, a)  BY <1>2 DEF MintedAt
      <3> QED  BY <1>2, <1>4, <3>1, <3>2, <3>3, BetweenRaised
    <2>2. Between(m, t, last) \in Nat  BY <1>2, <1>3, <1>4, BetweenNat
    <2> QED  BY <2>1, <2>2
  <1>9. CASE a # 0 /\ t <= blockTime /\ blockTime <= last
    <2>1. Between(n, t, last) = Between(n, t, blockTime)  BY <1>2, <1>3, <1>4, <1>9, BetweenCut
    <2>2. Between(n, t, blockTime) <= limit + c /\ c <= limit  BY <1>1, <1>6, <1>7, <1>9
    <2>3. Between(n, t, blockTime) \in Nat  BY <1>2, <1>3, BetweenNat
    <2>4. Between(n, t, last) <= 2 * limit  BY <1>3, <2>1, <2>2, <2>3
    <2> QED  BY <2>4 DEF RateBounded, n, last, period, limit
  <1>10. CASE ~ (a # 0 /\ t <= blockTime /\ blockTime <= last)
    <2>1. Between(n, t, last) <= 2 * limit  BY <1>1, <1>5, <1>8, <1>10
    <2> QED  BY <2>1 DEF RateBounded, n, last, period, limit
  <1> QED  BY <1>9, <1>10

(* No step brings what is minted in a period above two windows.             *)
LEMMA NextRate ==
    ASSUME TypeOK, TypeOK', MemoryInv, MemoryInv', LimitInv', WindowInv', MintRateBounded,
           [HNext]_hvars
    PROVE  MintRateBounded'
  <1>1. \A d \in Denoms : params[d].timeLimited => \A t \in Seconds : RateBounded(d, t, minted[d])
    BY RateOfStretches
  <1>2. /\ params' = params
        /\ \A d \in Denoms : params[d].timeLimited => \A t \in Seconds : RateBounded(d, t, minted'[d])
    <2>1. CASE HNext
      <3>1. CASE Create \/ Claim \/ Refund
        <4>1. Remember  BY <2>1 DEF HNext
        <4>2. params' = params  BY DEF MemoryInv
        <4> QED  BY <1>1, <3>1, <4>1, <4>2, MessageRate
      <3>2. CASE NextBlock  BY <1>1, <2>1, <3>2, BlockMemory DEF HNext, NextBlock
      <3> QED  BY <2>1, <3>1, <3>2 DEF HNext, FixedNext
    <2>2. CASE UNCHANGED hvars  BY <1>1, <2>2 DEF hvars, vars
    <2> QED  BY <2>1, <2>2
  <1>3. (\A d \in Denoms : params[d].timeLimited => \A t \in Seconds : RateBounded(d, t, minted[d]))'
    BY <1>2 DEF RateBounded
  <1> QED  BY <1>3 DEF MintRateBounded, MintedBetween, RateBounded, Between, Seconds

(* Whatever the times of the blocks, and even if elapsed times overflow, no *)
(* stretch of an asset's time period sees more than twice the window's      *)
(* limit minted while the params stay as they are.                         *)
THEOREM MintRateLimited ==
    ASSUME GenesisWithinWindow
    PROVE  HSpec => []MintRateBounded
  <1>1. ASSUME HInit, TypeOK, MemoryInv PROVE MintRateBounded
    <2> SUFFICES ASSUME NEW d \in Denoms, NEW t \in Seconds PROVE RateBounded(d, t, minted[d])
      BY RateOfStretches
    <2> DEFINE limit == params[d].timeBasedLimit
               period == params[d].timePeriod
               last == Min({t + period - 1, MaxTime})
    <2>1. minted[d] \in [Seconds -> Nat] /\ \A x \in Seconds : minted[d][x] = 0
      BY <1>1 DEF HInit, MemoryInv, Seconds
    <2>2. t \in Int /\ GenesisTime <= t /\ MaxTime \in Int  BY NumbersAssumption DEF Seconds
    <2>3. limit \in Nat /\ period \in Int  BY <1>1, ParamsAssumption DEF TypeOK, AssetParam
    <2>4. last \in Int /\ last <= MaxTime
      <3>1. t + period - 1 \in Int  BY <2>2, <2>3
      <3> QED  BY <2>2, <3>1, LeastOfTwo
    <2>5. Between(minted[d], t, last) = 0  BY <2>1, <2>2, <2>4, BetweenNothing
    <2>6. 0 <= 2 * limit  BY <2>3
    <2> QED  BY <2>5, <2>6 DEF RateBounded
  <1>2. HSpec => []LimitInv
    <2>1. Init => LimitInv  BY InitLimit
    <2> QED  BY <2>1, FixedNextLimit, FixedTypeCorrect, HistoryIsFixed, PTL DEF FixedSpec
  <1>3. HInit => WindowInv  BY DEF HInit, Init, WindowInv
  <1>4. (TypeOK /\ IndexInv) /\ (TypeOK /\ IndexInv)' /\ MemoryInv /\ LimitInv /\ WindowInv
           /\ [HNext]_hvars => WindowInv'
    BY NextWindow
  <1>5. HSpec => []WindowInv
    BY <1>2, <1>3, <1>4, HistoryTypes, MemoryKept, PTL DEF HSpec
  <1>6. (TypeOK /\ IndexInv) /\ (TypeOK /\ IndexInv)' /\ MemoryInv /\ MemoryInv' /\ LimitInv'
           /\ WindowInv' /\ MintRateBounded /\ [HNext]_hvars => MintRateBounded'
    BY NextRate
  <1>7. HInit /\ (TypeOK /\ IndexInv) /\ MemoryInv => MintRateBounded  BY <1>1
  <1> QED  BY <1>2, <1>5, <1>6, <1>7, HistoryTypes, MemoryKept, PTL DEF HSpec

-------------------------------------------------------------------------------
(* A window counts nothing older than its period.                           *)

\* No sum of elapsed times reaches the end of a time.Duration: the periods are
\* positive, and with the longest step between blocks they fit in one, as does
\* what the genesis file has elapsed, its previous block not being ahead of it.
DurationsFit ==
    /\ \A prev \in GenesisPrevTimes : prev <= GenesisTime
    /\ \A d \in Denoms : GenesisParams[d].timeLimited =>
          /\ 0 < GenesisParams[d].timePeriod
          /\ 0 <= GenesisSupplies[d].timeElapsed /\ GenesisSupplies[d].timeElapsed < DurationLimit
          /\ \A step \in Steps :
                /\ GenesisParams[d].timePeriod + step <= DurationLimit
                /\ \A prev \in GenesisPrevTimes \ {NoTime} :
                      GenesisSupplies[d].timeElapsed + (GenesisTime + step - prev) < DurationLimit

\* The genesis file counts nothing: the memory begins with it.
WindowsFresh ==
    \A d \in Denoms : GenesisParams[d].timeLimited => GenesisSupplies[d].timeLimitedCurrent = 0

\* What the window counts was minted since it began, less than a period ago.
CountsRecent(d) ==
    /\ 0 <= supplies[d].timeElapsed /\ supplies[d].timeElapsed < params[d].timePeriod
    /\ supplies[d].timeLimitedCurrent
          <= Between(minted[d], Max({GenesisTime, blockTime - supplies[d].timeElapsed}), blockTime)

RecentInv ==
    \A d \in Denoms : params[d].timeLimited =>
        IF inBlock /\ params[d].listed THEN CountsRecent(d)
        ELSE supplies[d].timeLimitedCurrent = 0

(* The greater of two integers. *)
LEMMA GreatestOfTwo ==
    ASSUME NEW a \in Int, NEW b \in Int
    PROVE  Max({a, b}) = IF a <= b THEN b ELSE a
  <1>1. \E x \in {a, b} : \A y \in {a, b} : x >= y
    <2>1. CASE a <= b  BY <2>1
    <2>2. CASE ~ (a <= b)  BY <2>2
    <2> QED  BY <2>1, <2>2
  <1>2. Max({a, b}) \in {a, b} /\ \A y \in {a, b} : Max({a, b}) >= y  BY <1>1 DEF Max
  <1> QED  BY <1>2

(* The types of what RecentInv speaks of. *)
LEMMA RecentFields ==
    ASSUME TypeOK, MemoryInv, NEW d \in Denoms
    PROVE  /\ supplies[d].timeElapsed \in Int /\ supplies[d].timeLimitedCurrent \in Nat
           /\ params[d].timePeriod \in Int /\ minted[d] \in [Seconds -> Nat]
           /\ blockTime \in Int /\ GenesisTime \in Int /\ GenesisTime <= blockTime /\ MaxTime \in Int
           /\ DurationLimit \in Nat /\ DurationLimit > 0
  <1>1. supplies[d] \in SupplyRecord  BY DEF TypeOK, LedgerTypeOK
  <1>2. params[d].timePeriod \in Int  BY ParamsAssumption DEF TypeOK, AssetParam
  <1> QED
    BY <1>1, <1>2, NumbersAssumption, DurationAssumption DEF SupplyRecord, MemoryInv, TypeOK, BlockTypeOK

(* A message adds to the stretch what it adds to the window. *)
LEMMA MessageRecent ==
    ASSUME TypeOK, MemoryInv, Create \/ Claim \/ Refund, Remember,
           NEW d \in Denoms, params[d].timeLimited, CountsRecent(d)
    PROVE  CountsRecent(d)'
  <1> DEFINE m == minted[d]
             n == minted'[d]
             a == Mints(d)
             c == supplies[d].timeLimitedCurrent
             e == supplies[d].timeElapsed
             first == Max({GenesisTime, blockTime - e})
  <1>1. /\ a \in Nat /\ blockTime' = blockTime /\ params' = params /\ inBlock
        /\ supplies'[d].timeElapsed = e /\ supplies'[d].timeLimitedCurrent = c + a
    BY MessageCounted, RememberedCoins DEF Counted
  <1>2. m \in [Seconds -> Nat] /\ n \in [Seconds -> Nat] /\ MintedAt(m, n, blockTime, a)
    BY <1>1, RememberedMint DEF MemoryInv, MintedAt
  <1>3. /\ c \in Nat /\ e \in Int /\ 0 <= e /\ blockTime \in Int /\ blockTime <= MaxTime
        /\ GenesisTime \in Int /\ GenesisTime <= blockTime /\ MaxTime \in Int
    BY <1>1, RecentFields DEF CountsRecent, MemoryInv
  <1>4. c <= Between(m, first, blockTime)  BY DEF CountsRecent
  <1> HIDE DEF m, n, a, c, e
  <1>5. first \in Int /\ GenesisTime <= first /\ first <= blockTime
    <2>1. blockTime - e \in Int  BY <1>3
    <2>2. first = IF GenesisTime <= blockTime - e THEN blockTime - e ELSE GenesisTime
      BY <1>3, <2>1, GreatestOfTwo
    <2> HIDE DEF first
    <2> QED  BY <1>3, <2>2
  <1> HIDE DEF first
  <1>6. Between(n, first, blockTime)
           = Between(m, first, blockTime) + (IF first <= blockTime /\ blockTime <= blockTime THEN a ELSE 0)
    BY <1>1, <1>2, <1>3, <1>5, BetweenRaised
  <1>7. Between(m, first, blockTime) \in Nat  BY <1>2, <1>3, <1>5, BetweenNat
  <1>8. c + a <= Between(n, first, blockTime)  BY <1>1, <1>3, <1>4, <1>5, <1>6, <1>7
  <1> QED  BY <1>1, <1>8 DEF CountsRecent, n, first, e

(* A window that restarts, or that has counted nothing, counts what is recent. *)
LEMMA EmptyRecent ==
    ASSUME TypeOK', MemoryInv', inBlock', NEW d \in Denoms, supplies'[d].timeLimitedCurrent = 0,
           0 <= supplies'[d].timeElapsed, supplies'[d].timeElapsed < params'[d].timePeriod
    PROVE  CountsRecent(d)'
  <1> DEFINE now == blockTime'
             e == supplies'[d].timeElapsed
             first == Max({GenesisTime, now - e})
  <1>1. /\ e \in Int /\ now \in Int /\ GenesisTime \in Int /\ minted'[d] \in [Seconds -> Nat]
        /\ now <= MaxTime
    BY NumbersAssumption DEF TypeOK, LedgerTypeOK, BlockTypeOK, SupplyRecord, MemoryInv
  <1> HIDE DEF now, e
  <1>2. first \in Int /\ GenesisTime <= first
    <2>1. now - e \in Int  BY <1>1
    <2>2. first = IF GenesisTime <= now - e THEN now - e ELSE GenesisTime
      BY <1>1, <2>1, GreatestOfTwo
    <2> HIDE DEF first
    <2> QED  BY <1>1, <2>1, <2>2
  <1> HIDE DEF first
  <1>3. Between(minted'[d], first, now) \in Nat  BY <1>1, <1>2, BetweenNat
  <1>4. 0 <= Between(minted'[d], first, now)  BY <1>3
  <1> QED  BY <1>4 DEF CountsRecent, now, e, first

(* The first block starts from the genesis file, whose windows are empty.   *)
LEMMA FirstBlockRecent ==
    ASSUME DurationsFit, WindowsFresh, TypeOK, TypeOK', MemoryInv, MemoryInv', ~ inBlock,
           NEW step \in Steps, BeginBlock(step), Remember,
           NEW d \in Denoms, params[d].listed, params[d].timeLimited
    PROVE  CountsRecent(d)'
  <1> DEFINE e == supplies[d].timeElapsed
             period == params[d].timePeriod
             now == blockTime'
             elapsed == Elapsed(now)
             sum == WrapDuration(e + elapsed)
  <1>1. /\ now = GenesisTime + step /\ step \in Nat /\ GenesisTime \in Nat /\ params' = params /\ inBlock'
        /\ prevBlockTime \in GenesisPrevTimes /\ supplies = GenesisSupplies /\ params = GenesisParams
    BY BlockMemory, NumbersAssumption DEF MemoryInv
  <1>2. /\ 0 < period /\ 0 <= e /\ e < DurationLimit /\ supplies[d].timeLimitedCurrent = 0
        /\ prevBlockTime # NoTime =>
              prevBlockTime <= GenesisTime /\ e + (GenesisTime + step - prevBlockTime) < DurationLimit
    BY <1>1 DEF DurationsFit, WindowsFresh
  <1>3. e \in Int /\ period \in Int /\ DurationLimit \in Nat /\ DurationLimit > 0  BY RecentFields
  <1> HIDE DEF e, period, now
  <1>4. elapsed \in Int /\ 0 <= elapsed /\ e + elapsed < DurationLimit
    <2>1. CASE prevBlockTime = NoTime
      <3>1. elapsed = 0  BY <2>1 DEF Elapsed
      <3> QED  BY <1>2, <1>3, <3>1
    <2>2. CASE prevBlockTime # NoTime
      <3>1. prevBlockTime \in Int /\ now \in Int  BY <1>1, <2>2 DEF TypeOK, BlockTypeOK
      <3>2. now - prevBlockTime \in Int /\ 0 <= now - prevBlockTime
            /\ e + (now - prevBlockTime) < DurationLimit
        BY <1>1, <1>2, <2>2, <3>1
      <3>3. now - prevBlockTime < DurationLimit  BY <1>2, <1>3, <3>1, <3>2
      <3>4. elapsed = SaturateDuration(now - prevBlockTime)  BY <2>2 DEF Elapsed
      <3>5. elapsed = now - prevBlockTime  BY <1>3, <3>2, <3>3, <3>4 DEF SaturateDuration
      <3> QED  BY <3>2, <3>5
    <2> QED  BY <2>1, <2>2
  <1> HIDE DEF elapsed
  <1>5. e + elapsed \in Int /\ 0 <= e + elapsed /\ -DurationLimit <= e + elapsed  BY <1>2, <1>3, <1>4
  <1>6. sum = e + elapsed  BY <1>4, <1>5, WrappedBelow
  <1> HIDE DEF sum
  <1>7. IF sum < period
          THEN /\ supplies'[d].timeElapsed = sum
               /\ supplies'[d].timeLimitedCurrent = supplies[d].timeLimitedCurrent
          ELSE supplies'[d].timeElapsed = 0 /\ supplies'[d].timeLimitedCurrent = 0
    BY BlockWindow DEF sum, e, elapsed, period, now
  <1>8. /\ supplies'[d].timeLimitedCurrent = 0
        /\ 0 <= supplies'[d].timeElapsed /\ supplies'[d].timeElapsed < period
    BY <1>2, <1>5, <1>6, <1>7
  <1> QED  BY <1>1, <1>8, EmptyRecent DEF period

(* A later block moves both ends of the window with the time, or restarts it. *)
LEMMA BlockRecent ==
    ASSUME DurationsFit, TypeOK, TypeOK', MemoryInv, MemoryInv', inBlock,
           NEW step \in Steps, BeginBlock(step), Remember,
           NEW d \in Denoms, params[d].listed, params[d].timeLimited, CountsRecent(d)
    PROVE  CountsRecent(d)'
  <1> DEFINE m == minted[d]
             c == supplies[d].timeLimitedCurrent
             e == supplies[d].timeElapsed
             period == params[d].timePeriod
             now == blockTime'
             elapsed == Elapsed(now)
             sum == WrapDuration(e + elapsed)
             first == Max({GenesisTime, blockTime - e})
  <1>1. /\ now = blockTime + step /\ now <= MaxTime /\ step \in Nat /\ params' = params /\ minted'[d] = m
        /\ inBlock' /\ prevBlockTime = blockTime /\ params = GenesisParams
        /\ \A x \in Seconds : x > blockTime => m[x] = 0
    BY BlockMemory DEF MemoryInv
  <1>2. /\ c \in Nat /\ e \in Int /\ period \in Int /\ m \in [Seconds -> Nat] /\ blockTime \in Int
        /\ GenesisTime \in Int /\ GenesisTime <= blockTime /\ DurationLimit \in Nat /\ DurationLimit > 0
    BY RecentFields
  <1>3. 0 <= e /\ e < period /\ c <= Between(m, first, blockTime)  BY DEF CountsRecent
  <1>4. 0 < period /\ period + step <= DurationLimit  BY <1>1 DEF DurationsFit
  <1>5. prevBlockTime # NoTime  BY <1>1 DEF NoTime, TypeOK, BlockTypeOK
  <1> HIDE DEF m, c, e, period, now, first
  <1>6. elapsed = step
    <2>1. elapsed = SaturateDuration(now - blockTime)  BY <1>1, <1>5 DEF Elapsed
    <2>2. now - blockTime = step /\ step < DurationLimit  BY <1>1, <1>2, <1>4
    <2> QED  BY <1>1, <1>2, <2>1, <2>2 DEF SaturateDuration
  <1>7. e + step \in Int /\ 0 <= e + step /\ -DurationLimit <= e + step /\ e + step < DurationLimit
    BY <1>1, <1>2, <1>3, <1>4
  <1>8. sum = e + step  BY <1>6, <1>7, WrappedBelow
  <1> HIDE DEF elapsed, sum
  <1>9. IF sum < period
          THEN supplies'[d].timeElapsed = sum /\ supplies'[d].timeLimitedCurrent = c
          ELSE supplies'[d].timeElapsed = 0 /\ supplies'[d].timeLimitedCurrent = 0
    BY BlockWindow DEF sum, e, c, elapsed, period, now
  <1>10. CASE sum < period
    <2>1. now - sum = blockTime - e  BY <1>1, <1>2, <1>8
    <2>2. first = Max({GenesisTime, now - sum})  BY <2>1 DEF first
    <2>3. first \in Int /\ GenesisTime <= first
      <3>1. blockTime - e \in Int  BY <1>2
      <3>2. first = IF GenesisTime <= blockTime - e THEN blockTime - e ELSE GenesisTime
        BY <1>2, <3>1, GreatestOfTwo DEF first
      <3> QED  BY <1>2, <3>1, <3>2
    <2>4. now \in Int /\ blockTime <= now  BY <1>1, <1>2
    <2>5. Between(m, first, now) = Between(m, first, blockTime)
      BY <1>1, <1>2, <2>3, <2>4, BetweenCut
    <2>6. 0 <= sum  BY <1>7, <1>8
    <2>7. c <= Between(m, first, now)  BY <1>3, <2>5
    <2> QED  BY <1>1, <1>9, <1>10, <2>2, <2>6, <2>7 DEF CountsRecent, m, now, period
  <1>11. CASE ~ (sum < period)
    <2>1. supplies'[d].timeElapsed = 0 /\ supplies'[d].timeLimitedCurrent = 0  BY <1>9, <1>11
    <2> QED  BY <1>1, <1>4, <2>1, EmptyRecent DEF period
  <1> QED  BY <1>10, <1>11

(* Every step keeps the windows recent. *)
LEMMA NextRecent ==
    ASSUME DurationsFit, WindowsFresh, TypeOK, TypeOK', MemoryInv, MemoryInv', RecentInv, [HNext]_hvars
    PROVE  RecentInv'
  <1> SUFFICES ASSUME NEW d \in Denoms, params'[d].timeLimited
               PROVE  IF inBlock' /\ params'[d].listed THEN CountsRecent(d)'
                      ELSE supplies'[d].timeLimitedCurrent = 0
    BY DEF RecentInv
  <1>1. CASE HNext
    <2>1. CASE Create \/ Claim \/ Refund
      <3>1. inBlock /\ inBlock' /\ params' = params /\ Remember /\ Counted(d)
        BY <1>1, <2>1, MessageCounted, RememberedCoins DEF HNext
      <3>2. CASE params[d].listed
        <4>1. CountsRecent(d)  BY <3>1, <3>2 DEF RecentInv
        <4> QED  BY <2>1, <3>1, <3>2, <4>1, MessageRecent
      <3>3. CASE ~ params[d].listed
        <4>1. supplies[d].timeLimitedCurrent = 0  BY <3>1, <3>3 DEF RecentInv
        <4>2. Mints(d) = 0  BY <3>1, <3>3 DEF Counted
        <4>3. supplies'[d].timeLimitedCurrent = 0  BY <3>1, <4>1, <4>2 DEF Counted
        <4> QED  BY <3>1, <3>3, <4>3
      <3> QED  BY <3>2, <3>3
    <2>2. CASE NextBlock
      <3>1. PICK step \in Steps : BeginBlock(step)  BY <2>2 DEF NextBlock
      <3>2. params' = params /\ Remember /\ inBlock'  BY <1>1, <3>1 DEF HNext, BeginBlock
      <3>3. CASE params[d].listed /\ ~ inBlock  BY <3>1, <3>2, <3>3, FirstBlockRecent
      <3>4. CASE params[d].listed /\ inBlock
        <4>1. CountsRecent(d)  BY <3>2, <3>4 DEF RecentInv
        <4> QED  BY <3>1, <3>2, <3>4, <4>1, BlockRecent
      <3>5. CASE ~ params[d].listed
        <4>1. supplies[d].timeLimitedCurrent = 0  BY <3>2, <3>5 DEF RecentInv
        <4>2. supplies'[d] = supplies[d]
          BY <3>1, <3>5 DEF BeginBlock, UpdateTimeBasedSupplyLimits, TypeOK, LedgerTypeOK
        <4> QED  BY <3>2, <3>5, <4>1, <4>2
      <3> QED  BY <3>3, <3>4, <3>5
    <2> QED  BY <1>1, <2>1, <2>2 DEF HNext, FixedNext
  <1>2. CASE UNCHANGED hvars
    <2>1. /\ inBlock' = inBlock /\ params' = params /\ supplies' = supplies /\ blockTime' = blockTime
          /\ minted' = minted
      BY <1>2 DEF hvars, vars, block
    <2> QED  BY <2>1 DEF RecentInv, CountsRecent
  <1> QED  BY <1>1, <1>2

(* What is recent is within a period of the last block. *)
LEMMA RecentWindowEnds ==
    ASSUME GenesisTime <= MaxTime, TypeOK, MemoryInv, RecentInv
    PROVE  WindowsEnd
  <1> SUFFICES ASSUME NEW d \in Denoms, params[d].timeLimited
               PROVE  supplies[d].timeLimitedCurrent
                         <= Between(minted[d], Max({GenesisTime, blockTime - params[d].timePeriod + 1}),
                                    blockTime)
    BY DEF WindowsEnd, MintedBetween, Between
  <1> DEFINE m == minted[d]
             c == supplies[d].timeLimitedCurrent
             e == supplies[d].timeElapsed
             start == blockTime - params[d].timePeriod + 1
             first == Max({GenesisTime, start})
             later == Max({GenesisTime, blockTime - e})
  <1>1. /\ c \in Nat /\ e \in Int /\ params[d].timePeriod \in Int /\ m \in [Seconds -> Nat]
        /\ blockTime \in Int /\ GenesisTime \in Int /\ GenesisTime <= blockTime /\ MaxTime \in Int
    BY RecentFields
  <1>2. start \in Int /\ blockTime - e \in Int  BY <1>1
  <1>3. /\ first = IF GenesisTime <= start THEN start ELSE GenesisTime
        /\ later = IF GenesisTime <= blockTime - e THEN blockTime - e ELSE GenesisTime
    <2> HIDE DEF start
    <2> QED  BY <1>1, <1>2, GreatestOfTwo
  <1>4. blockTime <= MaxTime  BY DEF MemoryInv
  <1>5. CASE inBlock /\ params[d].listed
    <2>1. 0 <= e /\ e < params[d].timePeriod /\ c <= Between(m, later, blockTime)
      BY <1>5 DEF RecentInv, CountsRecent
    <2>2. start <= blockTime - e  BY <1>1, <2>1
    <2> HIDE DEF m, c, e, start, first, later
    <2>3. first \in Int /\ later \in Int /\ GenesisTime <= first /\ first <= later
      BY <1>1, <1>2, <1>3, <2>2
    <2>4. Between(m, later, blockTime) <= Between(m, first, blockTime)
      BY <1>1, <1>4, <1>5, <2>3, BetweenLonger
    <2>5. Between(m, later, blockTime) \in Nat /\ Between(m, first, blockTime) \in Nat
      <3>1. GenesisTime <= later  BY <1>1, <2>3
      <3> QED  BY <1>1, <1>4, <1>5, <2>3, <3>1, BetweenNat
    <2>6. c <= Between(m, first, blockTime)  BY <1>1, <2>1, <2>4, <2>5
    <2> QED  BY <2>6 DEF m, c, first, start
  <1>6. CASE ~ (inBlock /\ params[d].listed)
    <2>1. c = 0  BY <1>6 DEF RecentInv
    <2> HIDE DEF m, c, start, first, later
    <2>2. first \in Int /\ GenesisTime <= first  BY <1>1, <1>2, <1>3
    <2>3. Between(m, first, blockTime) \in Nat  BY <1>1, <1>4, <2>2, BetweenNat
    <2>4. c <= Between(m, first, blockTime)  BY <2>1, <2>3
    <2> QED  BY <2>4 DEF m, c, first, start
  <1> QED  BY <1>5, <1>6

(* As long as durations fit in a time.Duration, the window counts nothing   *)
(* that was minted a period ago or longer (asset.go:175): what filled the   *)
(* window of an asset no longer blocks it a period later.                  *)
THEOREM WindowsEndInTime ==
    ASSUME DurationsFit, WindowsFresh, GenesisTime <= MaxTime
    PROVE  HSpec => []WindowsEnd
  <1>1. HInit => RecentInv  BY DEF HInit, Init, RecentInv, WindowsFresh
  <1>2. (TypeOK /\ IndexInv) /\ (TypeOK /\ IndexInv)' /\ MemoryInv /\ MemoryInv' /\ RecentInv
           /\ [HNext]_hvars => RecentInv'
    BY NextRecent
  <1>3. (TypeOK /\ IndexInv) /\ MemoryInv /\ RecentInv => WindowsEnd  BY RecentWindowEnds
  <1> QED  BY <1>1, <1>2, <1>3, HistoryTypes, MemoryKept, PTL DEF HSpec

===============================================================================
