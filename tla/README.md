# Specification of the bep3 module

`module/` is a Cosmos SDK module for hashed time-locked swaps between a coin of
this chain and its counterpart on another chain.  A *deputy*, one address per
asset, relays swaps: it creates the incoming ones here after a user has locked
coins over there, and receives the outgoing ones that users create here.  The
modules in this directory specify the module in TLA+, check it with TLC and
prove its main invariants with TLAPS.

## The system

| Component | State | Operations |
|---|---|---|
| Swap keeper (`keeper/swap_trx.go`, `types/swap.go`, `types/hash.go`) | `AtomicSwap` under each swap ID | create, claim, refund, expire, delete |
| Store and indexes (`keeper/keeper.go`, `types/keys.go`) | expiry index (time, ID), deletion index (height, ID), supplies, time of the previous block | insert, remove, the two range walks |
| Asset supply (`keeper/asset.go`) | per coin: incoming, outgoing, current and window supply, elapsed window time | increment and decrement of each, update of the windows |
| BeginBlocker (`abci.go`) | none of its own | permissions, windows, expiry, deletion, in that order, once per block |
| Parameters (`keeper/params.go`, `types/params.go`) | list of assets in the params subspace | reads by every handler; changed by governance proposals |
| Message server, handler (`keeper/msg_server.go`, `handler.go`, `types/msg.go`) | none | dispatch the three messages, `ValidateBasic` |
| Genesis (`genesis.go`, `types/genesis.go`) | none | validate, import, export |
| Queries and clients (`keeper/querier.go`, `keeper/grpc_query.go`, `types/querier.go`, `types/query.pb.gw.go`, `client/`) | none | turn a user's words into a request, route it, look up a record or filter the swaps and cut out a page |
| Generated encodings (`types/*.pb.go`) | the bytes being written or read | marshal, size, unmarshal each message; skip unknown fields |
| Simulation, wiring, codec | none | none |

The bank and account keepers, the governance module, Tendermint and the other
chain are outside the repository.

**How they interact.**  A block is: BeginBlocker, then any number of messages,
then the EndBlockers, among them governance's, which may replace the params.  A
message that returns an error leaves no trace, so a handler is one atomic step
whose guards are all of its error returns.  There is no concurrency inside the
module; what makes it hard is that a swap lives for many blocks while
everything its handlers check moves underneath it: the clock, the limits, the
deputy, the window, the other swaps' reservations, the supply that other claims
burn.

**What each component must get right.**

* *Swap keeper*: a swap is settled once, by a claim before its expire time or
  by a refund from then on; its terms never change; it cannot be replayed after
  it is forgotten.
* *Indexes*: exactly the open swaps are queued for expiry and exactly the
  completed ones for deletion; `UpdateExpiredAtomicSwaps` overwrites the status
  of whatever its index names, so a stale entry would reopen a paid swap.
* *Supplies*: incoming and outgoing supply are the sums of the unsettled swaps,
  the module account holds the outgoing supply, the outgoing supply never
  exceeds the current one, and the current one moves with the bank's.
* *Limits*: minted plus reserved stays within the asset's limit and within the
  limit of the running window; a reservation is enough for its claim.
* *Params*: no change strands the coins in escrow.
* *BeginBlocker*: open swaps end although nobody sends a message about them.
* *Genesis*: a chain that starts from its own export goes on where it stopped, an
  export is refused for known reasons only, and a file that was written by hand and
  accepted leaves no swap that cannot end.
* *Queries*: a client receives what its user asked for, each record once.
* *Encodings*: what is read is what was written, by any version of the reader;
  bytes of unknown origin are read to their end or refused.

`PROJECT.json` lists the hazards one by one, each at the line where it bites
and with the properties that would catch it.

## The modules

### `AssetSupply`: `keeper/asset.go`

No variables: a supply record, an asset's parameters, and for each operation of
`asset.go` a pair, what it refuses (`CanIncrementIncoming`) and the record it
stores otherwise (`IncrementIncoming`).  `UpdateWindow` is the loop body of
`UpdateTimeBasedSupplyLimits`, in the width of its integers: the time between
two blocks saturates (`time.Sub`) and its sum with the elapsed time wraps.

### `Bep3`: the swap keeper, the store, BeginBlocker, governance

| Variable | Code |
|---|---|
| `swaps` | the swap store; a swap ID is the record of what is hashed into it |
| `byTimestamp`, `longterm` | the two indexes, as sets of (key, ID) |
| `supplies`, `prevBlockTime` | the supply store, the previous block's time |
| `params` | the params subspace, an entry per coin with `listed` |
| `accounts`, `balances`, `escrow`, `bankSupply`, `maccPerms` | what the account and bank keepers hold of users and of the module account |
| `blockTime`, `height`, `inBlock` | the context of the running block |

| Action | Code |
|---|---|
| `CreateIncoming`, `CreateOutgoing` | `MsgCreateAtomicSwap.ValidateBasic`, `CreateAtomicSwapState`, one per direction |
| `ClaimIncoming`, `ClaimOutgoing` | `ClaimAtomicSwapState` |
| `RefundIncoming`, `RefundOutgoing` | `RefundAtomicSwapState` |
| `BeginBlock(step)` | the next block and `BeginBlocker`: permissions, `UpdateTimeBasedSupplyLimits`, `UpdateExpiredAtomicSwaps`, `DeleteClosedAtomicSwapsFromLongtermStorage` |
| `SetParams` | a governance proposal; runs in an EndBlocker, so the next step is a `BeginBlock` |

`FixedNext` is everything but governance, `Next` is everything.  `Init` is a
state `InitGenesis` accepts, without swaps.

A message asks for a span of minutes, which `swap_trx.go:110` multiplies in an
`int64` of nanoseconds.  `WrapDuration` is that multiplication: it wraps at
`DurationLimit`, the seconds in 2^63 nanoseconds, scaled down where a run wants
the wrap and otherwise out of reach.  (In the code a wrapped span may also have
a fraction of a second, which is dropped with the rest of the fractions.)  The
span of an outgoing swap is limited to three days; the one of an incoming swap
is only checked to be positive.

Abstractions.  Hashes are injective, so an ID is the secret's number, the
timestamp that was hashed with it, the sender and the sender's lower-cased
address on the other chain; the message carries its own timestamp, which may
differ from the hashed one, and then no secret unlocks the swap, as in the code.
A coin amount is a number.  A message has a single coin, since the handler
refuses any other number, but a swap may have several: `AtomicSwap.Validate`,
which is all that guards a genesis file, asks for a valid list and no more.  A
swap is therefore its first coin, `amount` of `denom`, which is all that claims
and refunds release from the supplies (`Amount[0]`), and `others`, which the bank
mints, burns and sends with it (`Coins`).  The first coin of a valid list is the
one with the least denom; here it may be any.  Times are whole seconds.  Bank transfers never fail but
for want of coins or of permissions.

### `Bep3History`: what the store forgets

`Bep3` with two history variables that no action reads: every (ID, timestamp)
ever opened, and how much was minted at each second.

### `HTLC`, `Bep3HTLC`: what a swap promises

`HTLC` is the abstract specification: a contract per ID that locks a payer's
coins until a deadline, redeemed before it with the secret, cancelled from it
on, and a clock.  It has no indexes, supplies, limits, statuses or blocks.
`Bep3HTLC` maps `Bep3` onto it: an open swap and an expired one are both locked
contracts, a completed one is settled, a deleted one is no contract.  The payer
of an incoming swap and the payee of an outgoing one are `Abroad`, the far side
of a mint or a burn.  That an expired swap cannot be claimed and an open one not
refunded is a matter of status in the code and of the clock in `HTLC`; the
refinement says that they agree.

### `Bep3Genesis`: `genesis.go`, `types/genesis.go`

A genesis file is a record `[params, swaps, supplies, prevBlockTime]`.
`CanImport` is everything that `Validate` and `InitGenesis` refuse or panic on,
`ImportedSwaps` and its neighbours what they write, `ExportGenesis` what they
read.  `Reserved` adds up all the coins of the unsettled swaps, as `genesis.go:52`
does, while only the first has to be of a live asset (`genesis.go:37`).
`ImportInit` starts the chain from a file.  `RestartNext` is `Next`, governance
included, or `Restart`, which stops the chain after any block, exports, and
imports again `downtime` seconds later at height 0 or at the height it had, if
`CanImport` allows it.  A second restart before the next block would import the
same state again.  The lists of a file are sets, so two identical entries are
one; two entries with one key are told apart and refused as in the code.  The
bank's genesis is the bank's: that the module account starts with what outgoing
swaps have in escrow, and that the bank's total counts it, is assumed, no code
checks it.

### `SwapQuery`: the queries

From the words a user types to the records received: which words the clients
know (`StatusWords`, `DirectionWords`), the request they become, the RPC it
reaches, what the server answers, and a client that turns pages until one is
empty.  `CliAsk`, `RestAsk`, `GatewayAsk` and `StubAsk` are the four ways in.
The gateway's request is built from the fields the RPC it reached has
(`GatewayRequest`), after `Routed` has picked the first registered handler whose
pattern matches, as the mux of grpc-gateway 1.16 does.  A request for a swap that
has no ID, which only the gateway makes, panics in the store's prefix and is
answered with an error (`Fail`); an ID that is not there is `notFound`.  The store is fixed
meanwhile, since a query can be pinned to a height.  `Paginate` is the SDK's.

### `Protobuf`, `Unmarshalling`, `SwapMessages`, `GenesisMessages`, `QueryMessages`, `MessageTransfer`: the generated encodings

`Protobuf` has the helpers that every `*.pb.go` file repeats: varints, tags, the
size of a field, `skip`, and one pass of Unmarshal's loop (`ReadField`).  A field
that holds a message is read by that message's own Unmarshal, a constant operator
there; `Unmarshalling` defines it as the same loop over the embedded bytes, which
is the value that the run `wire` gives it.  The three message modules say of each of the 28 messages what its
`MarshalToSizedBuffer` writes, with the tag bytes of the code, what its `Size`
counts, and the cases of its `Unmarshal`; the three are generated apart, and the
module keeps them apart.  Unmarshal is one interpreter of those cases, since
every generated one is the same loop.  `MessageTransfer` writes a message,
carries it (a newer writer may add a field, the bytes may be cut short or
altered), and reads it pass by pass.  Coins, `sdk.Int` and timestamps have
encodings of their own in other repositories, modelled from what is called here.

### `MCBep3`, `MCBep3History`, `MCBep3HTLC`, `MCBep3Genesis`, `MCSwapQuery`, `MCMessageTransfer`

Values for the constants.  A minute is one second, the accepted timestamps are
those from 1 second ago to 1 second ahead and completed swaps are stored for a
few blocks, so that creation, claim, expiry, refund, deletion and re-creation
all happen within the bounds.

## The runs

| Run | Question | Answer |
|---|---|---|
| `core` | One asset, fixed params, all invariants and action properties; does every open swap end, if blocks keep coming? | holds; yes |
| `governance` | The same while governance lowers, pauses, hands over, unwindows, delists and restores the asset; is it an implementation of `HTLC`? | holds; yes |
| `two_assets` | Two assets, each deputy a user of the other's, from an empty store; do outgoing swaps end in time, even with spans that wrap? | holds; yes |
| `history` | Can an ID be opened twice with one timestamp? How much can be minted in a time period, with irregular blocks and a clock of few bits? Do windows end? | no; at most twice the window's limit; yes |
| `genesis` | Does every accepted file, with one or two coins to a swap, and every accepted export give a chain whose indexes, supplies, escrow and refunds are right, under governance? For what reasons is an export refused? | yes; for those `ExportAccepted` names |
| `query` | Is every question answered, whoever asks it? | yes, but for `doc_gateway` |
| `wire` | Is every message read as it was written, by a reader of any version? Does a reader stay within the bytes it is given? | yes |
| `doc_issuance` | Does a secret revealed in time always get the coins? | no |
| `doc_reimport` | Can every export be imported? | no |
| `doc_genesis_incoming` | Do an accepted file's supplies match its swaps? | no |
| `doc_span` | Is every swap claimable only before its expire time? | no |
| `doc_gateway` | Does the gateway list swaps at the endpoint documented for it? | no |

The last five are disagreements between the repository and itself:

* `doc_issuance`: `01_concepts.md` promises the coins "if their secret is
  revealed before the deadline"; the claim checks the limits again, with the
  params then in force, and refuses after governance lowered one or delisted the
  asset.  The swap can then only be refunded.
* `doc_reimport`: `ExportGenesis` "writes the current store values to a genesis
  file, which can be imported again"; `AtomicSwap.Validate` refuses a timestamp
  more than a day behind the importing node's clock, while completed swaps are
  stored for a week.  The run scales the day to 2 seconds and the storage
  duration to 4 blocks.  It is not the only reason: an export is also refused
  after a pause or a delisting of an asset that swaps are stored of, even completed
  ones, after a limit was lowered below what circulates, after a swap of several
  coins from a file was settled, and for a blank address abroad.
  `ExportAccepted` says that there are no others.
* `doc_genesis_incoming`: the comment in `InitGenesis` says the supplies must
  match the swaps; only the assets that have a supply record are compared.
* `doc_span`: "either claimed before their expiration block or refunded after";
  an incoming swap whose span wraps is stored with an expire time that has
  passed, and its claim succeeds in the block that creates it.  The deputy's own
  choice of span does this to the deputy's own swap.
* `doc_gateway`: `query.proto` and `proto-docs.md` give `Swap` and `Swaps` the same
  endpoint, and the generated patterns are equal.  The handler of `Swap` is
  registered first and fails for want of an ID; its mux would have to
  prefer the last handler for `Swaps` to answer, and then `Swap` would not.

Read while modelling and not worth a run: `06_begin_block.md` says that a swap
expires when its timestamp is *greater* than the block's (the code: at or before
it, `keeper.go:141`) and that swaps are deleted after 86400 blocks (604800 in
`types/keys.go`); `02_state.md` says the outgoing supply cannot exceed the
current one, which holds for every message (`OutgoingCovered`) but is not among
the checks of `InitGenesis`.  A page of 0, the zero value of a request that
leaves it out, lists nothing (`Paginate`), while a request without params lists
everything.  `MsgCreateAtomicSwap.ValidateBasic` accepts a blank `SenderOtherChain`,
which `AtomicSwap.Validate` refuses at an import (`ValidSwap`; with `""` added to
`Chains` of `doc_reimport` such a swap is one more way to violate `ExportImportable`).

The properties:

* `IndexesMatchStatus`, `OpenSwapsNotDue`, `CompletedSwapsNotOverdue`: the
  indexes hold exactly what they should and BeginBlocker leaves nothing due.
  The second is what lets a claim look at the status alone.
* `SuppliesMatchSwaps`, `EscrowBacksOutgoing`, `OutgoingWithinCurrent`,
  `CurrentTracksBank`: the ledger.
* `WithinLimits`, `ReservationsHold`, `MintsWithinLimits`: the limits.  The
  first two hold while the params stay as they are and fail once governance
  lowers a limit, by design of the code; the third always holds.
* `EscrowedCoinsCanLeave`: whatever governance does, an expired swap can be
  refunded and an open outgoing one claimed.
* `SwapLifecycle`, `PaymentsSettleSwaps`: what a step may do to a swap and to a
  user's coins.
* `OpenSwapsEnd`: the liveness property.
* `OutgoingSwapsNotDue`: `OpenSwapsNotDue` for the swaps users fund, which holds
  whatever the spans.
* `ImplementsHTLC`: the refinement.
* `ExportAccepted`: the export of any block passes every check of `InitGenesis`, or
  one of the reasons above applies.  `ExportImportable` says that none ever does,
  which is what `genesis.go:111` promises and `doc_reimport` refutes.
* `RestartKeepsStore`: an import of an export loses nothing; the indexes, which a
  file does not have, are rebuilt as they were.
* `SuppliesCoverSwaps`, `EscrowHoldsSwaps`: of an imported chain, the supplies are at
  least the first coins of the unsettled swaps, and exactly that for the coins that
  are nobody's second (`FurtherDenoms`); escrow is all the coins of the outgoing
  ones.  The stronger `SuppliesMatchSwaps` and `EscrowBacksOutgoing` hold of chains
  that were not started from a file with swaps, and fail for a file with a swap of
  two coins: its import counts both, its settlement releases one.
* `UnsettledSwapsRefundable`: an accepted file backs every swap it lists, with all
  its coins.
* `PagesAnswerQuestion`: what a client has received in the end is every record
  that matches what was typed, in store order, each once.
* `MessagesArrive`, `ReaderAdvances`: what is read is what was written; and
  every pass of a reader moves forward within the bytes or fails.  The `TypeOK` of
  `wire` says that a reader that has not failed stands within its buffer, which the
  checks of overflow and of length in the generated code are for.
* `OpenedOnce`: the run sets `StorageDuration` to 3 blocks, at least a second
  apart, against accepted timestamps of 3 seconds, the smallest value for which
  it holds.  In the code it is 604800 blocks against 45 minutes, so it holds as
  long as blocks are on average more than 4.5 milliseconds apart.
* `MintRateBounded`: a window restarts at the first block past its end, so a
  stretch of one period can see two windows; never three.
* `WindowsEnd`: what a window counts against its limit was minted less than a
  period ago; a sum of times that wrapped would keep a window open.

**Bounds.**  `CreateUntil` stops creations so that the swaps made can still
expire, be refunded and be deleted; `MaxTime` and `MaxHeight` end the run, which
is why deadlock is not checked.  Two secrets' timestamps, two senders and two
amounts give four swap IDs, enough for swaps of both directions to compete for
one limit, for an ID to be used again after its deletion, and for a swap whose
message timestamp differs from the hashed one.  Steps of 1 and 2 seconds against a
window of 2 and spans of 1 and 2 hit and overshoot every boundary.  Two coins in
circulation did not come over a swap, so users can hold more than the current
supply.  `history` leaves out outgoing swaps (its only amount is the minimum,
which an outgoing swap must exceed): they mint nothing, and are opened behind
the same two guards.  In `two_assets` and `doc_span` a duration wraps at 4 seconds, so
that a span of 5 becomes 3 seconds in the past.  In `history` it wraps at 5, the
smallest value at which the periods and the steps of the clock of that run fit;
with 4, a step on top of an elapsed time wraps and `WindowsEnd` fails, as it would
in the code for a period within one block of 292 years.  `genesis`
starts from every file with at most two swaps of gold, of either direction, any
status and two amounts, unsettled ones also with an ounce of silver, and a supply
record of gold with every incoming and outgoing supply up to 4, alone or with one
of silver.  Governance pauses gold, delists it and lowers its limits, in any order
and back; silver is listed and paused throughout, so that only files have it.  A day
is 3 seconds of a run that lasts to second 5, so that some exports are too old.  `query` has stores of up to three swaps and pages of 1, 2 and
the default number, here 2, and questions for records that are and are not there.
`wire` scales a word to 15 bits, which like 64 is a whole number of groups of 7
and one bit more, and a field number to 10; its messages are empty, filled, and
at every length and sign at which the encoding changes shape, and a message of
up to 12 bytes is altered in any byte or cut at any place.

**Fairness.**  `FairSpec` assumes weak fairness of `NextBlock` alone: Tendermint
keeps producing blocks with growing times.  Nothing makes a user or a deputy
send a message, so no fairness of claims or refunds is assumed, and accordingly
an expired swap need never be refunded.

## The proofs

| Module | Proves about |
|---|---|
| `FiniteSums` | sums over finite sets of swaps, users, seconds and digits; smallest sets and numbers |
| `Bep3Proofs` | the operations of `asset.go`; `Bep3`: types, ledger, indexes, deadlines, limits, life cycle |
| `Bep3LedgerProofs` | `Bep3`: the sums over swaps and over users |
| `Bep3HTLCProofs` | the refinement of `HTLC` |
| `Bep3HistoryProofs` | `Bep3History`: replays, the mint rate, the windows |
| `Bep3GenesisProofs` | `Bep3Genesis`: imports, exports, restarts |
| `SwapQueryProofs` | `SwapQuery`: filters, pages, the gateway's routes |
| `EncodingProofs` | `Protobuf`, `MessageTransfer`: readers, varints, fields, sizes, the messages of a swap |

The theorems hold for every set of coins, users, secrets, timestamps and amounts,
every genesis state that meets `GenesisAssumption` and every set of params that
governance may choose and the validation accepts; those about the encodings for
words of every width that `WidthAssumption` allows, 64 bits and the 15 of the run
among them, and values and buffers of every length.

| Theorem | Statement |
|---|---|
| `TypeCorrect` | `Spec => []TypeOK` |
| `EscrowBacked`, `OutgoingCovered`, `CurrentTracked` | the three ledger invariants of `Spec` |
| `SuppliesMatched` | `Spec => []SuppliesMatchSwaps` |
| `CoinsCanLeave` | `Spec => []EscrowedCoinsCanLeave`, if the users are finitely many and the bank counts their coins |
| `PaymentsSettled` | `Spec => PaymentsSettleSwaps` |
| `IndexesMatch`, `CompletedDeleted` | the two index invariants of `Spec` |
| `ClaimsBeforeExpiry` | `Spec => []OpenSwapsNotDue`, if the spans fit (`SpansFit`) |
| `OutgoingClaimsBeforeExpiry` | `Spec => []OutgoingSwapsNotDue`, without that assumption |
| `LimitsHold`, `ReservationsKept` | `FixedSpec => []WithinLimits`, `FixedSpec => []ReservationsHold`, if `GenesisWithinWindow` |
| `LifecycleKept` | `Spec => SwapLifecycle` |
| `MintsLimited` | `Spec => MintsWithinLimits` |
| `SwapsAreContracts` | `Spec => ImplementsHTLC`, if the spans fit |
| `NeverReopened` | `HSpec => OpenedOnce`, if `StorageOutlastsWindow` |
| `MintRateLimited` | `HSpec => []MintRateBounded`, if `GenesisWithinWindow` |
| `WindowsEndInTime` | `HSpec => []WindowsEnd`, if `DurationsFit` and `WindowsFresh` |
| `ImportedIndexes`, `RestartsKeepStore`, `ImportedLifecycle` | `IndexesMatchStatus`, `RestartKeepsStore` and `SwapLifecycle` of `ImportSpec`, if `FilesWellFormed` |
| `ImportedEscrowHeld` | `ImportSpec => []EscrowHoldsSwaps`, if `FilesWellFormed` |
| `ImportedSuppliesCover`, `UnsettledRefundable` | `SuppliesCoverSwaps` and `UnsettledSwapsRefundable` of `ImportSpec`, if also `FilesCoverSwaps` |
| `ExportsAccepted` | `ImportSpec => []ExportAccepted`, under the same |
| `ExportsImportable` | `ImportSpec => []ExportImportable`, if also `FilesOfOneCoin`, `NoGovernance`, `SpansFit`, `WithinADay` and no address is blank |
| `QuestionsAnswered` (`SwapQueryProofs`) | `Spec => []PagesAnswerQuestion` |
| `ReadersStayInside`, `ReadersAdvance` (`EncodingProofs`, as all that follow) | `TypeOK` and `ReaderAdvances` of `MessageTransfer`'s `Spec`, if `[]IsSlice` |
| `VarintsArrive`, `ValuesArrive` | a varint, and bytes behind their length, are read to their last byte, as they were written, among whatever other bytes |
| `UnknownFieldsSkipped` | a field of a newer writer, of any wire type but a group, is skipped and changes nothing |
| `FieldsArrive` | one pass of the loop over a field that was written puts its value into the message |
| `FieldsSized` | `Size` of a field counts the bytes of the field |
| `SwapsFillBuffers`, `TransactionsFillBuffers` | a swap of one coin, and the messages of the three transactions, fill their buffers exactly |
| `FieldByField` | a message of any number of fields that arrive is read to its end, and is what it was |
| `SwapsArrive` | for a swap of one coin or a transaction's message: `Spec => [](~ extended => MessagesArrive)`, if `[]IsSlice` and `UnmarshalLoops` |

The arguments:

* *Types.*  `TypeOK` is inductive: a subtraction is always behind the guard that
  keeps it from going below zero.
* *Ledger.*  `LedgerInv` is the conjunction of the three invariants and is
  inductive together with `TypeOK`: escrow and outgoing supply move together,
  the guard of an outgoing creation keeps the sum within the current supply, and
  a claim lowers outgoing and current supply by the same amount.
* *Indexes.*  `IndexInv` conjoins `IndexesMatchStatus` and `DeletionsAhead`, that
  the height at which a completed swap is deleted is still to come: what
  BeginBlocker finds due depends on the indexes matching the statuses
  (`DueSets`), and that nothing is left overdue depends on what it finds.  It
  holds of imported chains as well, where a swap may have been closed at a height
  the new chain has not reached; that it was not is `ClosedInPast`, which
  `CompletedSwapsNotOverdue` needs and a chain that was never imported has.
* *Sums.*  `SumFunctionOnSet` is a recursive function on sets, and the library's
  induction over finite sets takes an operator, which the provers cannot
  instantiate.  `FiniteSums` uses well-foundedness instead: among the sets for
  which a fact fails there is a smallest (`SmallestSet`), which the fact's
  recursion refutes.  From that follow that the function exists, that a sum does
  not depend on the order, what adding, removing or changing one element does to
  it, and that a sum of less is less.
* *Supplies.*  `SumInv` conjoins `SuppliesMatchSwaps` with `FiniteStore`, since
  sums over infinitely many swaps say nothing, and with `AbsentReservesNothing`,
  since a supply record that is not there is created when the first swap
  reserves.  A creation adds one element to one sum, a claim or refund takes one
  out, an expiry changes a status that both sums count.
* *Coins.*  That a refund finds its coins is `SumInv` (an unsettled swap's amount
  is at most the sum, which is the outgoing supply) and `EscrowBacksOutgoing`.
  That the burn of a claim finds its coins in the bank's supply takes one more
  invariant, `CoinsAccounted`: the bank's supply, less escrow and what users
  hold, is what it was in the genesis state.
* *Deadlines.*  `DeadlineInv` says that no open swap of a direction is due while
  messages run.  A new swap is ahead of the clock when its span fits a duration,
  which the three days of an outgoing swap do; a later block expires whatever it
  passes, because the index has it.
* *Contracts.*  One more invariant, `ExpiredSwapsDue`: an expired swap's time has
  come.  With it and the deadlines, a creation is a `Lock`, a claim a `Redeem`, a
  refund a `Cancel`, a block a `Tick` that forgets the swaps it deletes, and a
  change of params leaves the contracts as they are.
* *Limits.*  `WithinLimits` speaks of the records the store has; `LimitInv` also
  covers those it does not have yet, and is inductive for `FixedNext`: creation
  checks current plus reserved, a claim turns reserved into current, everything
  else lowers the sum.  A swap's amount is part of what is reserved (`SumInv`), so
  its claim finds room, if its asset is still live: `SwapsOfLiveAssets`.
* *Life cycle.*  From the types and `IndexInv`: that a completed swap leaves in
  exactly one block needs both that BeginBlocker finds it and that it was not
  overdue before.
* *Payments.*  A step settles or opens at most one swap, so both sums of
  `PaymentsSettleSwaps` have at most one element (`SettledOwes`, `OpenedOwes`).
* *Replays.*  `OpenedInv`: a timestamp that was used under an ID is too old to be
  accepted, or it is that of the swap stored there, and if that swap is completed,
  as many seconds have passed since as blocks (`TimestampSpent`).  So it is too
  old when the swap is deleted.
* *Rate.*  `MemoryInv` relates the memory to the clock.  `WindowInv` says that
  the running window began at some second after which everything minted is
  counted in it, and from a period before which at most one more limit was minted
  (`RunsSince`).  A window that ends hands its count to that second part, and a
  wrapped elapsed time only keeps it running longer.  A stretch of one period
  that reaches the present begins in one part or the other.
* *Windows.*  `RecentInv`: the elapsed time is within the period, and what the
  window counts is at most what was minted in it.  Here a wrap would matter.
* *Restarts.*  `ImportedInv` conjoins `TypeOK`, `IndexInv`, and that a supply that is
  not there is the zero record.  An export has one entry per key, so each entry is
  found again under its key and indexed by its status, and a restart changes
  nothing in the store, whatever the params have become.
* *Escrow after an import.*  `EscrowInv`: escrow is the sum of all the coins of the
  unsettled outgoing swaps.  `InitGenesis` and the bank agree on it at the start;
  a creation puts in one coin, a settlement takes out all the swap has.
* *Supplies after an import.*  `CoversSwaps`: the supplies exceed the first coins of
  the swaps by a fixed amount per coin and direction (`SumsBeside`), which
  `Bep3LedgerProofs` shows that no step changes: of a chain without a file it is 0
  (`SuppliesMatched`), of an imported one it is what the file had of further coins,
  and 0 where it had none.  It exists because `InitGenesis` computes the sums for
  each record, provided there is a record for the first coin of each swap.  What a
  refund needs is less than the supply by this and less than the escrow by
  `EscrowInv`.
* *Exports.*  `CoinsInv` says that no step gives a swap further coins, and
  `ClosedInBlocks` that closing heights are positive.  With them and `CoversSwaps`
  every check of `CanImport` passes (`ExportPasses`) but those that the
  hypotheses of `ExportAccepted` are about.  `FixedInv` (assets live, supplies
  within limits) and `RunInv` (expire times, the age) have those hypotheses where
  governance does not act.
* *Queries.*  The loop of `filterAtomicSwaps` is a recursive function; that it has
  one result, which lists the places that match in order and each once
  (`MatchingLists`), is shown with a smallest number for which it fails.
  `ReaderInv` says that a reader has the first `(page - 1) * size` of them
  (`Begins`), so the page it reads goes on there, and is empty only when it has
  all.  That what matches is what the user's words stand for (`FiltersAsAsked`)
  needs the words that were refused.
* *Readers.*  A pass of the loop ends past where it began or fails: a varint has at
  least one byte, a length that is negative or whose end overflows is refused,
  and `skip` moves with every tag (`SkipOneMoves`), however deep the groups.  The
  powers of two and the loop of `skip` are recursive functions; that they exist is
  shown by the smallest number for which they would not.  Nothing is assumed of
  the readers of embedded messages, since the outer loop goes on behind a field
  whatever they return.
* *Varints and fields.*  The groups of seven bits of a number add up to it, and
  the only byte without the mark is the last, so the reader finds the same groups.
  A negative number is read back because Unmarshal takes a word for an int as
  Marshal took the int for a word.  Sizes add up field by field.
* *Messages.*  `FieldByField` goes over the bytes up to each field: the loop
  reaches the end of field `k` with a message that has the first `k` values and
  is new otherwise, because a field that is not written has the value of a new
  message.  `Reads` says this without recursion: where a pass leads is in every set
  that has the start and is closed under passes.  `ArrivalInv` is `ReaderInv` and that,
  from where the reader stands, the loop still reaches the end with the message
  that was sent.  `MessagesArrive` alone says nothing of a reader on its way.

What the theorems assume, and why:

* `GenesisWithinWindow`, that the genesis window is within its limit, and
  `WindowsFresh`, that it counts nothing yet: `InitGenesis` checks neither.  An
  empty genesis file has both.
* `BankCountsBalances` and finitely many users: the supply of a coin in the genesis
  of the bank module counts the coins of its accounts, an invariant of that module.
* `StorageOutlastsWindow`: blocks are at least a second apart and as many of them
  as a swap is stored outlast the time a timestamp is accepted.  In the code
  604800 blocks against 45 minutes; times of blocks are whole seconds here, and
  blocks 4.5 milliseconds apart would do.
* `DurationsFit`: a period and the time between two blocks fit together in the
  292 years of a `time.Duration`.
* `SpansFit`: what deputies ask for; `doc_span` shows what happens without it.
* `QueryAssumption`, `SuppliesHaveKeys` (of `SwapQuery`): questions have the fields
  their RPC asks for, and a store has one supply for each denom.
* `WidthAssumption` (of `Protobuf`): an int32 is wider than a byte and a word wider
  than an int32, as in the code (8, 32, 64) and in the run (8, 10, 15).
* `[]IsSlice`: a buffer is bytes, as many as an int can count, as every slice in Go
  is.  The run `wire` checks it as the first conjunct of its `TypeOK`.
* `UnmarshalLoops`: where the loop reads the bytes of an embedded message to the end,
  its Unmarshal returns what it reached.  `Unmarshalling` defines it as that loop; it
  speaks of all byte sequences, so TLC cannot evaluate it.  `SwapsArrive` uses it for
  the coin of a swap.
* `Sends`, of `SwapsArrive`: what a chain without a file stores and the transactions
  carry.  One coin, since `CreateAtomicSwapState` (`swap_trx.go:32`) accepts no other
  number (the list of several that a file may bring is left to the run `wire`), with an
  amount that has digits; strings that an int can count; any int64; a status and a direction of
  one byte, as their Go type is.
* `FilesWellFormed`: a file is what unmarshalling returns, a finite list of typed
  entries whose params the validation accepts.  The swaps may have any coins,
  statuses, times and addresses, the supplies any amounts.
* `FilesCoverSwaps`: a file has a supply for the first coin of each unsettled swap.
  `doc_genesis_incoming` shows a file without, which `InitGenesis` accepts.  A
  message that reserves creates the record first.
* `FilesOfOneCoin`, `NoGovernance`, `WithinADay`, `SpansFit` and no blank addresses, of
  `ExportsImportable` alone: each rules out some of the reasons for which an export
  is refused (`ExportAccepted`).  A chain in use meets none of them for long:
  its params change and its completed swaps age.  The theorem is what remains of the
  promise of `genesis.go:111`; `ExportsAccepted`, which needs none of them, is the
  general statement.

The instances of the runs `core`, `history` and `genesis` meet the assumptions
of the theorems about their specifications, but for those of `ExportsImportable`
alone: what it rules out is what the run `genesis` is about.

Only model-checked: `OpenSwapsEnd`, because liveness under fairness needs ENABLED;
`MessagesArrive` for the other message types (the responses, the queries, the
genesis state, lists of more than one element) and for messages to which a newer
writer added a field, groups included, of which the theorems have the single
field (`FieldsArrive`, `UnknownFieldsSkipped`) but not the whole message; and the five
disagreements, which are counterexamples.

## Not modelled

Events; address syntax and lengths, and those checks of `ValidateBasic` and of
the params that are about them; the commands that build messages; the query of
the params, which returns the one record there is; a swap's `CrossChain`, which
nothing reads outside the encodings, and its `RecipientOtherChain`, whose one use
is that it must not be blank: a message (`msg.go:102`) and an import
(`swap.go:95`) both refuse it, so a stored one never is; fractions of a second; the byte order of times past the year 9999,
which is beyond the 292 years a swap can reach; other modules' transfers of the
coins; accounts of senders, which exist because they sign; module accounts as
deputies, which would make outgoing swaps impossible; descriptors, getters and
registration in the generated code.

The simulation (`simmodule.go`) is not modelled because it has no behaviour on
this module: its random genesis takes the swap time span from the supply limit,
10^8 or more, and `validateAssetParams` (`types/params.go:186`) refuses more than
4320.

## Plan

Done: `AssetSupply`, `Bep3`, `Bep3History`, `Bep3Genesis` and `SwapQuery` with
proofs of their safety properties; `HTLC` with the refinement checked and proved;
the wrap of spans and of the elapsed time; the encodings, with proofs about
readers, fields, sizes and the messages of a swap.  Next, in order:

1. `ValidateBasic` of the three messages and the validation of params in full.
2. `MessagesArrive` as a theorem for the other message types and for fields that a
   newer writer added: the fields of nested messages, skipped groups, and the loop
   over a message with a field behind it.  `FieldByField` is stated for any message
   type and carries over.
