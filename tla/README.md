# TLA+ verification of the Novaswap contracts

This directory models the CosmWasm contracts of the repository: a factory that
creates StableSwap pairs, the pair itself with its amplification ramp, its
arithmetic and its price oracle, and the registry that clients page through. TLC
checks the modules on small instances, TLAPS checks the theorems in the
`*_proofs` modules for every value of the constants. `PROJECT.json` lists the
runs, the theorems, the source lines of each definition, the hazards that the
properties are for, and for each property a mistake in the code that would
break it.

## 1. The system

| Component | State | Operations | Interacts with |
|---|---|---|---|
| Pair (`contracts/pair/src/contract.rs`) | `Config`: assets, LP token, factory, oracle fields, ramp fields | instantiate, reply, ProvideLiquidity, Swap, Receive (Swap, WithdrawLiquidity), UpdateConfig, queries, migrate | asset ledgers (bank, cw20), LP token (mint, burn), factory (owner) |
| Amplification ramp (`utils.rs`, `math.rs` constants) | `init_amp`, `init_amp_time`, `next_amp`, `next_amp_time` | StartChangingAmp, StopChangingAmp, evaluation at block time | every price of the pair |
| Stable-swap arithmetic (`math.rs`, `utils.rs`) | none | invariant D, new balance, forward and reverse quote, spread test, shares | pair handlers and queries |
| Price oracle (`utils.rs`) | `block_time_last`, two wrapping accumulators | `accumulate_prices` in each handler, query | external readers of time-weighted prices |
| Factory (`contracts/factory`) | `Config`, `PAIR_CONFIGS`, `PAIRS`, `TMP_PAIR_INFO` | instantiate, UpdateConfig, UpdateOwner, UpdatePairConfig, CreatePair, reply, queries, migrate | instantiates pairs, learns their address by reply |
| LP token (`contracts/token`) | that of cw20-base | a wrapper that forwards to cw20-base | minted and burnt by the pair |
| Package `novaswap` | none | asset names, balance and precision queries, message types | all contracts |
| Curve simulator (`curve_simulator/curve.py`) | a pool and its LP tokens | `D`, `y`, `dy`, `exchange`, imbalanced and one-sided withdrawal | the reference of the pair's unit tests |

Outside these: TypeScript deployment scripts, generated JSON schemas, test doubles.

The chain runs one transaction at a time and rolls a failed one back completely.
Concurrency is therefore the order of transactions inside a block, the steps of
nested messages inside one transaction, and the time between a quote and its
execution. The hard parts are these:

* integer arithmetic: Newton iterations that may cycle, roundings that favour one
  side, products that leave 128 or 256 bits;
* order inside a block: the oracle must record the reserves of before a block's
  own trades, and a native deposit is in the queried balance before the handler
  runs while a cw20 deposit is not;
* chained configuration calls: ramps started inside ramps, stopped, restarted;
* nested instantiation with replies, one shared temporary slot, failures at any
  step;
* the messages of a call: coins and tokens move before the handler runs, the pair's own
  messages move after it, and any ledger may refuse;
* reading a growing registry page by page.

What makes each part correct:

* ramp: legal at every instant, no jumps, towards the target, completes, and no
  chain of calls beats the rate limit of one;
* arithmetic: D between the constant-product and the constant-sum value, nearly
  symmetric in evenly filled pools, and with both quotes at most a unit short of the exact
  curve; larger sales return no less; a reverse quote names the offer to the unit; a round
  trip loses;
* pair: shares are backed, withdrawals take no more than their share and a provider can
  always make one, deposits do not dilute, a swap pays what the simulation said, respects the spread and leaves the
  pool on the curve it was on;
* oracle: a block's trades do not show in its own price;
* factory: creation is atomic, one pair per two assets, nothing registered is lost
  or replaced;
* listing: complete and without repeats, and it ends;
* a reader of the oracle: the difference of two readings is a time-weighted average;
* a transaction: all of a call or nothing of it, whatever the caller claims;
* the contracts' arithmetic: close to the Python reference it was tuned against.

## 2. Modules

| Module | Models |
|---|---|
| `StableParameters` | constants of `math.rs` |
| `AmpRamp` | the ramp fields, start, stop, time |
| `AmpPath` | what the ramp promises, without ramps: a bounded, rate-limited path |
| `AmpHistory` | `AmpRamp` with the history of the amplification, as an implementation of `AmpPath` |
| `StableMath` | the functions of `math.rs` and `utils.rs`, with widths and roundings |
| `StableMathCases` | every small pool, amount and amplification as a state, for the properties of `StableMath` |
| `Pair` | the pair with its accounts and ledgers; extends `AmpRamp` and `StableMath` |
| `PairCalls` | `Pair` with a count of the calls, the bound that the next two share |
| `PairHistory` | `Pair` with the memory of how the block began |
| `PriceReader` | `Pair` with a client of `query_cumulative_prices`, and a pair that has been in use for long |
| `PairTx` | the calls of the pair message by message, with untrusted callers and failures; implements `Pair` |
| `Factory` | the factory, one action per successful transaction (abstract for `CreatePair`) |
| `FactoryTx` | `CreatePair` message by message, with failures; implements `Factory` |
| `PairListing` | the `Pairs` query and a paging client; extends `Factory` |
| `Curve` | the class `Curve` of the Python simulator |
| `CurveLockstep` | the pair's arithmetic and the simulator on the same sales |
| `MC*` | values of the constants for TLC |
| `AmpRamp_proofs`, `AmpHistory_proofs` | theorems about the ramp and its history |
| `StableMath_proofs` | lemmas about the checked operations, Newton's method, D, the solved balance |
| `StableMathCases_proofs` | theorems about D and the reverse quote |
| `Pair_proofs`, `PairTx_proofs` | theorems about the pair, atomic and message by message |
| `PriceOracle_proofs` | theorems about `PairHistory` and `PriceReader` |
| `Factory_proofs` | theorems about the registry, the listing and the transactions of the factory |

Conventions:

* An action is a transaction with every message it returns. The guards are the
  handler's tests and the failures of the messages (a ledger refuses a zero or
  uncovered transfer). A failed transaction changes nothing and is no step;
  only `FactoryTx` and `PairTx`, which look inside a transaction, have a `Fail` action.
* `None` is any failed computation: a Rust `None`, an error or a panic. All abort
  the transaction (`overflow-checks = true`, `panic = 'abort'`).
* `Decimal` is an integer in units of `1 / DECIMAL_ONE`, an amplification one in
  units of `1 / AMP_PRECISION`, as in the code.
* A definition marked *slip* is not part of the model. It is a definition with a
  plausible mistake, kept beside the right one to show that the properties notice.

### Correspondence

`Pair`: `reserve` is what `query_pools` returns, `lp` and `total_supply` are the
LP token's balances and supply, `block_time_last` and `price_cumulative_last` are
the oracle fields of `Config`. `ProvideLiquidity`, `Swap`, `WithdrawLiquidity` and
`UpdateConfig` are the handlers of the same name; native coins and cw20 tokens
differ as in the code (`IsNative`). `Donate` is a plain transfer to the pair,
which no handler sees; `TransferLp` and `BurnLp` are what the LP token lets its
holders do. The receiver of an LP token or a payout is any account. `Simulation` is
`query_simulation`. The tests on the sender of a cw20 message are not guards here: that
they suffice is what `PairTx` is for.

`PairTx`: the variables of `Pair` are the state as the running transaction sees it,
`tx` is the call under way and later its messages, `saved` what a rollback restores,
`escrow` the LP tokens that the pair itself holds between their Send and their Burn.
A caller may name any two of three assets (one is `Foreign`), in any order, with the coins
it states, with none or with more; send a cw20 token or LP tokens with the wrong hook;
and call `Receive` itself. `Sent` is `assert_sent_native_token_balance`. The handlers
compute on queried balances, into which the bank has already put the coins, and end with
`Returns`; the `Dispatch` actions are the ledgers. `Committed` is what the rest of the
world sees, and the refinement mapping to `Pair`. Coins that came along with a swap and are
not the offer count as a donation of the moment before (`surplus`): that is the only way in
which the messages differ from a step of `Pair`.

`PriceReader`: `sample` and `asked_at` are the client's first reading, `owed` adds up
the price of each second since as the block left it, `steady` says that nothing moved the
price unseen by the accumulators (a donation before the block was accounted for, a ramp).
Its pair is a new one or a used one, with reserves, LP tokens and accumulators close to the
wrap-around, which no short behaviour reaches.

`Factory`: `pairs` is `PAIRS`, `pair_configs` is `PAIR_CONFIGS`. Contracts are
numbers, in the order of instantiation; an asset is a model value with a name in
bytes, because the keys of the registry are made of names. `AssetInfo::check`
(valid addresses, lower-case denoms) is the membership in `AssetInfos`. In
`FactoryTx`, `tx` is the submessage under way and `saved` what a rollback restores.

`StableMath`: `OnCurve` is not code but what the code approximates, the equation in the
comment on `compute_d` without divisions: a pool is on or above the curve of the
invariant d. In its terms the exact invariant of a pool, rounded down, is the largest d of
which the pool is on the curve. `DReachesCurve`, `QuoteOnCurve` and `SwapKeepsCurve`
compare what the integer arithmetic answers with it.

`Curve` has an operator for each method of the Python class that the repository uses, for
two coins with target prices of one; a `while` loop is a bounded recursive function.

## 3. Runs

| Run | Module, config | Checks |
|---|---|---|
| AmpHistory | MCAmpHistory | types, bounds, no jump, towards the target, completion; the history implements `AmpPath` (rate limit over chains of calls) |
| StableMath | MCStableMath | bounds and symmetry of D, D and reverse quotes against the exact curve, monotone sales, round trips, reverse simulations against the sales they predict (uneven pools and different precisions included) |
| Pair | MCPair | types, backing, oracle, fair withdrawals, no dilution, simulation, swaps against the exact curve |
| PairLarge | MCPair, MCPairLarge.cfg | violated: see findings |
| PairTx | MCPairTx | a native coin and a cw20 token: the messages implement `Pair`, are covered, leave nothing in escrow |
| PairTxCoins | MCPairTx, MCPairTxCoins.cfg | two native coins, two accounts: surplus coins; spread protection with and without a belief price |
| Factory | MCFactory | registry invariants, atomic creation, growth |
| FactoryNames | MCFactory, MCFactoryNames.cfg | violated: see findings |
| PairListing | MCPairListing | complete listing, no repeats, an end |
| PriceReader | MCPriceReader | averages of prices, stable readings, a way out for providers across a wrap-around |
| Cumulative | MCPriceReader, MCCumulative.cfg | violated: see findings |
| CurveLockstep | MCCurveLockstep | drift from the simulator, price of one-sided deposits and of refunds |

### Bounds and why they suffice

* Ramp: ten seconds with a minimum ramp of three let three ramps be started in a row,
  each possibly interrupted or stopped, at all amplifications of the range.
  `AMP_PRECISION` is 4, so that interpolation rounds.
* Arithmetic: 128 and 256 bits become 15 and 30, Decimals have three digits. The
  grid has every pool between 10 and 32 units a side and every amount up to 20.
  Reserves below ten are left out, because the code's `+ 1` in the divisors of D
  then dominates; the proof of `DBetweenMeans` shows that ten is enough. The fee is 10 % instead of 0.3 %,
  so that a commission of one unit occurs in pools of that size: what
  `RoundTripLoses` needs is a commission of at least a unit on both ways. The pools of this
  grid are evenly filled, up to about one to three. The two units of `DSymmetric` are a fact
  of such pools and not of all: at one to 10,000 and amplification 1 the order of the
  assets shifts D by about seven.
* Reverse quotes: the rounding of the offer shows only where a unit of the offer is worth
  many of the ask asset. So `QuoteInvertsSale` looks at each case of the grid also with
  one side or both 24 times larger (`Factors`; pools of up to one to 77), with equal
  precisions and with precisions a factor of ten apart in both directions (`Precisions`). An
  offer of exactly the named amount then buys up to more than fifty units too little.
  Where a product leaves the 15 and 30 bits the code answers nothing, and nothing is judged.
* Pair: up to four calls of the account (`MaxCalls`) in three blocks and any
  number of owner calls, with a few amounts per operation. This is enough for a
  deposit, a trade, a second deposit and a withdrawal, in one block or several, before,
  during and after a ramp, between a native coin and a cw20 token of different precisions.
* PairTx: three calls in two blocks by one account, wallets of 30 units, every
  combination of assets, coins and hooks; about 300,000 states. A native coin and a cw20 token
  give a call coins that arrive before and tokens that arrive after the handler.
* PairTxCoins: only two native coins let coins come along that are not part of the call,
  and only two accounts let one receive what the other pays. The amount of a donation is
  chosen so that an account can give each coin once (16 of 30); the two calls are a deposit
  and a trade or two trades, after any donations. Both assets have one precision and the
  default slippage does not apply, because `SwapNearParity` compares amounts one to one.
* PriceReader: the used pair's first accumulator wraps within the three seconds of the
  run; the second one does not. Two calls between two readings, with the owner's ramp.
* CurveLockstep: sixteen pools between 20 and 60 units a side, four amplifications,
  up to four sales in either direction; 38,122 states. Below ten units the
  two differ by the added ones alone (`LeastBalance`). The two units per sale of
  `FollowsSimulator` are a fact of pools of these sizes too: at 1,000 against 100,000 units and
  amplification 1 contract and simulator are further apart. `DepositWorthItself` judges one way
  of getting a deposit back, in the coin that was deposited; a deposit of one coin that is
  withdrawn in both is not looked at. `RefundNotOverpaid` is about proportional refunds, for
  which the simulator's imbalance fee is next to nothing: what it judges is the rounding.
* Factory: three assets, one type, two code ids, two accounts, two pairs.
  Three assets are needed for two different markets and for colliding names.
* Listing: three pairs of four assets, pages of one and two, one key a prefix of
  another. A limit of zero is left out: the page is empty and the client is told nothing.

Deadlock checking is off (`CHECK_DEADLOCK FALSE`) wherever a bound ends the
behaviours: the corner of the grid in the arithmetic, the last block and the last
call in the pair, the last sale, the last contract in the factory, and a client of the
listing that has finished. The ramp run checks deadlock: a stop is always possible.

### Fairness

`HistoryFairSpec` states weak fairness of `Tick`: a chain produces blocks whatever its
contracts do. No caller is obliged to call, so no action of a contract is fair, and
`RampCompletes` needs nothing else. `ListingFairSpec` states weak fairness of `ReadPage`: a
client that wants the whole list goes on asking; creations are not fair. `ListingEnds`
then says that the cursor makes progress past prefixes and past pairs created meanwhile.

### Findings

1. `PairLarge`: `compute_new_balance` computes `D^3 * AMP_PRECISION` in 256 bits. When
   D, in units of the larger precision, exceeds about 2^83 (some ten million tokens of 18
   decimals), it overflows. The first deposit is accepted, since the oracle sees an
   empty pool, and in any later block every call that updates the oracle aborts.
2. `Cumulative`: `accumulate_prices` prices all the time since the last accumulation at the
   amplification of now, and a start or stop of a ramp does not accumulate first. Seconds
   that were read at one price are counted again at another, and a reading may fall below
   an earlier one.
3. `FactoryNames`: registry keys concatenate names without a separator.

Three smaller observations, without a violated run: `compute_d` leaves its loop on exact equality or
after 32 iterations although its comment says precision 1, and in small pools Newton's
iteration runs in a cycle (`DBetweenMeans` and `DReachesCurve` show, for every pool of at
least ten units a side, that the result is usable all the same);
`read_pairs` lists in the order of keys although it is documented as oldest first; and
`compute_offer_amount` rounds the offer down (`utils.rs:64`), so that an offer of exactly the
amount that a reverse simulation names may buy too little, by as much as one unit of the offer
is worth: some 45 units at 1,000 against 100,000 and amplification 1, up to 10^12 times as
many between tokens of 6 and of 18 decimals. `QuoteInvertsSale` shows that it is that one
unit and no more: an offer one unit larger buys the amount asked for, but for one unit of the
commission's rounding and one in every `DECIMAL_ONE` (10^18 in the code), and an offer one unit
smaller buys no more than it.

## 4. Proofs

* `AmpRamp_proofs`: `AmpTypeOK` is inductive. The lemmas about `Covered` bound a
  rounded quotient between zero and the height of the ramp and order two quotients
  of one ramp in time; the interpolation at the start of a ramp is its first end.
  From these follow `AmpInBounds`, `NoAmpJump` and `TowardsTarget`.
* `AmpHistory_proofs`: the history implements `AmpPath`. The bound on a window is not
  inductive: the invariant (`HistoryInv`) also places the history relative to the ramp in
  force. What lies after the beginning of this ramp is the ramp's value at its time
  (`PathOnRamp`). What lies before it, within a window, is near the beginning: its distance
  is bounded by a line in the time between, which leaves room for the rest of the ramp to
  stay within the factor. After a stop it is only within the factor of the resting value
  (`PathBeforeRamp`), which is enough because no ramp may begin in the rest of the window:
  a start needs `MIN_AMP_CHANGING_TIME` since the last start or stop.
* `StableMath_proofs`: the arithmetic. A checked operation that answers has met no `None`
  and is exact.
  - Newton's method. `Newton` is a recursive function; that one exists
    (`IterateExists`) and what it answers are shown by induction over the passes, with a set
    of numbers in the place of the predicate (`SetInduction`, from the well-foundedness of
    Nat). The result, `NewtonAnswer`, is all that is used of an iteration which may run in a
    cycle and is cut off after 32 passes: the answer is one step away from a point
    of any set that contains the first value and that no step leaves.
  - D from below. Wherever a step of `compute_d` starts, it ends less than a unit below the
    exact invariant (`ImprovedIsNotBelow`): a cube lies above its tangents, and where the
    divisions round in the wrong direction, the ones that the code adds to its divisors
    make up for it. So every D that is answered is at least the largest d of which
    the pool is on the curve (`DNotBelow`). For `compute_new_balance` the same holds of a
    parabola (`NewBalanceOnCurve`). Together: a sale leaves the pool on each curve it was
    on, but for one unit of what is paid (`SaleKeepsCurve`), and so does a reverse quote, but
    for one unit of what is offered (`OfferKeepsCurve`).
  - D from above. The numbers between the constant-product and the constant-sum value of a
    pool are a set that no step leaves (`ImprovedBetweenMeans`). Downwards this needs that
    the amplification is at least one (`StepAboveProduct`). Upwards it is a matter of
    rounding: the exact step stays below the sum by little when the pool is nearly
    balanced, and `d_product` loses up to two remainders. What is left is an inequality
    between polynomials (`RoomBelowSum`) that holds when both reserves are at least ten; close
    to the edge it needs that the difference of the reserves is an integer.
    `CalculateStepFits` adds that every product fits when (leverage + sum) * sum^2 does,
    so D is always answered (`DBetween`).
* `StableMathCases_proofs`: from these lemmas `DReachesCurve`, `DBetweenMeans` and
  `QuoteOnCurve` for every grid. `GridAssumption` states the pools that `DBetweenMeans` is
  about: ten units a side, an amplification of at least one (`MINIMUM_AMP` is), and reserves
  whose cube leaves room in 256 bits, as they do up to about 2^84 units (beyond, the code fails:
  finding 1).
* `Pair_proofs`: `Pair` refines `AmpRamp` (same variables), so the types of the
  ramp carry over. The inductive invariant adds the types of the ledgers and that
  outstanding LP tokens are backed. Its core is arithmetic: the two roundings of
  `ShareInAsset` never exceed the exact share, so a withdrawal of less than the whole
  supply leaves a positive reserve, and what is left per token does not shrink.
  `SwapsPaySimulation`: taking the offer off the queried balance restores the reserve.
  - `SwapsNearParity` (two assets of one precision, the case the property speaks of): the
    spread test is made with rounded Decimals on the return plus the commission, the
    commission is a rounded product of the return, and both are taken back to the ask
    asset's precision. The lemmas follow the three roundings; none costs the trader more
    than the one unit of Decimal the property grants, whatever the solvers answered.
  - `ProvidersCanLeave`: LP tokens that stand for a unit of each asset, and for one step of
    the Decimal (`WorthUnits`), are paid in both assets. The ratio loses less than one step,
    which in the product with the reserve is less than the reserve; so much is in
    hand beyond a whole unit, and no product leaves 256 bits (`ShareCanBePaid`). That the amount
    is part of the supply comes from `SupplyAlwaysSum`. The theorem supposes that the update
    of the oracle succeeds (`OracleAllowsWithdrawal`), which in very large pools it does not
    (finding 1). In the pools of the run `PriceReader` it does, and there it is
    checked as part of `ProviderCanLeave`, with an accumulator that wraps around.
  - `SupplyAlwaysSum`: the LP supply is the sum of the holdings. A sum is said without
    recursion, as the existence of a count of every set of accounts that grows by an
    account's holding when the account is added (`Counts`); a mint, a burn or a transfer
    turns a count into another one.
  - `CountedDepositsAreFair`: what `provide_liquidity` counts of a deposit is at least one
    side of it in full and no more than came of the other, everything unless the
    amplification is `MINIMUM_AMP`, and the tokens minted for it do not lower D per token.
    `NoDilutionAboveMinimum` is `NoDilution` for every other amplification.
  - `SwapsKeepCurve`: taking the amounts to the greater precision is exact, so the sale of
    the code is one of `SaleKeepsCurve`; the commission, if it is not zero,
    is at least the unit that may be missing, and changing the payout back to the asset's own
    precision rounds in favour of the pool.
* `PriceOracle_proofs`, first part: the history variables do not restrict `Pair`; the invariant
  says that as long as a block is not accounted for, the reserves (donations
  aside) and the oracle are those it began with. The second half of the work is that
  every handler passes the reserves of before its own effect.
* `PriceOracle_proofs`, second part: a new or used pair satisfies the invariant of `Pair`; a call saves
  what a reader saw before it (`ReadingsAreStable`). `ReaderGetsAverage`: while
  the price was steady, what could be read now exceeds the first reading by what is owed,
  by at most one more for each second, and by whole wraps (`Accounted`). A call does not
  change what can be read; a second adds the price, because the time since the last
  accumulation times the price, rounded once, exceeds the same with a second less by
  the rounded price or one more (`PriceOfSum`).
* `PairTx_proofs`: the invariant `TxInv` types every stage of a transaction, its messages and
  the state a rollback restores, and says what the escrow holds: nothing, the tokens of the LP
  token's hook, or what the last message still to come will burn. So no ledger goes below
  zero between two messages (`TxTypeCorrect`) and no LP token stays with the pair
  (`NothingStaysInEscrow`). `TxImplementsAmpRamp`: the ramp theorems hold within calls.
  - The refinement (`CallsAreAtomicAlways`, `TxImplementsPair`). The typing says too
    little: when the last message is done, the state must be the one that an action of
    `Pair` makes of the state before the transaction. `PlanInv` carries this through the
    stages: a call under way holds its coins or tokens and nothing else has moved; a
    handler has accepted a deposit, an offer or a withdrawal from the saved state; of its
    messages a first part is done and the ledgers are that far (`Depositing`, `Swapping`,
    `Withdrawing`). Then `Commit` is the step of `Pair` (`CommitIsAtomic`), a message of a
    single ledger is itself, a call that leaves surplus coins is a donation first, and
    everything else, rollbacks included, is not seen (`StepIsAtomic`). That the
    operators of `Pair` are the same functions when seen through the instance is proved
    operator by operator (`SameNewton`, `SameD`, ...), which is why `Newton` takes its
    step as a function.
  - `CommittedSwapsNearParity`: through the refinement a swap that takes effect is a
    `Swap` on the reserves that the world saw just before, so the argument of `Pair` applies.
  - `MessagesAlwaysCovered`: a payout is within the ask pool whatever the solvers
    find and whichever way the precisions differ (`QuoteWithinPool`); a refund is within the
    reserve because the amount is part of the supply, and this because the supply the world
    sees is a sum (`CommittedSum`).
* `Factory_proofs`: an invariant of the registry stated for any values of pairs,
  contracts and tokens: types, consistent entries, every contract registered. That there
  is one pair per two assets needs that the byte order is total (`OrderTotal`, by the
  least index at which two names differ): then the key does not depend on the order in which
  the assets are given, and its asset infos determine it. The second half is the listing: a
  pair that was known at the beginning is listed or ahead of the cursor, and every listed pair
  is behind it. A page is the least keys ahead, and its last key is the new cursor; that a
  finite set of keys has a first and a last is proved by well-founded induction over its
  subsets.
  The third part is about `FactoryTx`: its invariant says how far a transaction has come (`Progress`)
  and that what it noted still is what was accepted (`CallUnderWay`), because no owner
  call can come in between. Every message is then a stutter of `Factory`, the
  factory's reply its `CreatePair`, and a failure a stutter.

Assumptions are the named ASSUMEs of the modules: positive precisions and limits, powers of
ten that are positive and begin with 1 (the provers know nothing of `^`), a
`MaxU256` that holds the product of two 128-bit values, a fee below one, a `DECIMAL_ONE` of at most 128 bits, the pools of
`GridAssumption`, names as sequences of bytes (printable ones for the listing), a used pair with positive reserves.
TLC evaluates them in the runs.

Only model-checked:

* `RampCompletes` and `ListingEnds` (liveness is out of the prover's reach);
* `DSymmetric`, `RoundTripLoses`, `QuoteInvertsSale`, `SaleMonotone` and the properties of
  `CurveLockstep`: they bound an answer of the iterations from the side on which they
  arrive, so they hold only as far as the iterations have converged within their 32 passes.
  That they have is a fact about the sizes of the run; nothing in the code makes it one for
  every pool, and for `DSymmetric` and `FollowsSimulator` their absolute bounds are false in
  very uneven ones. What is proved about the solvers holds whether they have converged or not;
* that the update of the oracle succeeds (`OracleAllowsWithdrawal`), in the pools of `PriceReader`;
* `NoDilution` at `MINIMUM_AMP`: what is not counted of a deposit stays in the pool all the
  same, and that it does not lower D needs that the answers of two iterations are ordered
  as the reserves are, which again is convergence.

## 5. Not modelled

* Allowances of the LP token (cw20-base, not in the repository): a holder is whoever may
  spend. LP tokens transferred to the pair itself, and pairs with an LP token as an asset.
* Tokens that fail to answer a balance query (the querier then reports zero): the tokens here
  are cw20-base, which always answers.
* `migrate` (no effect) and the wasm admin of contracts.
* Message encoding, attributes, LP token names, validation of addresses and denoms.
* Queries that only return state, and `query_share` and `query_reverse_simulation`, which are
  wrappers of operators that are modelled (`ShareInAsset`, `ComputeOfferAmount`).
* The second `compute_current_amp` in `math.rs`, which nothing calls.
* Gas and block limits.
* Scripts, schemas, test doubles, `main.py` of the simulator and its pools of more than two
  coins.

## 6. Plan

Done in this order: ramp, arithmetic, pair, oracle history, factory, transactions of the
factory, listing; then LP token holders, the reader of the oracle, the transactions of the
pair, the simulator, and the proofs of the rate limit, of one pair per two assets, of the
listing, of the messages and their refinement of `Pair`, of the averages and of what a
trader is sure of; at last Newton's method and the two solvers, with the bounds of D and
the curve that swaps keep. What would come next:

1. Composition of factory and pairs: the owner that `UpdateConfig` of a pair asks for
   changes by `UpdateOwner`; trading in pairs under registration.
2. An abstract specification of a pool as a vault (assets in, claims out) that `Pair`
   implements.
3. Proofs: transfer of the theorems about `Pair` (backing, fair withdrawals, the curve) to
   what the world sees of `PairTx`, by `TxImplementsPair`; a bound on the passes that an
   iteration needs for a pool of a given imbalance, and with it what the rounding of D
   costs at most.
