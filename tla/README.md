# A verification project for StealthWage

StealthWage streams salaries on chain without showing the rate. An employer
deposits tokens into a contract and publishes a commitment to the terms; a
program in a TEE opens the sealed terms, computes what has accrued and signs
the figure; the contract pays what the signature says. This directory holds a
TLA+ model of that system, the TLC runs that check it on small instances, and
TLAPS proofs of its main properties for all instances.

## 1. The system

| Part | State | Operations | Talks to |
|---|---|---|---|
| `contracts/StreamVault.sol` | streams (parties, token, commitment, `funded`, `withdrawn`, `cancelled`), `nextStreamId`, `teeSigner`, the lock | `createStream`, `fund`, `withdraw`, `cancelStream`, `revealTerms`, `setTeeSigner` | ERC20 tokens, which may call back or fail in the middle of a call |
| `typescript/src/shared/protocol.ts` | none | accrual, rate conversion, terms encoding, digests | used by the enclave and both web pages; must agree with the contract |
| `typescript/src/app/streamHandlers.ts` | the two keys, a counter | `authorize`, for withdrawals and for settlements | gets everything it knows from the request and its clock; never reads the chain |
| `typescript/src/base/server.ts` (and the Go and Python servers) | a queue, the handler table, greeting counters | `POST /action`, `GET /state` | runs handlers one at a time |
| `frontend/app/stream/[id]` (recipient), `frontend/lib/enclave.ts` | a snapshot of the stream, the terms, one authorization, a failure, `busy` | load, unlock, withdraw | wallet, enclave, vault, explorer |
| `frontend/app/app` (employer) | a form, a draft, a phase | submit: seal, create, approve, fund | wallet, vault, token |
| `frontend/app/page.tsx` (landing) | the demo stream and its terms, an error | load, every 15 seconds | chain |
| `frontend/app/verify/[id]` | the stream, a text of terms | load, look a reveal up, compare, share | chain |
| `frontend/lib/chain.ts` | none | read a stream, find its logs in a window of blocks | RPC node, explorer |
| `typescript/scripts`: `e2e-coston2`, `test-settle`, `create-demo-stream`, `serve-extension` | the local variables of one straight program each | open, fund, withdraw, settle, reveal, and check balances | vault, token, enclave; all use the employer's account |
| `contracts/InstructionSender.sol` | extension id | `setExtensionId`, two sends | the TEE registries |
| `tools/cmd/register-tee`, `RegisterNode` of `tools/pkg/fccutils` | a file with the steps completed and two instruction ids | register or attest, attest again, check availability, to production; resumed from the file if asked to | the registries, the TEE proxy, the data providers |
| the rest of `tools/pkg/fccutils`, `tools/pkg/validate` | none | extension and version registration, governance, checks of a deployment | chain, TEE proxy |

What is hard in it, and to test in it: a figure is computed off chain from the
enclave's clock and used on chain, later, by anybody, any number of times;
deposits are booked before the token delivers them; a token call may call the
contract back or undo the transaction; keys are rotated while authorizations
are in flight; the enclave dies between its awaits; the vault never sees terms
and the enclave never sees the chain, so nothing but the digest keeps them
together. A page or script awaits a wallet, a node, an enclave or a receipt
between any two of its lines, and what it read before may be old after; loads
overlap; answers come late, wrong or never; programs on one account share its
nonces, its allowance and its balances. A registration is four transactions
and a file: a run may die between any two of them, inside the writing of the
file, or before its transaction is mined, and the next run goes by what it
finds. PROJECT.json lists these hazards at the lines where they bite, with
the properties that cover them.

What makes each part correct:

- vault: the books are what the tokens did; no stream lives off another's
  deposits; what a stream is never changes and what it has paid never falls;
  a settlement splits the pot once with nothing left.
- protocol: rounding never pays too much and never costs more than dust.
- enclave and vault together: nobody is paid ahead of the sealed terms; only a
  party, asking recently, makes money move; a settlement is not arbitrarily
  old; a reveal explains every figure; the recipient is paid in the end.
- server: one handler at a time, answered in order, no state lost to a failing
  handler.
- dashboard: only terms that hash to the commitment are shown; an
  authorization is given up only once it has paid; nothing spins for ever; a
  party who is owed money gets it.
- landing and verify pages: in the end they show the chain as it is; a reveal
  where it is expected is found; a link shows what it was copied from.
- programs that open streams: each goes on with the stream it created; what is
  sealed is what is committed to; a script that says it passed is right.
- registration: the file never says more than the chain; a resumed run has what
  a run that did the steps has; what goes to production is a check of a fresh
  challenge; run again after each failure, it ends in production.

## 2. The modules

```
World ─┬─ StreamVault ─┬─ VaultReplay
       │   (IdealStreams is what it implements)
       │               └─┐
       └─ Enclave ───────┴─ StealthWage
Protocol ─┴─ Accrual

Protocol ── VaultLedger ─┬─ ChainView ─┬─ RecipientDashboard ─┬─ Frontend
                         │             └─ PublicPages ────────┘
                         └─ EmployerClients
                             (implements IdealStreams too)

ExtensionServers
    (ExtensionService is what it implements)

TeeRegistration
```

**World** names what everybody shares: accounts, signing keys, blobs of terms
and their hashes. Keccak is an injective function; a digest is the record of
its fields; a signature is the record of signer and digest, and recovering it
over another digest gives an address nobody holds.

**StreamVault** is the contract. `streams`, `nextStreamId`, `teeSigner` and
`entered` are its storage; `revealed` is the log of `TermsRevealed`; `balance`
is the token's ledger; `deposited`, `paid` and `refunded` are history, written
by the token's steps only. A call that moves tokens is split where the code
leaves the contract: the action `fund`, `withdraw` or `cancelStream` makes the
checks and the writes and puts the transfers the call still owes into `due`;
`TransferIn`, `TransferOut` and `TransferBack` are the token's; `Return` frees
the lock; `Revert` is the EVM undoing the whole transaction, callbacks
included, when a token call fails, to the state kept in `saved`. Any call
between the two is a callback; the calls that take no lock go through, the
others meet `nonReentrant`. Numbers that are `uint128` in the code are bounded
by `MaxUint128`, additions are checked, casts truncate. Blocks are mined only
between transactions.

**IdealStreams** says what an escrow promises in four variables: a phase, a
pot, what went to the recipient and what went back. StreamVault, seen between
transactions, implements it (`ImplementsIdealStreams`).

**Protocol** has the accrual as the code computes it, with its truncations.
**Accrual** watches one salary second by second, from the number typed into
the employer's form to the figure signed.

**Enclave** is `authorize`. `Begin` is everything up to its first `await`, with
the clock and keys it reads; `Sign` and `Refuse` are the rest; `Crash` loses
the request; `Redeploy` changes the keys. Requests refused before the first
await leave no trace and are no steps. `challenges` and `authorizations` only
grow: a message in them may be used late, again, in any order, or never.

**StealthWage** composes the two. Anybody submits any authorization ever
given out; requests carry any sealed blob, any challenge, under any operation
and stream id; the enclave's clock is within `MaxSkew` of the block timestamp.
Nothing ties the parties of a stream to the parties in its terms, because
nothing in the code does.

**ExtensionServers** is the HTTP server in front of the handlers, which the
repository has in Go, Python and TypeScript. `server` says which one is
deployed; the three share the counters and texts the greeting handlers keep.
The Go and Python handlers are split at every access to that state, between
lock and unlock as the code has them; a TypeScript handler is one step, or two
when it awaits, and starts when the link of the promise chain before it has
settled. A handler that raises closes its connection in Python; in TypeScript
the rejection reaches nobody and ends the process (`doomed`, then `TsDie`).
**ExtensionService** is the promise of docs/extension-contract.md, section 5:
each request takes effect at one moment between its arrival and its answer.

**VaultLedger** is the vault and the enclave as a client meets them: a
transaction is one step that succeeds or reverts, a stream is its record, a
call is a condition and a new record, an authorization is a figure and a
deadline. The token's transfers and callbacks are inside the step; StreamVault
has them.

**ChainView** is the chain under a page about one stream. Others create it,
fund it, redeem authorizations, cancel it and reveal its terms while the page
is open. `anchor`, `fromBlock`, `toBlock` and `Found` are the search window of
`readRevealedTerms`; `Served` is what the RPC node accepts. Block number,
block time and the page's clock are one variable.

**RecipientDashboard** is the recipient's page, split at every await: `step`
is the await it is at, `dash` its React state, `request` what `unlock`
captured before the wallet prompt. The enclave may grant, refuse, fail with an
HTTP error or with something that is no JSON, or say nothing until `fetch`
gives up. Something else may answer in its place, with other terms or with the
stream's own, and with an authorization signed earlier or with numbers the
enclave never signed (`Figures`). The page compares the hash of the terms and
keeps the rest as it came, so an authorization in `dash` carries whether its
signature is genuine (`signed`), which only the vault finds out
(`FromTeeSigner`). An answer whose numbers do not parse is an exception of
`withdraw` that ends as a revert does. The wallet may refuse and switch accounts; a
receipt may not come while the transaction is mined all the same (the
authorization is then redeemed by `Withdrawal` of ChainView, like one redeemed
from another tab). `abi` is the functions the page can call: those of
`VAULT_ABI`, or those and `withdraw`. The page has no way to load again, nor
to sign again once it has terms (the button that says "Sign again" is
disabled without an authorization), so a visitor who is stuck reloads it.

**PublicPages** is the landing page, whose loads overlap, and the verify page,
whose terms box is filled from a link, from a look-up that may come late, or
by typing. **Frontend** composes the pages over the chain: a visitor has one
of them open, in any order with everybody else's transactions.

**EmployerClients** has the four programs that open streams, each a sequence
of awaits (`PageProgram`, `E2eProgram`, `SettleProgram`, `DemoProgram`) with
its local variables in `job`. The account's transactions wait in `pool` and
are mined in order, also when their sender has given up on them; the page may
then be submitted again. `allowance` is one number that every `approve`
overwrites. `Must` is what the scripts make sure of. Alice, the recipient of
two of them, has a key that is derived from a public string, and withdraws
whenever she likes. The page's ABIs are as shipped, in which case it gets no
further than `createStream`, or repaired. To IdealStreams this is an escrow
like any other (`LedgerImplementsIdealStreams`).

**VaultReplay** adds to StreamVault a record of the authorizations honoured,
which the contract does not keep, to state what the documentation says about
replays.

**TeeRegistration** is register-tee. `Begin` is `main` up to the first step,
with the removal of the file, which may fail, and `loadState`; then each step
of RegisterNode is skipped (`NotAsked`), taken from the file (`Completed`), or
sent, waited for, noted and saved (`Send`, `MineOwn`, `CheckTx`, `saveState`).
`state` is the progress in memory, `stateFile` the file, which may be missing
or torn. `Fail` ends a run anywhere; a transaction it waited for goes to
`orphans` and is mined before the next run's. Instructions are numbered as
they are issued, so that "newer" is "greater"; `since` is history, the number
issued when a run began without a file. The registries are external: a machine is registered once, a
challenge is good for one check and for some time (`Expire`), a check may stay
without a proof.

The proofs are in modules of their own: **StreamVaultProofs**,
**AccrualProofs**, **StealthWageProofs**, **FrontendProofs**,
**ExtensionProofs**, **ClientsProofs** and **RegistrationProofs**, each about
the module it is named after, and **AmountLemmas**, about the accrual formula
and about sums over finite sets.

## 3. The runs

| Run | Asks | Bounds |
|---|---|---|
| `vault` | are the books right whatever the callers and tokens do? | two streams in one token, two accounts in every role, a `uint128` of 2, figures up to 3, two signers, a foreign domain |
| `accrual` | what do the truncations cost, and is the salary shown the one typed? | a scale of 15, a day of 7 seconds, salaries 0..9, 21 seconds |
| `stealthwage` | do vault and enclave together keep to the terms? | one stream, valid terms and a junk blob, two challenges, two authorizations, an authorization life of 2 and a skew of 1 in a history of 4 moments |
| `liveness` | is the recipient paid in the end? | one stream, one unit, crashes, redeployments, failing tokens |
| `settlement_time` | is a stream settled to the moment of cancellation? (violated) | as `stealthwage` |
| `extension` | do the three servers keep the same promise, and is everyone answered? | five requests to each server: greetings, a refusal, a state read, handlers that throw |
| `failure_isolated` | does a failing handler leave the others alone? (violated) | as `extension` |
| `frontend` | do the pages show and do the right thing while others act and things fail? | one stream, two deposits of one unit, 4 blocks, authorizations and challenges good for 1 second, two failures or foreign answers, one made-up figure that is all the terms ever pay, two overlapping loads, a window of one block around block 1 |
| `shipped_abi` | can a party withdraw on demand? (violated) | as `frontend` |
| `clients` | do programs on one account keep out of each other's way? | two programs at a time (e2e and settle, settle and demo, page and demo), two forms, two submissions, one failure, 4 tokens for two deposits of 2 |
| `replay` | is replaying an authorization a no-op? (violated) | one stream, two deposits |
| `registration` | does a registration that is given up and resumed keep to the chain, and does running it again complete it? | the commands rap, rRap and p, resumed or not, two mishaps, no new run after 6 challenges |

Why the bounds are enough to meet the interesting cases. Two streams in one
token are what it takes for one to live off the other; a callback inside a
callback adds nothing, since the guarded calls refuse both. A `uint128` of 2
has a deposit that overflows, and a figure of 3 is one the cast would
truncate. Fifteen and seven share no divisor, so both truncations are exercised
at every remainder. In `stealthwage` the life of an authorization, the skew
and the number of moments are such that an authorization expires, one is
redeemed at its deadline, and a clock ahead of the chain shows in a figure.
The bounds on challenges and authorizations are guards of the model; in
`liveness` they exceed what there is to sign, so they never bind. In
`frontend` there is time for an authorization to be signed, to expire and to
be signed again, and for a reveal inside the window or outside it; two
failures are one at the first attempt and one at the retry. The landing and
verify pages only copy the record they read, so that creating and cancelling
the stream, which they tell apart, is enough change for them (`MaxShown` is
0), while the dashboard also sees deposits and withdrawals. In `clients` two
programs are enough for one to mine between the other's transactions; a third
would do nothing that one of two does not; `MaxStreams`, a guard of `Mine`, is
what all attempts can create and never binds, and 4 tokens are what all deposits need, so that
a deposit fails for want of allowance, not of money. In `registration` two
mishaps are a run that dies and something that goes wrong in the run after it,
such as a file that cannot be removed or a challenge that expires. A run from
the start issues at most two challenges, and only a mishap makes it fail, so
that `MaxChallenges` = 6 never keeps the run that completes from beginning
(if it did, `Completes` would fail).

Four runs end in a violation, on purpose: each states what the repository's
text says and TLC shows what the code does instead.

- `settlement_time`: the comment on `cancelStream` says it pays "what accrued
  up to cancellation". A settlement figure stays acceptable for
  `AUTH_TTL_SECONDS`; an employer who asks early and cancels late keeps the
  difference. `SettlementFloor` is the bound that holds.
- `replay`: README.md says that replaying an authorization is a no-op. If its
  first payment was capped by the deposit, it pays the rest after a top-up. It
  is no double spend: `NeverOverpaid` holds all along.
- `failure_isolated`: the comment on `serialize` and its test say that a
  handler that rejects leaves the server usable. The queue does go on, but
  `listenAndServe` drops the promise of `serve`, so the rejection is unhandled
  and Node ends the process; requests that had arrived are never answered, and
  the counters start again from zero.
- `shipped_abi`: the dashboard promises "withdraw on demand". `VAULT_ABI` of
  lib/chain.ts has only views and events, so viem throws before the wallet is
  asked; the employer's page fails the same way at `createStream`. The types
  allow it, since viem falls back to any string for a name it does not know.
  `PaidIfCallable` holds: with the function in the ABI nothing else is in the
  way.

Two more places where the text and the code part, found on the way and not
runs of their own. create-demo-stream.ts says that the landing page shows the
terms it reveals, but the lines it prints for the frontend's environment name
the new stream and not the block of its reveal, and the default of
`DEMO_REVEAL_BLOCK` is that of an older stream, so that the page searches the
wrong window; `RevealFound` is about a page pinned to the right block. And
docs/deployment-steps.md says that step `r` of register-tee skips itself once
the machine is registered, so that re-runs need `R` for a challenge; the code
asks for a fresh attestation in that case, and the guide is behind it.

CHECK_DEADLOCK is off throughout: histories are bounded by `MaxTime` and the
other bounds, and a system in which nobody calls anything may rest.

### Fairness

`extension` assumes that threads, goroutines and the event loop keep running
and that a lock that is free is taken in the end (weak fairness of each
request's next step; there are finitely many requests, so nobody can be
overtaken for ever). Nobody is obliged to post anything. `liveness` assumes
more. A transaction ends, since gas does (`Return` or
`Revert`, weakly fair). Blocks keep coming between transactions (`Tick`). The
recipient keeps signing challenges, asking and submitting, and a request that
is being handled is answered again and again unless the enclave crashes every
time; a token does not fail every single transfer. These are strongly fair
because redeployments, crashes, other people's requests and callbacks disable
them now and then. Nothing is assumed of employers, of the owner or of
whoever deploys the TEE. The property itself is conditional: it speaks of
histories in which the keys are in order from some point on, and of streams
whose recipient is the one named in their terms.

`frontend` assumes that the event loop, timers and the RPC node keep going
(weak fairness of the page's own steps, of a load in each slot, and of mining
and confirming), that a wallet prompt is answered, that a visitor who can
unlock or withdraw does, and that one who is stuck reloads the page (strongly
fair, since switching accounts interrupts it). It assumes nothing of the
enclave: `SpinnerResolves` rests on the timeout of 15 seconds alone. That the
enclave answers when it is asked often enough, and that a party stays on the
page, are premises of `PaidIfCallable` and `WithdrawOnDemand`. `clients` checks
safety only.

`registration` assumes that a process that does not die goes on, that
what is sent is mined, and that the operator runs the command again after each
failure (weak fairness of each). Mishaps are bounded by `MaxMishaps`: from some
point on, nothing goes wrong. That the operator starts fresh from some point
on, with all the steps, is the premise of `Completes`, and it is needed: the
comment on `registrationState` says that it is saved "so registration can
resume after failures", but a resumed run believes the file, and a challenge
that has expired since, a check that nobody signed, or a file torn by a crash
makes each resumed run fail like the one before. Starting fresh is the default
of register-tee.

## 4. The proofs

All theorems hold for every choice of the constants that satisfies the named
assumptions (`WorldAssumption`, `VaultAssumption`, `ProtocolAssumption`,
`EnclaveAssumption`, `SystemAssumption`, `AccrualAssumption`,
`ScaleAssumption`, `ChainViewAssumption`, `DashboardAssumption`,
`PublicPagesAssumption`, `ServersAssumption`, `ClientsAssumption`,
`RegistrationAssumption`): any number of accounts,
streams, tokens, keys, requests, runs and mishaps, any `uint128`, any lifetimes, windows and
skew. Apart from the types of the constants, the
assumptions say that the values that stand for `null` and for an empty slot
are not also a record.

**StreamVaultProofs.** `BooksBalance` speaks of the moments between
transactions and says nothing of the middle of one, so it is not inductive.
The invariant `IInv` strengthens it to every moment: `funded` is what arrived
plus what is due to arrive, `withdrawn` what was paid plus what is due out,
and the rest of a cancelled stream is what went back plus what is due back;
a stream that awaits a deposit owes nothing out; with the lock free nothing is
due; and the snapshot a failing call returns to satisfies the books itself,
with nothing due. From it follow `TypeCorrect`, `SegregationHolds` and
`BooksAlwaysBalance`. Segregation needs the lock: with `fund` under way,
`funded` runs ahead of what arrived, and only the lock keeps a withdrawal out.

`HistoryKept` and `Refinement` look at the streams between transactions, where
a transaction of many steps, with callbacks in it, has to be one step or none.
`TransactionInv` carries this through the call: compared with the snapshot,
one stream has advanced as one of `fund`, `withdraw` and `cancelStream` lets
it, and every other is as it was or was created by a callback. `Return` then
is a step of IdealStreams and `Revert` a stutter.

`SolvencyHolds` is about a sum over all streams of a token. `BackedInv` states
it in the middle of transactions too, with the pots as the token moved them
(`deposited`, `paid`, `refunded`) where `Solvent` has the contract's own
figures, and of the snapshot; `IInv` says that the two agree between
transactions. **AmountLemmas** has what is needed of the sum: changing one
summand changes the sum by the difference, and zeros may be left out. An
induction theorem with an operator parameter cannot be used, so these go by
the least size of a set that would be a counterexample.

**AmountLemmas, AccrualProofs.** The accrual is monotone in time and bounded
by the total, from which everything below follows; and the two truncations
together stay within the bounds of `NeverAboveSalary` and `ShortfallBounded`.
`SalaryShown` is the way back: the truncated rate, times the seconds of a day,
falls short of the salary by less than a day's seconds, which is less than the
half unit that the pages add before they divide, given `ScaleAssumption`
(10^12 against 86400 in the code).

**StealthWageProofs.** The invariant `SInv` adds to `IInv` what ties an
authorization to the world: it was signed for terms that hash to its
commitment, its figure is the accrual at its deadline minus the lifetime,
some party's challenge for this stream and purpose was fresh then, and that
moment is not later than the time on chain plus the skew; the same of the
request between its awaits as far as it goes (its clock reading and its
challenge's date); and what a stream has paid, now and in the state a failing
call returns to, is at most what its terms accrue by the time on chain plus
the skew. Because the accrual is monotone this survives time, and
because Keccak is injective there is only one blob it can be about.
`NobodyOverpaid`, `SettlementsKeepFloor`, `OnlyPartiesMoveMoney`,
`AuditsAreSound` and `SystemTypeCorrect` follow. The settlement theorem needs
one thing more, `CallInv`: seen between transactions a cancellation happens
when its call returns, so the invariant carries the floor through the call.

**FrontendProofs.** A page is split at every await and the chain moves on in
between, so nothing a page holds need be true now. `FInv` says how it may lag.
A record read earlier has the stream's commitment and no more deposits than
there are now; a figure held or on its way, if the enclave signed it, is of a
second that has come, and of any other figure nothing is said; the stream has
paid no more than has accrued; a receipt of success means that the stream has paid at least what the
authorization was good for when it was read; a load has a head that is not
ahead of the clock; a link's verdict is the verdict on every record the stream
can have. Each part survives other people's transactions because the chain
only grows (`ChainGrows`); a made-up figure that the page submits leaves it as
it is, because the vault recovers the signer. Beside this the invariant pairs the step the
dashboard is at with what it holds (`DashControl`). `TermsVerifiedHolds`,
`RevealFoundHolds`, `SharedVerdictHolds`, `AuthSpentHolds` and `FrontendTypes`
follow. `RevealFound` speaks of a page that has a block pinned: with
`DEMO_REVEAL_BLOCK` 0 the page searches the latest blocks, where a reveal may
have been left behind.

**ExtensionProofs.** `EInv` says who is inside the lock in terms of where each
request is, which of the three servers has such a place at all, and what the
lock is for: the number a writer took is still the counter, and half a
snapshot is half of what the state is now. Of the TypeScript chain it says
that a link has started only if those before it have settled, and that no
number on it exceeds its counter; `NumberedInOrderHolds` follows by that.
`ServersImplementService` maps the counter of a writer that has counted but
not yet stored its text back by one, so that a greeting takes effect, counter
and text together, when the text is written, and a state read when its second
half is read.

**ClientsProofs.** A program that gave up leaves its transaction behind, and
the page may be submitted again before that one is mined; so `OwnStream` is
not inductive, and neither is the rest. `CInv` speaks of the transactions in
`pool` as much as of the programs. A transaction of its sender's present
attempt is the one the sender waits for (`Present`), and no two in the pool
are of the same attempt; hence a receipt is about the call the program is at.
A stream whose deposit is still to come, in the pool or from a program that
has yet to send it (`Pending`), was created by that program with the draft it
holds, has no deposit, and is waited for once. For the end-to-end script the
invariant carries what it has made sure of so far, and that its recipient, a
new account, has exactly what the script's one stream has paid. Each call is
shown to leave the ledger in order (`Effects`) and then, once for all of them,
the programs and the rest of the pool. `LedgerRefinement` has no transaction
to look into, so each mined call is a step of IdealStreams as it stands.

The settlement test needs a layer of its own, `SettleOK`, since it compares
differences of balances that other programs move as well. While it is under
way nothing but the refund of its own stream raises the employer's balance;
the stream has its deposit from the moment the receipt of `fund` was read; and
the cancellation it sent carries the authorization it holds. The sums it checks then leave no slack: what was paid
from its stream is at most the figure, by the employer's side, and at least
the figure as far as it is funded, by the contract's. So the stream is settled
at the lesser of figure and deposit, unconditionally (`SettledAtCapHolds`).
That this is the figure is a theorem under `DepositOutlasts`, which says of the constants what
the script says of its own ("solvent: 1 FXRP funds ~10 days"): the deposit lasts
for as long as the test may run. The constants of `clients` satisfy it, and
without it TLC finds a figure that outgrew its deposit.

**RegistrationProofs.** `FileTruth` says nothing of the run that will write the
file next, and `NothingSkipped` nothing of a transaction on its way, so neither
is inductive. `RInv` says it of everything a run holds: the progress in memory,
the call it waits for, a receipt it has and what it is about to save are on the
chain, or about an instruction that is, and issued since the registration
began. This survives whatever is mined late, because nothing on the chain is
taken back (`FactsKept`). A run that begins with a file has no such moment to
go by (`since` is 0): `FreshChallenge` does not keep a resumed run from an old
challenge, and only starting fresh makes sure of `Completes`. Of a run that
has failed `RInv` says nothing, yet its progress and its ids are still there;
`Names` says that each is the zero hash or an instruction of its kind, and with
it `RegistrationTypes` follows.

Only model-checked: liveness under fairness, out of the prover's reach:
`RecipientPaid`, `SpinnerResolves`, `PaidIfCallable`, `EventuallyCurrent`,
`EveryoneAnswered`, `Completes`. Every invariant and every action property of a passing
run is also a theorem.

## 5. Not modelled, and the plan

Modelled as relations, not as bytes: ABI encoding, ECIES, Keccak, ECDSA. A
token is an ERC20 that moves exactly the amount it is asked to, or fails. The
ciphertext and `startTime` that `createStream` takes are never read by the
contract.

Of the pages: layout, wording, the formatting of numbers, and the texts of a
form before they parse. A page's clock is the chain's. `fetchStreamsForRecipient`
has no caller. The scripts that generate keys and test vectors keep no state.

Not modelled: the rest of the deployment tools (extension and version
registration, the governance hand-over, the validation report) and
`InstructionSender`. They are single transactions or reads, decided by
registries and a proxy that are not in the repository, and StealthWage's own
path does not go through them. Of register-tee, the decoding of revert reasons
and the checks it makes before RegisterNode, which only end the run, are steps
of `Fail`.

Two exposures that no property covers. A token that delivers less than it is
asked for would make `funded` larger than what arrived. A stream whose terms
were sealed to a key the enclave does not have, or do not hash to the
commitment, can be neither withdrawn from nor settled: nothing on chain can
tell, and no way out is coded.
