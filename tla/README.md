# Backbook in TLA+

Backbook is a post-trade ledger for FX trades: a C++20 service that keeps its
books in memory, makes every accepted command durable in an append-only journal
before it answers, and rebuilds the books from the journal at each start; and a
React console that reads the books and sends commands. This directory holds
its TLA+ models, the TLC configurations that check them on small instances, and
theorems about the domain, settlement netting, the settlement calendar, the service with its
journal and its HTTP boundary, the journal file and the console that TLAPS checks for
all instances.

Paths below are relative to the repository (`src/domain/state.cpp`,
`web/src/App.tsx`). `PROJECT.json` maps every definition to the lines it models.

## 1. Inventory

| Component | Code | State it keeps | Operations |
| --- | --- | --- | --- |
| Values: ids, money, dates | `src/domain/{money,date}.cpp`, `id.hpp` | none | checked arithmetic, parsing |
| Business calendar | `business_calendar.cpp` | none | T+2, modified following |
| Trade lifecycle | `trade.cpp`, `lifecycle.cpp`, `fx_terms.cpp` | immutable trade versions, linked both ways | capture, apply, amend |
| Limit hierarchy | `limits.cpp` | reserved amount per node and currency | reserve, release on the four nodes of a path |
| Ledger | `ledger.cpp`, `posting_policy.cpp`, `ledger_totals.cpp` | entries of four postings, running totals | confirmation entry, reversal, totals |
| Settlement | `settlement.cpp` | none (derived) | bilateral netting of all settled trades |
| Domain state | `state.cpp` | trades, current versions, entries, index of confirmations, posting ids, totals, limits, obligations, version | book, confirm, amend, cancel, eod |
| Command evaluator | `src/service/command_evaluator.cpp` | none | command -> prospective state, event, result |
| Command service | `src/service/command_service.cpp` | snapshot, idempotency index, next sequence, mutex | execute, snapshot, create |
| Journal | `src/journal/{codec,replay,command_batch}.cpp` | none | encode, scan, replay |
| Journal store | `src/storage/journal_store.cpp` | the file, the writable flag | read all, append and flush, truncate |
| HTTP server, JSON codec | `src/server/{http_server,json_codec}.cpp` | none of the books | decode a command, execute it, answer or explain; read routes |
| Demo seed, start-up | `src/server/{demo,main}.cpp`, `demo/day1.jsonl` | none | create the service, run and verify the seed, listen |
| Console | `web/src/{App.tsx,use-backbook.ts,polling.ts,api-client.ts}` | last coherent snapshot, connection, pending envelopes | poll, refresh, submit, retry |

How they interact. A request thread of the HTTP server decodes a command and
calls `execute`, which holds one mutex from its first check to its answer:
idempotency index, store flag, evaluation against the current snapshot, append
and flush, publication. The evaluator hands the snapshot to a domain operation,
which returns a complete new state or an error and changes nothing. Readers load
the published snapshot atomically and never take the mutex. At a start the store
is read, scanned, cut off at the first frame that by its header ends behind the end of
the file, and replayed through the same domain operations. The console sends three reads per
refresh and shows them only when they carry the same version and fingerprint.

What is hard:

- *Agreement inside one state.* Nine fields describe the same business from
  different sides. A command updates several of them, and a mistake shows only
  several commands later, as a reservation that cannot be released, a reversal of
  the wrong entry, or an obligation counted twice.
- *Width.* Amounts have 64 bits. Pay legs are bounded by limits, receive legs by
  nothing; netting must survive sums on the way that do not fit, and versions and
  sequences must stop at their largest value.
- *Commit.* The append is the commit point. A crash or a failure around it leaves
  nothing, a torn frame or a whole frame, and the client without an answer.
- *Threads.* Commands race for headroom and for command ids; readers load while a
  command commits.
- *Lost answers.* The console gives up after five seconds and retries, while
  polling, refreshes and commands overlap.

What makes each part correct:

- lifecycle: versions of a trade are 1..n, linked, one of them current, final
  ones final;
- limits: at every node exactly the pay legs of the confirmed versions below it;
- ledger: every confirmation entry as prescribed, reversed exactly once when its
  version ends, posting ids unique, account balances those of the live versions;
- settlement: obligations are the signed nets of all settled versions;
- service: one effect per command id, answers durable, readers see only durable
  states and never go back, the journal always recovers to the states that were
  published;
- HTTP: what reaches the service is a command of the domain, and a status tells a
  client whether its command took effect; every request is answered;
- start: a demo listens in its documented state or not at all;
- calendar: dates are those the market conventions define, at month ends too;
- console: one state on the screen, never an older one, nothing locked for good, one
  effect per end of day however often it is retried.

## 2. Modules

| Module | Models | State |
| --- | --- | --- |
| `Outcome` | `Outcome<T, E>` and its early returns, `std::map` updates | - |
| `FxTrade` | trade values, transition table, amendment | - |
| `Limits` | reserve and release with their errors | - |
| `Ledger` | postings, entries, reversal, totals with width checks | - |
| `Settlement` | the netting accumulator and the derivation | - |
| `Domain` | the five operations of `StateOperations`, each as `...Error` and `...Result` | - |
| `Backbook` | the domain as a state machine, its properties | `state` |
| `DataLemmas` | lemmas on finite sums, on sets that have a smallest element, and on sequences | - |
| `DomainProofs` | lemmas on the operations: fields, versions, ledger, balances, netting | - |
| `BackbookProofs` | theorems about `Backbook` | - |
| `Netting` | the loop of `derive_bilateral_settlements`, trade by trade | `fed`, `nets` |
| `NettingProofs` | its theorems | - |
| `CommandEvaluator` | `evaluate_command`; `apply_event` and `result_matches` of replay | - |
| `JournalStore` | file, scan, truncation, what a failed append leaves | - |
| `JournalFrames` | the frame layout, the scan over it, damage; checked to agree with `JournalStore` | `bytes`, `open`, `written`, `damage` |
| `JournalFramesProofs` | its theorems | - |
| `CommandService` | threads, mutex, commit, crash, recovery; composes the three above and refines `Backbook` | see module |
| `ServiceProofs` | theorems about `CommandService`, with the refinement of `Backbook`, about `HttpServer` and about `ForeignJournal` | - |
| `HttpServer` | the command and read routes on the service's threads, the checks on a document, errors as problems | `http` and the service's |
| `ForeignJournal` | the journals a server may be started on without having written them, and what `create` must make of them | as `HttpServer` |
| `Demo` | `run()` of `main.cpp`, the shipped seed and limits, `verify_canonical_demo` | `startup`, `demo`, `report` and the service's |
| `BusinessCalendar` | the loops of T+2 and of modified following, one iteration per step | the loop variables |
| `BusinessCalendarProofs` | its theorems | - |
| `Polling` | `startVisibilityAwarePolling` for any kind of refresh | timer, visibility, failures |
| `Console` | `use-backbook.ts`, `api-client.ts` and the end-of-day button, over `Polling`, in front of a reduced service | see module |
| `ConsoleProofs` | theorems about `Console` and `Polling` | - |
| `MC...` | small instances of the module they are named after | - |

An operation `f` of the code that returns an `Outcome` is two operators:
`fError(args)` is the first check of `f` that fails, in the order of the code and
chained with `??`, or `Ok`; `fResult(args)` is the value returned when it is `Ok`.
A state value is a record with the fields of `State`; a map is a function on the
keys it holds. An action of `Backbook` is one accepted command. A rejected one
changes nothing, because an operation works on a copy that is dropped.

`CommandService` splits `execute` where another actor, or the end of the process,
can come between: the checks up to the append (`AnswerAgain`, `Refuse`,
`BeginAppend`), the append (`AppendSucceeds`, `AppendFails`), the publication
(`Publish`) and the return. The checks read only what the mutex protects, so
acquiring it and making them is one step; `MutexIsFree` is the lock. `Create` is
`recover_journal` and the validation of requests (which comes second, so that a file whose
requests are refused has been cut), `ReplayBatch` one round of the
replay loop, `FinishRecovery` the rest of `create`. `Crash` is possible in every
step of both; if it strikes during an append it leaves one of the three possible
files. `past` is auxiliary: the states the journaled commands produced when they
were executed. No guard reads it.

`HttpServer` and `Demo` extend `CommandService` and take its actions: `CallWith` with
the envelope of a decoded document or of a seed line, `Work` for the inside of
`execute`, `Return` with what becomes of the answer. `HttpServer` keeps a document
member by member: a member is missing, of a value no parser takes (`Bad`), or of a value
in the set its parser accepts (`Parses`), and `DocumentFits` is what
`decode_command_request` accepts of the whole. A refused request changes nothing but
the response of its thread. `Demo` runs with the real identifiers, amounts and limits;
amounts are in units of 125 minor units, which divide all of them. `ForeignJournal` has the
actions of `HttpServer` and other initial states: the file is any sequence of torn frames,
of corrupt ones, and of frames whose payload decodes, with no field compared to another yet
(`IsBatch`). `past` starts as the states of replaying what a scan reads of it.

`Console` has one operator per step between two turns of the browser's event loop:
every read is answered on its own, `RefreshEnds` is the rest of `refreshOnce` and of
whoever awaits it. The service behind it is what the other modules show of it:
versions that rise with every effect, and one effect per command identifier. A request
that timed out stays in `inbox`, where it may still be executed or lost.

Abstractions: identifiers are model values; dates are numbers; the instrument kind and trade
date, which no operation looks at, are left out; canonical bytes are represented by the request
they encode, being injective in it; to the service a frame is whole, torn (it
ends behind the end of the file, or its header does) or corrupt, and `JournalFrames` shows that
the scan takes every damaged file as one of such frames: it reads up to the first that is not
whole, and takes the file for torn or for corrupt as that frame is; encoding does not fail, as identifiers are at most
64 bytes and an accepted command is one event. Beside some definitions stands a mutated form of
it, marked *mutant*: an operator that no specification uses, which records a plausible mistake
there and which property notices it (`PROJECT.json`, `mutants`).

## 3. Runs

| Run | Configuration | Question |
| --- | --- | --- |
| `backbook` | `MCBackbook.cfg` | Do all parts of the state agree after every sequence of commands? |
| `netting` | `MCNetting.cfg` | Is the accumulator exact in every order of arrival? |
| `race` | `MCRace.cfg` | Do two threads, failures and crashes leave the journal with steps of the domain only, and readers with durable states only? |
| `http` | `MCHttp.cfg` | Is every command journaled once, and the journal recovered, under retries, conflicts and crashes, and does its status say what happened? |
| `foreign` | `MCForeignJournal.cfg` | Which journals does a start accept, what are its promises worth on them, does every request get its answer, and does every recovery end? |
| `demo` | `MCDemo.cfg` | Does a demo listen only in the state it is documented with? |
| `frames` | `MCFrames.cfg` | What does recovery make of every torn and damaged file? |
| `damage` | `MCDamage.cfg` | Is only the final frame ever cut off? It is not (finding below). |
| `calendar` | `MCBusinessCalendar.cfg` | Are settlement dates the ones their definitions name? |
| `refreshes` | `MCConsoleRefreshes.cfg` | What do overlapping refreshes leave on the screen, and does it catch up? |
| `console` | `MCConsole.cfg` | What do lost, late and repeated ends of day do, and do they end? |
| `kept` | `MCConsoleKept.cfg` | Does an end of day reported as done settle what was due? It does not (finding below). |

`backbook` checks, besides types: `VersionChain`, `ReservedIsConfirmedPay`,
`EvaluatorChecksPass` (so `InvariantViolation` is never a reply),
`PostingIdsAreUnique`, `ConfirmationsAreIndexed`, `ReversedExactlyOnce`,
`LedgerMirrorsBlotter` (per account, as if superseded and cancelled versions had
never been posted), `SettlementsAreNets`, `ConfirmedTradesAreNeverStranded` (the
internal failures of cancel never happen, and an end of day fails only when a net
is too wide) and the action property `HistoryIsKept`. `netting` checks
`ObligationsAreExact` and that a sum on the way never refuses an end of day
(`OverflowOnlyOfFinalNet`).

`race` checks `PublishedIsCommitted`, `ReadsMoveForward` and the refinement
`ImplementsDomain`: under the mapping `state <- Committed` (the state of the whole
journal) every step of the service is a step of `Backbook` or a stutter. A restart after
a failed append that had in fact completed the frame makes a command visible that its
client was told was not accepted (`JournalUnavailable`); the properties hold with that
case included, and a retry then gets the first result.

`http` checks, through the HTTP boundary, `CommandsAreJournaledOnce`, `OwnJournalRecovers`,
`JournalOnlyGrows`, the types, and `StatusTellsOutcome`, what a client may conclude from a
status: 200, the command is in the journal with that result; 503, not known, and no command is
taken until a restart; `IDEMPOTENCY_CONFLICT`, another request has the identifier; anything
else, nothing is journaled under it.

`foreign` starts the same server on journals of one trade's life, on journals that are
wrong in one thing each (a sequence, an identifier, a request, an event, a field of an
answer), and on ones with a torn or a corrupt frame before, between or behind whole ones.
`AcceptanceIsExact` says that what it serves is what commands
executed in order could have left (`CouldBeOwn`: their events, answers, identifiers and
sequences) and that what it refuses, unless the store fails, is not, or has a corrupt frame
where the scan gets to. What it serves is what the scan reads: a torn frame with whole ones
behind it is a raised length, and is served without them, as the run `damage` shows of the code. Execution computes an
answer and replay looks up whether a stored one fits, so this compares two pieces of code.
`AcceptedIsTrusted` says that from then on the promises hold that hold of the service's own
journal: a success is in the journal with its answer (`AcceptedIsJournaled`), the
published state is a journaled one (`PublishedIsCommitted`), a restart never refuses
(`OwnJournalRecovers`) and replays the states of execution (`ReplayReproduces`).
`NoRequestIsForgotten` is checked under fairness.

`demo` checks `DemoStartsCanonical`: a start fails only for the store or the seed file,
whatever crashed before, and the journal holds the accepted lines of the seed in order,
all of them once the server listens.

`frames` checks that recovery returns a prefix of what was written under any damage
(`OnlyWrittenIsRecovered`), that appends always start behind a whole frame
(`OpenIsWhole`), that damage is reported as long as the frame lengths are right
(`ChecksummedDamageIsReported`), and that on every file, damaged or not, torn at its end or
by a raised length in its middle, the scan does what
`JournalStore`, and so `CommandService`, says (`ScanIsTheStores`). A file is a
sequence of cells (magic with version, length, payload bytes, checksum), a checksum
matches no data but its own, and `written` is auxiliary.

`calendar` compares both functions with their definitions: the nearest joint business
day after the date in its month, else before it, else an error
(`AdjustmentIsModifiedFollowing`), and the second joint business day after the trade
date (`TPlusTwoIsExact`).

`refreshes` checks `SnapshotIsCoherent`, `DashboardMovesForward`,
`RefreshingMeansRunning` (the status that disables the buttons is cleared, also when the
refresh that set it was superseded), `PollingNeverStalls` and the liveness property
`CatchesUp`. `console` checks `ReadYourWrites`, `RetryHasOneEffect`,
`AcknowledgedEodSettlesFirstDue` and that a command ends (`WriteEnds`).

Two runs are expected to fail:

- `damage`. The length of a frame is not covered by its checksum. If it is raised (below
  `maximum_payload_length`) in a frame that is not the last one, and now reaches past
  the end of the file, `scan_journal` takes it for a torn tail, and `recover_journal`
  cuts off this frame and the whole ones behind it. `docs/code-tour.md` line 224 says that
  recovery truncates only an incomplete final frame. A truncated file is still a journal
  that starts, with fewer commands in it.
- `kept`. `runEod` keeps its envelope until a success and keys it by the date alone. If
  the answer of an end of day that was executed is lost, and another trade of that date
  is confirmed before the button is pressed again, the kept envelope is sent, answered
  from the idempotency index and reported as a success, while the new trade stays
  unsettled until the button is pressed once more.

Bounds, and why they suffice:

- `backbook`: two trades, two netting sets under one counterparty, one book, two
  currencies, two dates, `MaxMinor` 4, trade versions to 2, state versions to 6,
  four blocks of posting ids, and for each a tuple that repeats an id. Six commands book,
  confirm, amend, cancel and settle two trades with one change left over; longer
  chains of amendments are covered by the theorems. Two JPY receive legs of 3 overflow a
  bucket of 4 unless they net; capacities are tight at different levels, and JPY may be
  paid in one netting set only, so `Breach` and `UnknownNode` occur at inner levels.
- `netting`: up to five trades (`MaxTrades`), amounts 1..3 against a width of 4,
  so sums on the way reach 15.
- `race`, `http`: two threads, sequences (and state versions) to 4 and 3. A third
  thread would only wait: at most one is past the lock. Nothing else bounds the
  runs; crashes, failures and retries are unlimited. `http` has seven commands on one
  trade, four of them under one identifier, and twelve requests that are refused before
  the service, each for a reason of its own.
- `foreign`: seven journals the service could have written, seventeen it could not have,
  twelve with a torn or corrupt frame, first, in the middle or last, of up to three batches; two commands, both in most of the journals,
  and one refused document. The state space is searched for cycles, so threads are not
  symmetric.
- `demo`: the eight lines of the seed, one thread besides `main`, crashes and restarts
  with and without `--demo` at any point, state versions to 20.
- `frames`, `damage`: three and two frames of one or two payload bytes, two and one damaged
  cells (`MaxDamage`), lengths to 9, `MaximumPayload` 8: a damaged length may stay inside
  its frame, reach into the next ones, past the end of the file, or be refused. Appends
  stop at any cell and recoveries are unlimited.
- `calendar`: seven dates in three months, the first and the last of the same name and
  at an end of the range, one weekend day, every pair of calendars.
- `refreshes`: two commits of another client, the poll and one press of the button at a
  time (`Buttons`), two reads, which can disagree as three do, backoff to exponent 1.
- `console`, `kept`: two trades of one date, two command identifiers (`MaxCommands`):
  one lost, one repeated. `console` takes one read per refresh, as its properties do not
  depend on reads that disagree; `kept` takes two.

Posting-id blocks, threads and trades are symmetric where a cfg says so: all are used
alike and no property names one; runs with liveness use no symmetry.
`CHECK_DEADLOCK FALSE` stands only where the bound on state versions or trades makes the
model stop, where a behaviour is one call (`calendar`), and in `frames` and `damage`, where
a journal whose damage is reported is never opened again.

Fairness. `HttpFairness`, part of `ForeignHttpSpec`: a thread that can take a step inside
`execute`, answer or send its response does (weak fairness, per thread), and a replay goes on;
an append returns, well or not, as the operating system's write does. Nobody has to send a
request or start the process. `std::mutex` is not fair, so a thread may be overtaken; in the
instance it is overtaken only for commands that are journaled, which the sequence width bounds.
`FairSpec` of `Console`: a read ends, at the latest with its timeout, promises whose reads are
over and timers that are due run, a request that reached the service is answered. Nothing is
assumed of people, of other clients, or of the network: `CatchesUp` asks for a network that
eventually works and a page that stays visible.

## 4. What is proved

Every theorem holds for every value of the constants: any number of trades,
counterparties, currencies and dates, any widths and capacities; any number of threads,
commands, crashes and failed appends, on any journal; any payloads, number of frames and damage; any
range of dates and any holidays; any number of reads, overlapping refreshes and ends of
day.

| Module | Theorem | Property, always or of every step |
| --- | --- | --- |
| `BackbookProofs` | `DomainInvariant`, `BooksInvariant` | `Inv`, `BooksInv(state)`: the inductive invariants |
| | `TypeCorrect` | `TypeOK` |
| | `ChainsAreSound` | `VersionChain` |
| | `LimitsHold` | `BalancesHold(state)` |
| | `PostingsAreIdentified` | `PostingIdsAreUnique` |
| | `ConfirmationsAreFound` | `ConfirmationsAreIndexed` |
| | `HistoryPreserved` | `HistoryIsKept` |
| | `ReservationsAreExact` | `ReservedIsConfirmedPay` |
| | `EvaluatorAlwaysPasses` | `EvaluatorChecksPass` |
| | `ReversalsAreExact` | `ReversedExactlyOnce` |
| | `LedgerIsTheBlotter` | `LedgerMirrorsBlotter` |
| | `NothingIsStranded` | `ConfirmedTradesAreNeverStranded` |
| | `SettlementsAreExact` | `SettlementsAreNets` |
| `NettingProofs` | `NettingInvariant` | `NettingInv`: the inductive invariant |
| | `NettingIsExact` | `ObligationsAreExact` |
| | `OnlyFinalNetsOverflow` | `OverflowOnlyOfFinalNet` |
| `ServiceProofs` | `ServiceInvariant` | `Inv`: the inductive invariant |
| | `ServiceTypes` | `TypeOK` |
| | `NothingIsJournaledTwice` | `CommandsAreJournaledOnce` |
| | `SuccessIsDurable` | `AcceptedIsJournaled` |
| | `PublicationFollowsCommit` | `PublishedIsCommitted` |
| | `RecoveryNeverRefuses` | `OwnJournalRecovers` |
| | `ReplayIsExecution` | `ReplayReproduces` |
| | `JournalIsAppendOnly` | `JournalOnlyGrows` |
| | `ReadersMoveForward` | `ReadsMoveForward` |
| | `JournalImplementsDomain` | `ImplementsDomain`, the refinement of `Backbook` |
| | `DecodedIsACommand` | a decoded document is in `Commands` |
| | `BoundaryIsTheService` | `HttpSpec => Spec`: the boundary has all theorems of the service |
| | `StatusIsTheOutcome` | `StatusTellsOutcome` |
| | `AnyJournalIsVetted` | `ForeignInv`: the inductive invariant from any journal |
| | `RecoveryIsExact` | `AcceptanceIsExact` |
| | `ServedIsTrusted` | `AcceptedIsTrusted` |
| | `NothingReadIsLost` | on any file, no step changes or removes a frame that the scan reads |
| | `AnyJournalIsAppendOnly` | `JournalOnlyGrows` of `ForeignSpec`, on files with `NothingWholeIsCut` |
| | `AnyReaderMovesForward` | `ReadsMoveForward` of `ForeignSpec` |
| | `StatusIsTheOutcomeAnywhere` | `StatusTellsOutcome` of `ForeignHttpSpec` |
| `JournalFramesProofs` | `JournalInvariant` | `JournalInv`: the inductive invariant |
| | `NothingIsInvented` | `OnlyWrittenIsRecovered` |
| | `OpenJournalIsWhole` | `OpenIsWhole` |
| | `DamageIsReported` | `ChecksummedDamageIsReported` |
| | `ScanRefines` | `ScanIsTheStores` |
| `BusinessCalendarProofs` | `CalendarInvariant` | `IInv`: the loop invariants |
| | `AdjustedDatesAreExact` | `AdjustmentIsModifiedFollowing` |
| | `SettlementDatesAreExact` | `TPlusTwoIsExact` |
| `ConsoleProofs` | `ConsoleInvariant` | `ConsoleInv`: the inductive invariant |
| | `PollingGoesOn` | `PollingNeverStalls` |
| | `SnapshotsAreOneState` | `SnapshotIsCoherent` |
| | `ButtonsAreNotLocked` | `RefreshingMeansRunning` |
| | `WritesAreRead` | `ReadYourWrites` |
| | `PageMovesForward` | `DashboardMovesForward` |
| | `RetriesHaveOneEffect` | `RetryHasOneEffect` |
| | `AcknowledgedEodIsDone` | `AcknowledgedEodSettlesFirstDue` |

Assumptions are the named ones of the modules: widths are positive, dates are numbers,
capacities stand at nodes of the hierarchy, fit the width and are not negative
(`LimitHierarchy::create` refuses others), `NoPosting` is not an id, clients send well-typed
inputs, the commands of the documents a server accepts are among those its service is sent
(`AcceptedAreSent`), a server that has not written its journal is started on a
sequence of frames that decode, torn and corrupt frames (`JournalsAreFrames`), delays are positive, a refresh has the read of the
state among its reads, and the refreshes of the button are not those of the poll or of a
command.

**The domain.** None of its properties is inductive alone. That an amendment reverses the
right entry needs the index to be sound, which needs entries never to move, which needs
posting ids to be handled together with them; that `Put` at the current version
leaves the chain alone needs the chain. `Inv` is `DomainInv(state)`: the fields and
their types, the version chain, ledger entries with their ids and totals, the
domain and range of the confirmation index and what it points at, balances
within capacity, and obligations well-typed. The argument goes operation by operation: `...Accepted`
says what a command that passed its checks is known to satisfy,
`...Fields` lists the fields of its result, `...Keeps` derives `DomainInv` and
`HistoryKept` of the result; `StepKeeps` joins the five, and PTL does the rest.
The proofs are at constant level, about state values, so that modules which keep states in
other variables can use them.

**The balances.** `BooksInv` says of a state that satisfies `DomainInv` that reserved
amounts, running totals and the balance of every account are sums over trades or entries,
and how often each posted version is reversed. Confirm, cancel and amend are made of two
kinds of step, a version that enters the books and one that leaves them, and each sum is
shown to survive either; an end of day moves versions from one side of a sum to the other.
`SumFunction` is a fold, defined by recursion over a set in an order that `CHOOSE` fixes.
`DataLemmas` has the induction this needs without an induction theorem: a set of counterexamples,
if not empty, has a smallest element (strict inclusion is well founded on a finite set), and
a smallest counterexample contradicts the recursion. The same argument gives what the
recursions of `Backoff`, of the netting and of the scan compute.

**The netting.** `Exact(net, v)` says that an accumulator stands for the signed number v: its
stack adds up to the magnitude of v and its direction is the sign, with an empty stack for zero.
The loop of `CancelAgainst` keeps the stack minus what is left of the arriving amount, so
`AddCashflow` adds the signed amount to v, whatever was stacked before. It follows for a trade,
for any sequence of trades and for all buckets at once (`DerivationIsExact`); a derivation fails
if and only if a final net is too wide. `SettlementsAreNets` needs two more facts: the
sequence the derivation runs over has every settled version once, and a sum does not depend on
its order (`SumReorders`); and the commands between two ends of day neither add, change nor
remove a settled version. Its invariant is `NetsInv`, the domain's with `Netted`.

**The service.** `Inv` says that there is a number n such that `InvAt(n)`: the published state
is the n-th after the initial one in `past`, with the index and the sequence that the first n
batches of the journal make. While the service runs the journal is that prefix or has one batch
more, whose append a thread has completed and not yet published, or which a failed append left
behind. Journal and `past` fit, each batch leading from one of its states to the next by a step
of the domain. At most one thread is past the lock, and what it is about to append leads on from
the last state; an answered thread that holds a success has its batch in the journal. A replay
holds the state of the batches it has passed. The steps are taken one by one, with the domain's
lemmas for evaluation and replay. For the refinement, `Ledgered` is the instance of `Backbook`
under `state <- Committed`: its operators do not depend on the variable, so they are shown to be
those of `Domain`, and an append is then a step of `Backbook` and everything else a stutter.

**The HTTP boundary.** `DecodedIsACommand` goes type by type through the decoder; no
assumption about requests is used in it. A request that is refused, and what becomes of an
answer, leave the service alone, so `HttpSpec` implements `Spec`. Four steps answer a request,
and each tells the outcome for a reason of its own: an identifier in the index is journaled,
once, with the record the index has (`AnswerAgain`); while the store takes commands and the
mutex is free, everything journaled is published, so what the index does not know is not
in the journal (`Refuse`); a failed append may have left its frame, and closes the store
(`AppendFails`); the published batch is the last one of the journal (`Publish`).

**Any journal.** `ForeignInv` is `Undecided \/ Inv`: either no start has accepted all of the
file, and then a replay has the state of the batches it has passed and has found each of them a
command with its answer, or the service is where its own journal would have brought it. The step
from one to the other is the end of a recovery, and everything proved from `Inv` holds behind
it. What is decided is about the frames that the scan reads (`ReadsAs`); that a start, which may cut
whole frames behind them, leaves these and their reading as they were is `ScanIsCut`. Hence
`NothingReadIsLost` on any file; that no whole frame at all is lost (`JournalOnlyGrows`) is
proved without a condition for the service's own journal, where a torn frame is always the last
one, and for others only if no whole frame stands behind the torn one (`NothingWholeIsCut`).
`AnyBoundaryIsTheService` carries the theorems over to the HTTP boundary
(`ForeignHttpSpec`), which the run checks. That acceptance forces execution is the heart of it
(`MatchIsAnswer`): a stored answer that fits the state after the event is the answer the
evaluator would have computed, though replay only looks for a trade of that version and state;
an event with version 0, which decodes but is no command, is refused by the domain
(`VersionZeroIsRefused`), as no trade has that version; and the evaluator's own checks never
fail on a state that commands have reached (`EvaluatorPasses`). That a journal of executed
commands is never refused is the converse, with the lemma by which a service recovers its own
journal (`AnswerMatches`). `Inv` requires of a journaled request only what a recovery can tell
of it, its identifier and its kind, since a start cannot know that the event came from another
request of that kind.

**The journal file.** `JournalInv` describes the file position by position: s[k] is where
frame k + 1 starts; every cell keeps the field it was written as, whatever damage made of its
contents; a checksum matches its own payload or no data; behind the frames there is the
beginning of one, or nothing; and with no damage every cell is as written. The scan is a
recursive function of the offset. That it has a value at every offset, and what it returns at
the start of a frame, is shown from the end of the file backwards: the largest offset where it
fails cannot exist, because the scan from there is one step and a scan from a larger offset.
That an open file is the encoding of its frames uses that the recursion of `FlattenSeq` has one
solution.

**The calendar.** A loop invariant per loop: while
counting, the joint business days passed since the trade date are none, one, or two with
the last one reached; while searching forward, all days from the given date to the one
reached are closed and of its month; while searching backward, so are those below it, and
every later day of the month is closed. That a second joint business day never needs the
adjustment is a step of the proof, not an assumption. Nothing is assumed of the months: two
separate runs of days may bear one name, as the months of two years do.

**The console.** `ConsoleInv` has three parts. `PollInv` is the poll loop. `PageInv(h)` says, of
a function h that has the state of each version the service ever published, that every
answer a refresh holds and what is on the screen are states of h, and that the answers of
the refresh with the current request sequence are at least as new as the screen and as the
last accepted command: without the second half, neither `ReadYourWrites` nor
`DashboardMovesForward` survives the end of a refresh. Equal versions mean equal states because
both are values of h. `WriteInv` says which commands the service may know of: identifiers
were drawn in order, two neighbours with one date only if the page was told of the first,
the kept envelope has the last identifier, only the request of the busy command is awaited,
and a kept envelope that was executed has settled its due trades.

## 5. What is only model-checked, and what is not modelled

With TLC stay: the liveness properties (`NoRequestIsForgotten`, `CatchesUp`, `WriteEnds`), as
the prover handles neither fairness nor `ENABLED`; and `DemoStartsCanonical`, which is about
one seed and its real amounts, so that a run covers it. The
properties that two runs expect to fail are refuted by TLC's counterexamples. Induction theorems
that take an operator cannot be used by the prover; every recursion met so far was
handled by a smallest (or largest) counterexample instead.

Not modelled, and why:

- The bytes inside a payload (`codec.cpp`; which batches they decode to is `IsBatch` of
  `ForeignJournal`, where a request has the right form or its journal is not considered), of
  canonical requests (`command.cpp`) and of the state export (`fingerprint.cpp`): the models
  compare the values themselves, that is, they take encodings to be injective. The frames around
  payloads are modelled (`JournalFrames`).
- Texts: identifiers, numbers and dates as strings (`id.hpp`, `money.cpp`, `date.cpp`; of the
  leaf parsers of `json_codec.cpp` the values they accept are modelled, not the spelling),
  bodies of responses, wording of problems.
- Static files, `/healthz`, unknown routes and the HTTP library; command-line options and
  the search for the seed and the page; the fingerprint a demo is verified with.
- In the console: the delay between a state update and its rendering, unmounting, the
  displayed error, and the dialogs, which draw a command identifier per draft and use the
  same `execute` as the button; the components that only render.
- Two server processes on one journal file: the code takes no file lock, and its
  documentation describes one server per journal.

## 6. Plan

Done: the domain (values, operations, state machine), the netting, the service with
journal, crash and recovery and the proof that it implements the domain, the frames of the
journal file, the HTTP boundary, the start with the demo, the calendar and the console, with
the proofs of section 4; and recovery of journals the service did not write.

1. The payload codec and canonical requests byte by byte: that decoding inverts
   encoding and that no two values share an encoding.
2. `Money` and `IsoDate`: checked arithmetic and the civil calendar against reference
   definitions.
