------------------------------- MODULE Domain -------------------------------
(***************************************************************************)
(* The domain state and its five operations (src/domain/state.cpp), and    *)
(* the evaluation of a command against a state                             *)
(* (src/service/command_evaluator.cpp).                                    *)
(*                                                                         *)
(* An operation takes a state value and returns a complete prospective     *)
(* state or an error; it never changes the state it was given.  The        *)
(* modules that hold a state in a variable build their actions from these  *)
(* operators: the domain as such in Backbook.                              *)
(***************************************************************************)
EXTENDS Limits, Ledger, Settlement

CONSTANT MaxStateVersion     \* 2^64 - 1 in the code

ASSUME StateVersionWidth == MaxStateVersion \in Nat \ {0}

TradeVersionKeys == TradeIds \X Versions

EmptyMap == [k \in {} |-> 0]

(* State::State: everything empty, nothing reserved.                       *)
InitialState ==
  [version |-> 0, trades |-> EmptyMap, currentVersions |-> EmptyMap,
   ledgerEntries |-> <<>>, confirmationEntries |-> EmptyMap,
   postingIds |-> {}, ledgerTotals |-> ZeroTotals,
   limits |-> NothingReserved, settlements |-> {}]

CurrentTrade(s, id) == s.trades[<<id, s.currentVersions[id]>>]

(* current_trade finds nothing for an unknown id, nor for a current version *)
(* that is not there.                                                      *)
RequireCurrentError(s, id, expectedVersion) ==
     Fail(\/ id \notin DOMAIN s.currentVersions
          \/ <<id, s.currentVersions[id]>> \notin DOMAIN s.trades,
          "TradeNotFound")
  ?? Fail(CurrentTrade(s, id).version # expectedVersion, "VersionConflict")

AppendEntryError(s, entry) ==
     Fail(EntryIds(entry) \cap s.postingIds # {}, "DuplicatePostingId")
  ?? Fail(~SumFits(s.ledgerTotals, entry), "LedgerTotalsFailure")

(* Mutant of AppendEntry: the newest entry comes first.                    *)
PrependEntry(s, entry) ==
  [s EXCEPT !.postingIds = s.postingIds \cup EntryIds(entry),
            !.ledgerTotals = TotalsWith(s.ledgerTotals, entry),
            !.ledgerEntries = <<entry>> \o s.ledgerEntries]

AppendEntry(s, entry) ==
  [s EXCEPT !.postingIds = s.postingIds \cup EntryIds(entry),
            !.ledgerTotals = TotalsWith(s.ledgerTotals, entry),
            !.ledgerEntries = Append(s.ledgerEntries, entry)]

AdvanceUnchecked(s) == Ok            \* mutant of AdvanceVersionError

AdvanceVersionError(s) == Fail(s.version = MaxStateVersion, "StateVersionOverflow")

AdvanceVersion(s) == [s EXCEPT !.version = s.version + 1]

-----------------------------------------------------------------------------
BookTradeError(s, c) ==
     Fail(c.tradeId \in DOMAIN s.currentVersions, "DuplicateTradeId")
  ?? AdvanceVersionError(s)

BookTradeResult(s, c) ==
  LET captured == Capture(c.tradeId, c.path, c.terms)
      next == [s EXCEPT
                 !.trades = Emplace(s.trades, <<c.tradeId, 1>>, captured),
                 !.currentVersions = Emplace(s.currentVersions, c.tradeId, 1)]
  IN  AdvanceVersion(next)

-----------------------------------------------------------------------------
ConfirmTradeError(s, c) ==
  LET current == CurrentTrade(s, c.tradeId)
      confirmed == Apply(current, "ConfirmTrade")
      entry == ConfirmationEntry(confirmed, c.postingIds)
  IN     RequireCurrentError(s, c.tradeId, c.expectedVersion)
      ?? ApplyError(current, "ConfirmTrade")
      ?? ReserveError(s.limits, current.path, current.terms.pay)
      ?? ConfirmationEntryError(confirmed, c.postingIds)
      ?? AppendEntryError(s, entry)
      ?? AdvanceVersionError(s)

ConfirmTradeResult(s, c) ==
  LET key == <<c.tradeId, c.expectedVersion>>
      current == s.trades[key]
      confirmed == Apply(current, "ConfirmTrade")
      entryIndex == Len(s.ledgerEntries) + 1
      next == [s EXCEPT
                 !.limits = Reserve(s.limits, current.path, current.terms.pay),
                 !.trades = Put(s.trades, key, confirmed),
                 !.confirmationEntries =
                    Emplace(s.confirmationEntries, key, entryIndex)]
  IN  AdvanceVersion(
        AppendEntry(next, ConfirmationEntry(confirmed, c.postingIds)))

-----------------------------------------------------------------------------
(* Amend tests the replacement against the headroom left after releasing   *)
(* the old reservation; the reversal is appended before the new            *)
(* confirmation entry, whose identifiers must therefore differ from it.    *)
AmendTradeError(s, c) ==
  LET key == <<c.tradeId, c.expectedVersion>>
      current == CurrentTrade(s, c.tradeId)
      released == Release(s.limits, current.path, current.terms.pay)
      replacement == Replacement(current, c.terms)
      original == s.ledgerEntries[s.confirmationEntries[key]]
      reversal == ReversalEntry(original, c.reversalIds)
  IN     RequireCurrentError(s, c.tradeId, c.expectedVersion)
      ?? Fail(current.state # "Confirmed", Illegal)
      ?? Fail(key \notin DOMAIN s.confirmationEntries, "MissingConfirmationEntry")
      ?? ReleaseError(s.limits, current.path, current.terms.pay)
      ?? AmendmentError(current)
      ?? ReserveError(released, replacement.path, replacement.terms.pay)
      ?? ReversalEntryError(original, c.reversalIds)
      ?? ConfirmationEntryError(replacement, c.postingIds)
      ?? AppendEntryError(s, reversal)
      ?? AppendEntryError(AppendEntry(s, reversal),
                          ConfirmationEntry(replacement, c.postingIds))
      ?? AdvanceVersionError(s)

AmendTradeResult(s, c) ==
  LET key == <<c.tradeId, c.expectedVersion>>
      current == s.trades[key]
      replacement == Replacement(current, c.terms)
      replacementKey == <<c.tradeId, replacement.version>>
      original == s.ledgerEntries[s.confirmationEntries[key]]
      replacementIndex == Len(s.ledgerEntries) + 2
      next == [s EXCEPT
                 !.limits = Reserve(Release(s.limits, current.path,
                                            current.terms.pay),
                                    replacement.path, replacement.terms.pay),
                 !.trades = Emplace(Put(s.trades, key, Superseded(current)),
                                    replacementKey, replacement),
                 !.currentVersions =
                    Put(s.currentVersions, c.tradeId, replacement.version),
                 !.confirmationEntries =
                    Emplace(s.confirmationEntries, replacementKey,
                            replacementIndex)]
  IN  AdvanceVersion(
        AppendEntry(AppendEntry(next, ReversalEntry(original, c.reversalIds)),
                    ConfirmationEntry(replacement, c.postingIds)))

-----------------------------------------------------------------------------
(* reversalIds is NoReversalIds when the command carries none.             *)
NoReversalIds == <<>>

CancelTradeError(s, c) ==
  LET key == <<c.tradeId, c.expectedVersion>>
      current == CurrentTrade(s, c.tradeId)
      original == s.ledgerEntries[s.confirmationEntries[key]]
  IN     RequireCurrentError(s, c.tradeId, c.expectedVersion)
      ?? ApplyError(current, "CancelTrade")
      ?? (IF current.state = "Captured"
          THEN Fail(c.reversalIds # NoReversalIds, "UnexpectedReversalIds")
          ELSE    Fail(c.reversalIds = NoReversalIds, "MissingReversalIds")
               ?? Fail(key \notin DOMAIN s.confirmationEntries,
                       "MissingConfirmationEntry")
               ?? ReleaseError(s.limits, current.path, current.terms.pay)
               ?? ReversalEntryError(original, c.reversalIds)
               ?? AppendEntryError(s, ReversalEntry(original, c.reversalIds)))
      ?? AdvanceVersionError(s)

(* Mutant of CancelTradeResult: the confirmation entry is not reversed.    *)
CancelWithoutReversal(s, c) ==
  LET key == <<c.tradeId, c.expectedVersion>>
      current == s.trades[key]
  IN  AdvanceVersion([s EXCEPT
        !.trades = Put(s.trades, key, Apply(current, "CancelTrade")),
        !.limits = IF current.state = "Captured" THEN s.limits
                   ELSE Release(s.limits, current.path, current.terms.pay)])

CancelTradeResult(s, c) ==
  LET key == <<c.tradeId, c.expectedVersion>>
      current == s.trades[key]
      original == s.ledgerEntries[s.confirmationEntries[key]]
      trades == Put(s.trades, key, Apply(current, "CancelTrade"))
      withdrawn == [s EXCEPT !.trades = trades]
      released == [s EXCEPT
                     !.limits = Release(s.limits, current.path,
                                        current.terms.pay),
                     !.trades = trades]
  IN  AdvanceVersion(
        IF current.state = "Captured" THEN withdrawn
        ELSE AppendEntry(released, ReversalEntry(original, c.reversalIds)))

-----------------------------------------------------------------------------
(* End of day settles every confirmed version whose value date has come.   *)

Eligible(s, asOf) ==
  {key \in DOMAIN s.trades : /\ s.trades[key].state = "Confirmed"
                             /\ s.trades[key].terms.valueDate <= asOf}

Charges(trade, limitKey) == limitKey \in PathKeys(trade.path, trade.terms.pay)

(* Mutant of Freed: it frees what comes in.                                *)
FreedReceive(s, keys, limitKey) ==
  LET charged == {key \in keys : Charges(s.trades[key], limitKey)}
  IN  SumFunction([key \in charged |-> s.trades[key].terms.receive.amount])

(* The versions are released one after the other; as amounts are positive, *)
(* every release succeeds exactly when the amounts together are reserved.  *)
Freed(s, keys, limitKey) ==
  LET charged == {key \in keys : Charges(s.trades[key], limitKey)}
  IN  SumFunction([key \in charged |-> s.trades[key].terms.pay.amount])

ReleaseAllError(s, keys) ==
     Fail(\E key \in keys : LET t == s.trades[key]
                            IN  ~ PathKeys(t.path, t.terms.pay) \subseteq LimitKeys,
          "UnknownNode")
  ?? Fail(\E k \in LimitKeys : Freed(s, keys, k) \notin 0..s.limits[k],
          "ReleaseExceedsReservation")

ReleaseNone(s, keys) == s.limits     \* mutant of ReleaseAll

ReleaseAll(s, keys) == [k \in LimitKeys |-> s.limits[k] - Freed(s, keys, k)]

SettleAll(s, keys) ==
  [key \in DOMAIN s.trades |->
     IF key \in keys THEN Apply(s.trades[key], "RunEod") ELSE s.trades[key]]

SettledTrades(trades) ==
  LET keys == SetToSeq({key \in DOMAIN trades : trades[key].state = "Settled"})
  IN  [i \in DOMAIN keys |-> trades[keys[i]]]

RunEodError(s, c) ==
  LET keys == Eligible(s, c.asOf)
      settled == SettledTrades(SettleAll(s, keys))
  IN  IF keys = {} THEN Ok
      ELSE    ReleaseAllError(s, keys)
           ?? Fail(\E key \in keys : ApplyError(s.trades[key], "RunEod") # Ok,
                   Illegal)
           ?? SettlementError(settled)
           ?? AdvanceVersionError(s)

RunEodResult(s, c) ==
  LET keys == Eligible(s, c.asOf)
      trades == SettleAll(s, keys)
  IN  IF keys = {} THEN s
      ELSE AdvanceVersion([s EXCEPT
             !.limits = ReleaseAll(s, keys),
             !.trades = trades,
             !.settlements = DeriveSettlements(SettledTrades(trades))])

-----------------------------------------------------------------------------
(* invariants_hold, which the evaluator applies to every prospective       *)
(* state: the running totals are those of a fresh sum over the ledger, and *)
(* no balance is negative or above its capacity.                           *)
RecomputedTotals(s) ==
  [currency \in Currencies |->
     SumFunction([i \in DOMAIN s.ledgerEntries |->
                    RunningSum(s.ledgerEntries[i], currency, 4)])]

BalancesHold(s) ==
  \A key \in LimitKeys : s.limits[key] \in 0..Capacity[key]

InvariantsHold(s) ==
  /\ RecomputedTotals(s) = s.ledgerTotals
  /\ BalancesHold(s)

-----------------------------------------------------------------------------
(* What is true of every state that commands lead to, as predicates on a   *)
(* state value, for the modules that keep states in different variables.   *)

HasFields(s) ==
  s = [version |-> s.version, trades |-> s.trades,
       currentVersions |-> s.currentVersions,
       ledgerEntries |-> s.ledgerEntries,
       confirmationEntries |-> s.confirmationEntries,
       postingIds |-> s.postingIds, ledgerTotals |-> s.ledgerTotals,
       limits |-> s.limits, settlements |-> s.settlements]

(* The fields and their types; a map is a function on the keys it holds.   *)
StateOK(s) ==
  /\ HasFields(s)
  /\ s.version \in 0..MaxStateVersion
  /\ DOMAIN s.trades \subseteq TradeVersionKeys
  /\ IsFiniteSet(DOMAIN s.trades)
  /\ s.trades \in [DOMAIN s.trades -> Trades]
  /\ DOMAIN s.currentVersions \subseteq TradeIds
  /\ s.currentVersions \in [DOMAIN s.currentVersions -> Versions]
  /\ s.ledgerEntries \in Seq(Entries)
  /\ DOMAIN s.confirmationEntries \subseteq DOMAIN s.trades
  /\ s.confirmationEntries \in
       [DOMAIN s.confirmationEntries -> DOMAIN s.ledgerEntries]
  /\ s.postingIds \subseteq PostingIds
  /\ s.ledgerTotals \in [Currencies -> MinorUnits]
  /\ s.limits \in [LimitKeys -> MinorUnits]
  /\ s.settlements \subseteq Obligations

(* The versions of a trade id are 1..current[id], on one path, linked to   *)
(* each other, and only the last of them is not Superseded.                *)
Chained(trades, current) ==
  /\ \A key \in DOMAIN trades : /\ key[1] \in DOMAIN current
                                /\ key[2] <= current[key[1]]
  /\ \A id \in DOMAIN current : \A v \in 1..current[id] :
       /\ <<id, v>> \in DOMAIN trades
       /\ LET t == trades[<<id, v>>]
          IN  /\ t.id = id
              /\ t.version = v
              /\ t.path = trades[<<id, 1>>].path
              /\ t.supersedes = v - 1
              /\ t.supersededBy = IF v < current[id] THEN v + 1 ELSE NoVersion
              /\ t.state = "Superseded" <=> v < current[id]

ChainHolds(s) == Chained(s.trades, s.currentVersions)

(* ids is the set of the posting identifiers of these entries, each of     *)
(* which stands at one place.                                              *)
Identified(entries, ids) ==
  /\ ids = UNION {EntryIds(entries[i]) : i \in DOMAIN entries}
  /\ \A i, j \in DOMAIN entries : \A l, m \in Lines :
       entries[i][l].id = entries[j][m].id => i = j /\ l = m

IdsAreUnique(s) == Identified(s.ledgerEntries, s.postingIds)

(* A confirmed version leads to the entry that the posting policy          *)
(* prescribes for it; a version that was never confirmed to none.          *)
ConfirmedBy(trades, entries, confirming) ==
  \A key \in DOMAIN trades :
    LET t == trades[key]
    IN  IF key \in DOMAIN confirming
        THEN LET entry == entries[confirming[key]]
             IN  /\ t.state # "Captured"
                 /\ entry = ConfirmationEntry(t, [i \in Lines |-> entry[i].id])
        ELSE t.state \in {"Captured", "Cancelled"}

EntriesAreIndexed(s) ==
  ConfirmedBy(s.trades, s.ledgerEntries, s.confirmationEntries)

KeysIn(s, states) == {key \in DOMAIN s.trades : s.trades[key].state \in states}

(* A trade lies below a limit if the limit stands at a node of its path and*)
(* in the currency it pays.                                                *)
IsBelow(trade, limitKey) ==
  /\ limitKey[2] = trade.terms.pay.currency
  /\ IsPrefix(limitKey[1], << trade.path.counterparty,
                              trade.path.nettingSet, trade.path.book >>)

ReservationsHold(s) ==
  \A limitKey \in LimitKeys :
    LET below == {key \in KeysIn(s, {"Confirmed"}) :
                    IsBelow(s.trades[key], limitKey)}
    IN  s.limits[limitKey]
          = SumFunction([key \in below |-> s.trades[key].terms.pay.amount])

(* Entry i reverses entry j: same lines, sides swapped, linked one by one. *)
Reverses(entries, i, j) ==
  entries[i] = ReversalEntry(entries[j], [l \in Lines |-> entries[i][l].id])

Reversals(entries, j) == {i \in DOMAIN entries : Reverses(entries, i, j)}

ReversalsMatch(s) ==
  LET entries == s.ledgerEntries
      confirming == {s.confirmationEntries[key] :
                       key \in DOMAIN s.confirmationEntries}
  IN  /\ \A key \in DOMAIN s.confirmationEntries :
           Cardinality(Reversals(entries, s.confirmationEntries[key]))
             = IF s.trades[key].state \in {"Superseded", "Cancelled"}
               THEN 1 ELSE 0
      /\ \A i \in (DOMAIN entries) \ confirming :
           \E j \in confirming : j < i /\ Reverses(entries, i, j)

(* What an entry puts on an account, and what a version should have there. *)
Moved(entry, account, currency) ==
  LET Line(l) == IF entry[l].account = account THEN Signed(entry[l], currency)
                 ELSE 0
  IN  Line(1) + Line(2) + Line(3) + Line(4)

AmountIn(money, currency) ==
  IF money.currency = currency THEN money.amount ELSE 0

Position(trade, account, currency) ==
  LET paid == AmountIn(trade.terms.pay, currency)
      received == AmountIn(trade.terms.receive, currency)
  IN  CASE account = Control(trade.path.counterparty) -> paid - received
        [] account = Payable(trade.path.book) -> -paid
        [] account = Receivable(trade.path.book) -> received
        [] OTHER -> 0

LedgerMirrors(s) ==
  \A account \in Accounts, currency \in Currencies :
    SumFunction([i \in DOMAIN s.ledgerEntries |->
                   Moved(s.ledgerEntries[i], account, currency)])
      = SumFunction([key \in KeysIn(s, {"Confirmed", "Settled"}) |->
                       Position(s.trades[key], account, currency)])

(* next has one more state version than s, and all of the history of s.    *)
HistoryKept(s, next) ==
  /\ next.version = s.version + 1
  /\ IsPrefix(s.ledgerEntries, next.ledgerEntries)
  /\ \A key \in DOMAIN s.trades :
       /\ key \in DOMAIN next.trades
       /\ LET old == s.trades[key]
              new == next.trades[key]
          IN  IF old.state \in {"Captured", "Confirmed"}
              THEN new = [old EXCEPT !.state = new.state,
                                     !.supersededBy = new.supersededBy]
              ELSE new = old
  /\ \A key \in DOMAIN s.confirmationEntries :
       /\ key \in DOMAIN next.confirmationEntries
       /\ next.confirmationEntries[key] = s.confirmationEntries[key]

=============================================================================
