---------------------------- MODULE DomainProofs ----------------------------
(***************************************************************************)
(* Lemmas about the domain's operations, for every value of the constants. *)
(*                                                                         *)
(* The operations are operators on state values: what an accepted command  *)
(* is known to have passed (...Accepted), which fields its result has      *)
(* (...Fields), and that the result keeps the invariant DomainInv          *)
(* (...Keeps).  The second half is about the balances, which are sums.     *)
(* The modules that hold a state in a variable get their theorems from     *)
(* these lemmas.                                                           *)
(***************************************************************************)
EXTENDS Domain, DataLemmas

-----------------------------------------------------------------------------
(* Maps.  The predicates name what a lemma needs of a map, so that the     *)
(* provers see them as wholes.                                             *)

IsMap(map, T) == map \in [DOMAIN map -> T]

(* new is old with key bound to value.                                     *)
Sets(new, old, key, value) ==
  /\ DOMAIN new = DOMAIN old \cup {key}
  /\ new[key] = value
  /\ \A k \in DOMAIN old : k # key => new[k] = old[k]

(* new agrees with old wherever old is defined.                            *)
Extends(new, old) == \A k \in DOMAIN old : k \in DOMAIN new /\ new[k] = old[k]

LEMMA PutMap ==
  ASSUME NEW map, NEW key, NEW value, NEW T, IsMap(map, T), value \in T,
         NEW r, r = Put(map, key, value)
  PROVE  Sets(r, map, key, value) /\ IsMap(r, T)
BY DEF Put, IsMap, Sets

LEMMA EmplaceMap ==
  ASSUME NEW map, NEW key, NEW value, NEW T, IsMap(map, T), value \in T,
         key \notin DOMAIN map, NEW r, r = Emplace(map, key, value)
  PROVE  Sets(r, map, key, value) /\ IsMap(r, T) /\ Extends(r, map)
<1>1. r = Put(map, key, value)
  BY DEF Emplace
<1> QED BY <1>1 DEF Put, IsMap, Sets, Extends

-----------------------------------------------------------------------------
(* The result of each operation, field by field.                           *)

Is(r, version, trades, current, entries, confirming, ids, totals, limits,
   settlements) ==
  /\ HasFields(r)
  /\ r.version = version
  /\ r.trades = trades
  /\ r.currentVersions = current
  /\ r.ledgerEntries = entries
  /\ r.confirmationEntries = confirming
  /\ r.postingIds = ids
  /\ r.ledgerTotals = totals
  /\ r.limits = limits
  /\ r.settlements = settlements

LEMMA AdvanceFields ==
  ASSUME NEW s, NEW version, NEW trades, NEW current, NEW entries,
         NEW confirming, NEW ids, NEW totals, NEW limits, NEW settlements,
         Is(s, version, trades, current, entries, confirming, ids, totals,
            limits, settlements)
  PROVE  Is(AdvanceVersion(s), version + 1, trades, current, entries,
            confirming, ids, totals, limits, settlements)
<1>1. PICK r : r = AdvanceVersion(s)
  OBVIOUS
<1>2. Is(r, version + 1, trades, current, entries, confirming, ids, totals,
         limits, settlements)
  BY <1>1 DEF AdvanceVersion, HasFields, Is
<1> QED BY <1>1, <1>2

LEMMA AppendFields ==
  ASSUME NEW s, NEW version, NEW trades, NEW current, NEW entries,
         NEW confirming, NEW ids, NEW totals, NEW limits, NEW settlements,
         Is(s, version, trades, current, entries, confirming, ids, totals,
            limits, settlements),
         NEW entry
  PROVE  Is(AppendEntry(s, entry), version, trades, current,
            Append(entries, entry), confirming, ids \cup EntryIds(entry),
            TotalsWith(totals, entry), limits, settlements)
<1>1. PICK r : r = AppendEntry(s, entry)
  OBVIOUS
<1>2. Is(r, version, trades, current, Append(entries, entry), confirming,
         ids \cup EntryIds(entry), TotalsWith(totals, entry), limits,
         settlements)
  BY <1>1 DEF AppendEntry, HasFields, Is
<1> QED BY <1>1, <1>2

(* The update every operation makes before it appends and advances.        *)
LEMMA UpdateFields ==
  ASSUME NEW s, HasFields(s), NEW trades, NEW current, NEW confirming,
         NEW limits, NEW settlements, NEW r
  PROVE  /\ r = [s EXCEPT !.trades = trades, !.currentVersions = current]
            => Is(r, s.version, trades, current, s.ledgerEntries,
                  s.confirmationEntries, s.postingIds, s.ledgerTotals,
                  s.limits, s.settlements)
         /\ r = [s EXCEPT !.limits = limits, !.trades = trades,
                          !.confirmationEntries = confirming]
            => Is(r, s.version, trades, s.currentVersions, s.ledgerEntries,
                  confirming, s.postingIds, s.ledgerTotals, limits,
                  s.settlements)
         /\ r = [s EXCEPT !.limits = limits, !.trades = trades,
                          !.currentVersions = current,
                          !.confirmationEntries = confirming]
            => Is(r, s.version, trades, current, s.ledgerEntries,
                  confirming, s.postingIds, s.ledgerTotals, limits,
                  s.settlements)
         /\ r = [s EXCEPT !.trades = trades]
            => Is(r, s.version, trades, s.currentVersions, s.ledgerEntries,
                  s.confirmationEntries, s.postingIds, s.ledgerTotals,
                  s.limits, s.settlements)
         /\ r = [s EXCEPT !.limits = limits, !.trades = trades]
            => Is(r, s.version, trades, s.currentVersions, s.ledgerEntries,
                  s.confirmationEntries, s.postingIds, s.ledgerTotals,
                  limits, s.settlements)
         /\ r = [s EXCEPT !.limits = limits, !.trades = trades,
                          !.settlements = settlements]
            => Is(r, s.version, trades, s.currentVersions, s.ledgerEntries,
                  s.confirmationEntries, s.postingIds, s.ledgerTotals,
                  limits, settlements)
BY DEF HasFields, Is

LEMMA BookTradeFields ==
  ASSUME NEW s, HasFields(s), NEW c, NEW r, r = BookTradeResult(s, c)
  PROVE  Is(r, s.version + 1,
            Emplace(s.trades, <<c.tradeId, 1>>,
                    Capture(c.tradeId, c.path, c.terms)),
            Emplace(s.currentVersions, c.tradeId, 1),
            s.ledgerEntries, s.confirmationEntries, s.postingIds,
            s.ledgerTotals, s.limits, s.settlements)
<1> DEFINE trades == Emplace(s.trades, <<c.tradeId, 1>>,
                             Capture(c.tradeId, c.path, c.terms))
           current == Emplace(s.currentVersions, c.tradeId, 1)
<1>1. PICK next :
        next = [s EXCEPT !.trades = trades, !.currentVersions = current]
  OBVIOUS
<1>2. r = AdvanceVersion(next)
  BY <1>1 DEF BookTradeResult
<1> HIDE DEF trades, current
<1>3. Is(next, s.version, trades, current, s.ledgerEntries,
         s.confirmationEntries, s.postingIds, s.ledgerTotals, s.limits,
         s.settlements)
  BY <1>1, UpdateFields
<1> QED BY <1>2, <1>3, AdvanceFields DEF trades, current

LEMMA ConfirmTradeFields ==
  ASSUME NEW s, HasFields(s), NEW c, NEW r, r = ConfirmTradeResult(s, c),
         NEW key, key = <<c.tradeId, c.expectedVersion>>,
         NEW current, current = s.trades[key],
         NEW entry, entry = ConfirmationEntry(Apply(current, "ConfirmTrade"),
                                              c.postingIds)
  PROVE  Is(r, s.version + 1,
            Put(s.trades, key, Apply(current, "ConfirmTrade")),
            s.currentVersions, Append(s.ledgerEntries, entry),
            Emplace(s.confirmationEntries, key, Len(s.ledgerEntries) + 1),
            s.postingIds \cup EntryIds(entry),
            TotalsWith(s.ledgerTotals, entry),
            Reserve(s.limits, current.path, current.terms.pay),
            s.settlements)
<1> DEFINE trades == Put(s.trades, key, Apply(current, "ConfirmTrade"))
           confirming == Emplace(s.confirmationEntries, key,
                                 Len(s.ledgerEntries) + 1)
           limits == Reserve(s.limits, current.path, current.terms.pay)
<1>1. PICK next :
        next = [s EXCEPT !.limits = limits, !.trades = trades,
                         !.confirmationEntries = confirming]
  OBVIOUS
<1>2. r = AdvanceVersion(AppendEntry(next, entry))
  BY <1>1 DEF ConfirmTradeResult
<1> HIDE DEF trades, confirming, limits
<1>3. Is(next, s.version, trades, s.currentVersions, s.ledgerEntries,
         confirming, s.postingIds, s.ledgerTotals, limits, s.settlements)
  BY <1>1, UpdateFields
<1>4. Is(AppendEntry(next, entry), s.version, trades, s.currentVersions,
         Append(s.ledgerEntries, entry), confirming,
         s.postingIds \cup EntryIds(entry),
         TotalsWith(s.ledgerTotals, entry), limits, s.settlements)
  BY <1>3, AppendFields
<1> QED BY <1>2, <1>4, AdvanceFields DEF trades, confirming, limits

LEMMA AmendTradeFields ==
  ASSUME NEW s, HasFields(s), NEW c, NEW r, r = AmendTradeResult(s, c),
         NEW key, key = <<c.tradeId, c.expectedVersion>>,
         NEW current, current = s.trades[key],
         NEW replacement, replacement = Replacement(current, c.terms),
         NEW newKey, newKey = <<c.tradeId, replacement.version>>,
         NEW reversal,
         reversal = ReversalEntry(s.ledgerEntries[s.confirmationEntries[key]],
                                  c.reversalIds),
         NEW entry, entry = ConfirmationEntry(replacement, c.postingIds)
  PROVE  Is(r, s.version + 1,
            Emplace(Put(s.trades, key, Superseded(current)), newKey, replacement),
            Put(s.currentVersions, c.tradeId, replacement.version),
            Append(Append(s.ledgerEntries, reversal), entry),
            Emplace(s.confirmationEntries, newKey, Len(s.ledgerEntries) + 2),
            (s.postingIds \cup EntryIds(reversal)) \cup EntryIds(entry),
            TotalsWith(TotalsWith(s.ledgerTotals, reversal), entry),
            Reserve(Release(s.limits, current.path, current.terms.pay),
                    replacement.path, replacement.terms.pay),
            s.settlements)
<1> DEFINE trades == Emplace(Put(s.trades, key, Superseded(current)),
                             newKey, replacement)
           versions == Put(s.currentVersions, c.tradeId, replacement.version)
           confirming == Emplace(s.confirmationEntries, newKey,
                                 Len(s.ledgerEntries) + 2)
           limits == Reserve(Release(s.limits, current.path, current.terms.pay),
                             replacement.path, replacement.terms.pay)
<1>1. PICK next :
        next = [s EXCEPT !.limits = limits, !.trades = trades,
                         !.currentVersions = versions,
                         !.confirmationEntries = confirming]
  OBVIOUS
<1>2. r = AdvanceVersion(AppendEntry(AppendEntry(next, reversal), entry))
  BY <1>1 DEF AmendTradeResult
<1> HIDE DEF trades, versions, confirming, limits
<1>3. Is(next, s.version, trades, versions, s.ledgerEntries,
         confirming, s.postingIds, s.ledgerTotals, limits, s.settlements)
  BY <1>1, UpdateFields
<1>4. Is(AppendEntry(next, reversal), s.version, trades, versions,
         Append(s.ledgerEntries, reversal), confirming,
         s.postingIds \cup EntryIds(reversal),
         TotalsWith(s.ledgerTotals, reversal), limits, s.settlements)
  BY <1>3, AppendFields
<1>5. Is(AppendEntry(AppendEntry(next, reversal), entry), s.version, trades,
         versions, Append(Append(s.ledgerEntries, reversal), entry), confirming,
         (s.postingIds \cup EntryIds(reversal)) \cup EntryIds(entry),
         TotalsWith(TotalsWith(s.ledgerTotals, reversal), entry), limits,
         s.settlements)
  BY <1>4, AppendFields
<1>6. Is(AdvanceVersion(AppendEntry(AppendEntry(next, reversal), entry)),
         s.version + 1, trades, versions,
         Append(Append(s.ledgerEntries, reversal), entry), confirming,
         (s.postingIds \cup EntryIds(reversal)) \cup EntryIds(entry),
         TotalsWith(TotalsWith(s.ledgerTotals, reversal), entry), limits,
         s.settlements)
  BY <1>5, AdvanceFields
<1> QED BY <1>2, <1>6 DEF trades, versions, confirming, limits

(* A captured trade only changes its state; a confirmed one is reversed.   *)
LEMMA CancelTradeFields ==
  ASSUME NEW s, HasFields(s), NEW c, NEW r, r = CancelTradeResult(s, c),
         NEW key, key = <<c.tradeId, c.expectedVersion>>,
         NEW current, current = s.trades[key],
         NEW trades, trades = Put(s.trades, key, Apply(current, "CancelTrade")),
         NEW reversal,
         reversal = ReversalEntry(s.ledgerEntries[s.confirmationEntries[key]],
                                  c.reversalIds)
  PROVE  IF current.state = "Captured"
         THEN Is(r, s.version + 1, trades, s.currentVersions, s.ledgerEntries,
                 s.confirmationEntries, s.postingIds, s.ledgerTotals,
                 s.limits, s.settlements)
         ELSE Is(r, s.version + 1, trades, s.currentVersions,
                 Append(s.ledgerEntries, reversal), s.confirmationEntries,
                 s.postingIds \cup EntryIds(reversal),
                 TotalsWith(s.ledgerTotals, reversal),
                 Release(s.limits, current.path, current.terms.pay),
                 s.settlements)
<1> DEFINE limits == Release(s.limits, current.path, current.terms.pay)
<1>1. PICK withdrawn : withdrawn = [s EXCEPT !.trades = trades]
  OBVIOUS
<1>2. PICK released :
        released = [s EXCEPT !.limits = limits, !.trades = trades]
  OBVIOUS
<1>3. r = AdvanceVersion(IF current.state = "Captured" THEN withdrawn
                         ELSE AppendEntry(released, reversal))
  BY <1>1, <1>2 DEF CancelTradeResult
<1> HIDE DEF limits
<1>4. CASE current.state = "Captured"
  <2>1. Is(withdrawn, s.version, trades, s.currentVersions, s.ledgerEntries,
           s.confirmationEntries, s.postingIds, s.ledgerTotals, s.limits,
           s.settlements)
    BY <1>1, UpdateFields
  <2>2. r = AdvanceVersion(withdrawn)
    BY <1>3, <1>4
  <2> QED BY <1>4, <2>1, <2>2, AdvanceFields
<1>5. CASE current.state # "Captured"
  <2>1. Is(released, s.version, trades, s.currentVersions, s.ledgerEntries,
           s.confirmationEntries, s.postingIds, s.ledgerTotals, limits,
           s.settlements)
    BY <1>2, UpdateFields
  <2>2. Is(AppendEntry(released, reversal), s.version, trades,
           s.currentVersions, Append(s.ledgerEntries, reversal),
           s.confirmationEntries, s.postingIds \cup EntryIds(reversal),
           TotalsWith(s.ledgerTotals, reversal), limits, s.settlements)
    BY <2>1, AppendFields
  <2>3. Is(AdvanceVersion(AppendEntry(released, reversal)), s.version + 1,
           trades, s.currentVersions, Append(s.ledgerEntries, reversal),
           s.confirmationEntries, s.postingIds \cup EntryIds(reversal),
           TotalsWith(s.ledgerTotals, reversal), limits, s.settlements)
    BY <2>2, AdvanceFields
  <2>4. r = AdvanceVersion(AppendEntry(released, reversal))
    BY <1>3, <1>5
  <2> QED BY <1>5, <2>3, <2>4 DEF limits
<1> QED BY <1>4, <1>5

LEMMA RunEodFields ==
  ASSUME NEW s, HasFields(s), NEW c, NEW r, r = RunEodResult(s, c),
         NEW keys, keys = Eligible(s, c.asOf), keys # {}
  PROVE  Is(r, s.version + 1, SettleAll(s, keys), s.currentVersions,
            s.ledgerEntries, s.confirmationEntries, s.postingIds,
            s.ledgerTotals, ReleaseAll(s, keys),
            DeriveSettlements(SettledTrades(SettleAll(s, keys))))
<1> DEFINE trades == SettleAll(s, keys)
           limits == ReleaseAll(s, keys)
           settlements == DeriveSettlements(SettledTrades(trades))
<1>1. PICK next :
        next = [s EXCEPT !.limits = limits, !.trades = trades,
                         !.settlements = settlements]
  OBVIOUS
<1>2. r = AdvanceVersion(next)
  BY <1>1 DEF RunEodResult
<1> HIDE DEF trades, limits, settlements
<1>3. Is(next, s.version, trades, s.currentVersions, s.ledgerEntries,
         s.confirmationEntries, s.postingIds, s.ledgerTotals, limits,
         settlements)
  BY <1>1, UpdateFields
<1> QED BY <1>2, <1>3, AdvanceFields DEF trades, limits, settlements

-----------------------------------------------------------------------------
(* What an accepted command has passed.                                    *)

LEMMA ReserveOk ==
  ASSUME NEW reserved, NEW path, NEW money,
         ReserveError(reserved, path, money) = Ok
  PROVE  \A key \in PathKeys(path, money) :
            /\ key \in LimitKeys
            /\ money.amount <= Capacity[key] - reserved[key]
BY DEF ReserveError, PathError, PathKeys, Fail, ??, Ok

LEMMA ReleaseOk ==
  ASSUME NEW reserved, NEW path, NEW money,
         ReleaseError(reserved, path, money) = Ok
  PROVE  \A key \in PathKeys(path, money) :
            /\ key \in LimitKeys
            /\ money.amount <= reserved[key]
BY DEF ReleaseError, PathError, PathKeys, Fail, ??, Ok

LEMMA EntryOk ==
  ASSUME NEW entry, EntryError(entry) = Ok
  PROVE  \A i, j \in Lines : entry[i].id = entry[j].id => i = j
BY DEF EntryError, Fail, ??, Ok

LEMMA AppendOk ==
  ASSUME NEW s, NEW entry, AppendEntryError(s, entry) = Ok
  PROVE  /\ EntryIds(entry) \cap s.postingIds = {}
         /\ SumFits(s.ledgerTotals, entry)
BY DEF AppendEntryError, Fail, ??, Ok

LEMMA BookAccepted ==
  ASSUME NEW s, NEW c, BookTradeError(s, c) = Ok
  PROVE  /\ c.tradeId \notin DOMAIN s.currentVersions
         /\ s.version # MaxStateVersion
BY DEF BookTradeError, AdvanceVersionError, Fail, ??, Ok

(* Each current version is a version of the trade map, under its number.   *)
CurrentIsKnown(s) ==
  \A id \in DOMAIN s.currentVersions :
    CurrentTrade(s, id).version = s.currentVersions[id]

LEMMA RequireOk ==
  ASSUME NEW s, CurrentIsKnown(s), NEW id, NEW expectedVersion,
         RequireCurrentError(s, id, expectedVersion) = Ok
  PROVE  id \in DOMAIN s.currentVersions /\ s.currentVersions[id] = expectedVersion
BY DEF CurrentIsKnown, RequireCurrentError, Fail, ??, Ok

LEMMA ConfirmAccepted ==
  ASSUME NEW s, CurrentIsKnown(s), NEW c, ConfirmTradeError(s, c) = Ok,
         NEW current, current = s.trades[<<c.tradeId, c.expectedVersion>>],
         NEW confirmed, confirmed = Apply(current, "ConfirmTrade"),
         NEW entry, entry = ConfirmationEntry(confirmed, c.postingIds)
  PROVE  /\ c.tradeId \in DOMAIN s.currentVersions
         /\ s.currentVersions[c.tradeId] = c.expectedVersion
         /\ current.state = "Captured"
         /\ ReserveError(s.limits, current.path, current.terms.pay) = Ok
         /\ EntryError(entry) = Ok
         /\ AppendEntryError(s, entry) = Ok
         /\ s.version # MaxStateVersion
<1>1. /\ c.tradeId \in DOMAIN s.currentVersions
      /\ s.currentVersions[c.tradeId] = c.expectedVersion
  <2>1. RequireCurrentError(s, c.tradeId, c.expectedVersion) = Ok
    BY DEF ConfirmTradeError, ??
  <2> QED BY <2>1, RequireOk
<1>2. current = CurrentTrade(s, c.tradeId)
  BY <1>1 DEF CurrentTrade
<1>3. /\ ApplyError(current, "ConfirmTrade") = Ok
      /\ ReserveError(s.limits, current.path, current.terms.pay) = Ok
      /\ ConfirmationEntryError(confirmed, c.postingIds) = Ok
      /\ AppendEntryError(s, entry) = Ok
      /\ AdvanceVersionError(s) = Ok
  BY <1>2 DEF ConfirmTradeError, ??
<1>4. current.state = "Captured"
  BY <1>3 DEF ApplyError, Transition, Illegal, Fail, Ok
<1>5. EntryError(entry) = Ok
  BY <1>3 DEF ConfirmationEntryError, Fail, ??, Ok
<1> QED BY <1>1, <1>3, <1>4, <1>5 DEF AdvanceVersionError, Fail, Ok

LEMMA AmendAccepted ==
  ASSUME NEW s, CurrentIsKnown(s), NEW c, AmendTradeError(s, c) = Ok,
         NEW key, key = <<c.tradeId, c.expectedVersion>>,
         NEW current, current = s.trades[key],
         NEW replacement, replacement = Replacement(current, c.terms),
         NEW reversal,
         reversal = ReversalEntry(s.ledgerEntries[s.confirmationEntries[key]],
                                  c.reversalIds),
         NEW entry, entry = ConfirmationEntry(replacement, c.postingIds)
  PROVE  /\ c.tradeId \in DOMAIN s.currentVersions
         /\ s.currentVersions[c.tradeId] = c.expectedVersion
         /\ current.state = "Confirmed"
         /\ current.version # MaxTradeVersion
         /\ key \in DOMAIN s.confirmationEntries
         /\ ReleaseError(s.limits, current.path, current.terms.pay) = Ok
         /\ ReserveError(Release(s.limits, current.path, current.terms.pay),
                         replacement.path, replacement.terms.pay) = Ok
         /\ EntryError(reversal) = Ok
         /\ EntryError(entry) = Ok
         /\ AppendEntryError(s, reversal) = Ok
         /\ AppendEntryError(AppendEntry(s, reversal), entry) = Ok
         /\ s.version # MaxStateVersion
<1>1. /\ c.tradeId \in DOMAIN s.currentVersions
      /\ s.currentVersions[c.tradeId] = c.expectedVersion
  <2>1. RequireCurrentError(s, c.tradeId, c.expectedVersion) = Ok
    BY DEF AmendTradeError, ??
  <2> QED BY <2>1, RequireOk
<1>2. current = CurrentTrade(s, c.tradeId)
  BY <1>1 DEF CurrentTrade
<1>3. /\ Fail(current.state # "Confirmed", Illegal) = Ok
      /\ Fail(key \notin DOMAIN s.confirmationEntries,
              "MissingConfirmationEntry") = Ok
      /\ ReleaseError(s.limits, current.path, current.terms.pay) = Ok
      /\ AmendmentError(current) = Ok
      /\ ReserveError(Release(s.limits, current.path, current.terms.pay),
                      replacement.path, replacement.terms.pay) = Ok
      /\ ReversalEntryError(s.ledgerEntries[s.confirmationEntries[key]],
                            c.reversalIds) = Ok
      /\ ConfirmationEntryError(replacement, c.postingIds) = Ok
      /\ AppendEntryError(s, reversal) = Ok
      /\ AppendEntryError(AppendEntry(s, reversal), entry) = Ok
      /\ AdvanceVersionError(s) = Ok
  BY <1>2 DEF AmendTradeError, ??
<1>4. current.version # MaxTradeVersion
  BY <1>3 DEF AmendmentError, Fail, ??, Ok
<1>5. EntryError(reversal) = Ok
  BY <1>3 DEF ReversalEntryError, Fail, ??, Ok
<1>6. EntryError(entry) = Ok
  BY <1>3 DEF ConfirmationEntryError, Fail, ??, Ok
<1>7. /\ current.state = "Confirmed"
      /\ key \in DOMAIN s.confirmationEntries
      /\ s.version # MaxStateVersion
  BY <1>3 DEF AdvanceVersionError, Fail, Illegal, Ok
<1> QED BY <1>1, <1>3, <1>4, <1>5, <1>6, <1>7

LEMMA CancelAccepted ==
  ASSUME NEW s, CurrentIsKnown(s), NEW c, CancelTradeError(s, c) = Ok,
         NEW key, key = <<c.tradeId, c.expectedVersion>>,
         NEW current, current = s.trades[key],
         NEW reversal,
         reversal = ReversalEntry(s.ledgerEntries[s.confirmationEntries[key]],
                                  c.reversalIds)
  PROVE  /\ c.tradeId \in DOMAIN s.currentVersions
         /\ s.currentVersions[c.tradeId] = c.expectedVersion
         /\ current.state \in {"Captured", "Confirmed"}
         /\ current.state = "Confirmed" =>
              /\ c.reversalIds # NoReversalIds
              /\ key \in DOMAIN s.confirmationEntries
              /\ ReleaseError(s.limits, current.path, current.terms.pay) = Ok
              /\ EntryError(reversal) = Ok
              /\ AppendEntryError(s, reversal) = Ok
         /\ s.version # MaxStateVersion
<1>1. /\ c.tradeId \in DOMAIN s.currentVersions
      /\ s.currentVersions[c.tradeId] = c.expectedVersion
  <2>1. RequireCurrentError(s, c.tradeId, c.expectedVersion) = Ok
    BY DEF CancelTradeError, ??
  <2> QED BY <2>1, RequireOk
<1>2. current = CurrentTrade(s, c.tradeId)
  BY <1>1 DEF CurrentTrade
<1>3. /\ ApplyError(current, "CancelTrade") = Ok
      /\ AdvanceVersionError(s) = Ok
      /\ current.state # "Captured" =>
           /\ Fail(c.reversalIds = NoReversalIds, "MissingReversalIds") = Ok
           /\ Fail(key \notin DOMAIN s.confirmationEntries,
                   "MissingConfirmationEntry") = Ok
           /\ ReleaseError(s.limits, current.path, current.terms.pay) = Ok
           /\ ReversalEntryError(s.ledgerEntries[s.confirmationEntries[key]],
                                 c.reversalIds) = Ok
           /\ AppendEntryError(s, reversal) = Ok
  BY <1>2 DEF CancelTradeError, ??
<1>4. current.state \in {"Captured", "Confirmed"}
  BY <1>3 DEF ApplyError, Transition, Illegal, Fail, Ok
<1>5. current.state = "Confirmed" => EntryError(reversal) = Ok
  BY <1>3 DEF ReversalEntryError, Fail, ??, Ok
<1>6. s.version # MaxStateVersion
  BY <1>3 DEF AdvanceVersionError, Fail, Ok
<1>7. current.state = "Confirmed" =>
        /\ c.reversalIds # NoReversalIds
        /\ key \in DOMAIN s.confirmationEntries
        /\ ReleaseError(s.limits, current.path, current.terms.pay) = Ok
        /\ AppendEntryError(s, reversal) = Ok
  BY <1>3 DEF Fail, Ok
<1> QED BY <1>1, <1>4, <1>5, <1>6, <1>7

LEMMA EodAccepted ==
  ASSUME NEW s, NEW c, RunEodError(s, c) = Ok,
         NEW keys, keys = Eligible(s, c.asOf), keys # {}
  PROVE  /\ \A k \in LimitKeys : Freed(s, keys, k) \in 0..s.limits[k]
         /\ SettlementError(SettledTrades(SettleAll(s, keys))) = Ok
         /\ s.version # MaxStateVersion
<1>1. /\ ReleaseAllError(s, keys) = Ok
      /\ SettlementError(SettledTrades(SettleAll(s, keys))) = Ok
      /\ AdvanceVersionError(s) = Ok
  BY DEF RunEodError, ??
<1>2. \A k \in LimitKeys : Freed(s, keys, k) \in 0..s.limits[k]
  BY <1>1 DEF ReleaseAllError, Fail, ??, Ok
<1> QED BY <1>1, <1>2 DEF AdvanceVersionError, Fail, Ok

-----------------------------------------------------------------------------
(* Types.                                                                  *)

LEMMA CaptureType ==
  ASSUME NEW id \in TradeIds, NEW path \in LimitPath, NEW terms \in FxTerms
  PROVE  Capture(id, path, terms) \in Trades
BY WidthsArePositive DEF Capture, Trades, Versions, TradeStates, NoVersion

LEMMA NextVersion ==
  ASSUME NEW trade \in Trades, trade.version # MaxTradeVersion
  PROVE  trade.version \in Versions /\ trade.version + 1 \in Versions
<1>1. trade.version \in Versions
  BY DEF Trades
<1> QED BY <1>1, WidthsArePositive DEF Versions

LEMMA SupersededType ==
  ASSUME NEW trade \in Trades, trade.version # MaxTradeVersion,
         NEW r, r = Superseded(trade)
  PROVE  /\ r \in Trades
         /\ r.state = "Superseded"
         /\ r.supersededBy = trade.version + 1
         /\ r.id = trade.id /\ r.version = trade.version
         /\ r.path = trade.path /\ r.terms = trade.terms
         /\ r.supersedes = trade.supersedes
<1> DEFINE next == trade.version + 1
<1>1. next \in Versions
  BY NextVersion
<1>2. r = [trade EXCEPT !.state = "Superseded", !.supersededBy = next]
  BY DEF Superseded
<1> HIDE DEF next
<1>3. r \in Trades
  BY <1>1, <1>2 DEF Trades, TradeStates
<1>4. /\ r.state = "Superseded" /\ r.supersededBy = next
      /\ r.id = trade.id /\ r.version = trade.version
      /\ r.path = trade.path /\ r.terms = trade.terms
      /\ r.supersedes = trade.supersedes
  BY <1>2 DEF Trades
<1> QED BY <1>3, <1>4 DEF next

LEMMA ReplacementType ==
  ASSUME NEW trade \in Trades, trade.version # MaxTradeVersion,
         NEW terms \in FxTerms, NEW r, r = Replacement(trade, terms)
  PROVE  /\ r \in Trades
         /\ r.id = trade.id /\ r.version = trade.version + 1
         /\ r.path = trade.path /\ r.state = "Confirmed"
         /\ r.supersedes = trade.version /\ r.supersededBy = NoVersion
         /\ r.terms = terms
<1> DEFINE next == trade.version + 1
<1>1. next \in Versions /\ trade.version \in Versions
  BY NextVersion
<1>2. r = [trade EXCEPT !.version = next, !.terms = terms,
                        !.state = "Confirmed", !.supersedes = trade.version,
                        !.supersededBy = NoVersion]
  BY DEF Replacement
<1> HIDE DEF next
<1>3. r \in Trades
  BY <1>1, <1>2 DEF Trades, TradeStates
<1>4. /\ r.id = trade.id /\ r.version = next
      /\ r.path = trade.path /\ r.state = "Confirmed"
      /\ r.supersedes = trade.version /\ r.supersededBy = NoVersion
      /\ r.terms = terms
  BY <1>2 DEF Trades
<1> QED BY <1>3, <1>4 DEF next

LEMMA ConfirmationEntryType ==
  ASSUME NEW trade \in Trades, NEW ids \in IdTuples,
         NEW r, r = ConfirmationEntry(trade, ids)
  PROVE  /\ r \in Entries
         /\ \A i \in Lines : r[i].id = ids[i]
         /\ r = ConfirmationEntry(trade, [i \in Lines |-> r[i].id])
<1> DEFINE control == Control(trade.path.counterparty)
           accounts == << control, Payable(trade.path.book),
                          Receivable(trade.path.book), control >>
           amounts == [i \in Lines |-> IF i <= 2 THEN trade.terms.pay
                                                 ELSE trade.terms.receive]
<1>1. \A i \in Lines : accounts[i] \in Accounts
  BY DEF Lines, Accounts, Trades, LimitPath
<1>2. \A i \in Lines : amounts[i] \in Money
  BY DEF Trades, FxTerms
<1>3. \A i \in Lines : ConfirmationSides[i] \in Sides
  BY DEF Lines, ConfirmationSides, Sides
<1>4. r = [i \in Lines |->
             [id |-> ids[i], tradeId |-> trade.id, version |-> trade.version,
              account |-> accounts[i], side |-> ConfirmationSides[i],
              amount |-> amounts[i], reversalOf |-> NoPosting]]
  BY DEF ConfirmationEntry
<1>5. trade.id \in TradeIds /\ trade.version \in Versions
  BY DEF Trades
<1> HIDE DEF accounts, amounts
<1>6. \A i \in Lines : r[i] \in Postings /\ r[i].id = ids[i]
  BY <1>1, <1>2, <1>3, <1>4, <1>5 DEF Postings, IdTuples
<1>7. r \in Entries
  BY <1>4, <1>6 DEF Entries
<1>8. [i \in Lines |-> r[i].id] = ids
  BY <1>6 DEF IdTuples
<1> QED BY <1>6, <1>7, <1>8

LEMMA ReversalEntryType ==
  ASSUME NEW original \in Entries, NEW ids \in IdTuples,
         NEW r, r = ReversalEntry(original, ids)
  PROVE  r \in Entries
<1>1. \A i \in Lines : [original[i] EXCEPT !.id = ids[i],
                                           !.side = Opposite(original[i].side),
                                           !.reversalOf = original[i].id]
                         \in Postings
  BY DEF Entries, Postings, IdTuples, Opposite, Sides
<1> QED BY <1>1 DEF ReversalEntry, Entries

LEMMA TotalsType ==
  ASSUME NEW totals, NEW entry, SumFits(totals, entry)
  PROVE  TotalsWith(totals, entry) \in [Currencies -> MinorUnits]
BY DEF SumFits, TotalsWith, Lines

(* A hierarchy in which every reserved amount is within its capacity.      *)
Balanced(limits) ==
  /\ limits \in [LimitKeys -> MinorUnits]
  /\ \A key \in LimitKeys : limits[key] \in 0..Capacity[key]

LEMMA CapacityFits ==
  \A key \in LimitKeys : Capacity[key] \in Nat /\ 0..Capacity[key] \subseteq MinorUnits
BY CapacityIsValid, WidthsArePositive DEF MinorUnits

LEMMA ReserveBalanced ==
  ASSUME NEW limits, Balanced(limits), NEW path, NEW money \in Money,
         ReserveError(limits, path, money) = Ok
  PROVE  Balanced(Reserve(limits, path, money))
<1>1. money.amount \in Nat
  BY WidthsArePositive DEF Money
<1>2. \A key \in LimitKeys : Reserve(limits, path, money)[key] \in 0..Capacity[key]
  BY <1>1, ReserveOk, CapacityFits DEF Balanced, Reserve
<1> QED BY <1>2, CapacityFits DEF Balanced, Reserve

LEMMA ReleaseBalanced ==
  ASSUME NEW limits, Balanced(limits), NEW path, NEW money \in Money,
         ReleaseError(limits, path, money) = Ok
  PROVE  Balanced(Release(limits, path, money))
<1>1. money.amount \in Nat
  BY WidthsArePositive DEF Money
<1>2. \A key \in LimitKeys : Release(limits, path, money)[key] \in 0..Capacity[key]
  BY <1>1, ReleaseOk, CapacityFits DEF Balanced, Release
<1> QED BY <1>2, CapacityFits DEF Balanced, Release

LEMMA ReleaseAllBalanced ==
  ASSUME NEW s, Balanced(s.limits), NEW keys,
         \A k \in LimitKeys : Freed(s, keys, k) \in 0..s.limits[k]
  PROVE  Balanced(ReleaseAll(s, keys))
<1>1. \A k \in LimitKeys : ReleaseAll(s, keys)[k] \in 0..Capacity[k]
  BY CapacityFits DEF Balanced, ReleaseAll
<1> QED BY <1>1, CapacityFits DEF Balanced, ReleaseAll

-----------------------------------------------------------------------------
(* Version chains.                                                         *)

(* The maps a chain lives in.                                              *)
ChainMaps(trades, current) ==
  /\ DOMAIN trades \subseteq TradeVersionKeys
  /\ DOMAIN current \subseteq TradeIds
  /\ IsMap(current, Versions)

LEMMA CurrentKey ==
  ASSUME NEW trades, NEW current, ChainMaps(trades, current),
         Chained(trades, current), NEW id \in DOMAIN current
  PROVE  /\ <<id, current[id]>> \in DOMAIN trades
         /\ trades[<<id, current[id]>>].id = id
         /\ trades[<<id, current[id]>>].version = current[id]
         /\ <<id, current[id] + 1>> \notin DOMAIN trades
<1>1. current[id] \in Nat /\ current[id] \in 1..current[id]
  BY WidthsArePositive DEF ChainMaps, IsMap, Versions
<1>2. <<id, current[id] + 1>> \notin DOMAIN trades
  BY <1>1 DEF Chained
<1> QED BY <1>1, <1>2 DEF Chained

LEMMA ChainBook ==
  ASSUME NEW trades, NEW current, ChainMaps(trades, current),
         Chained(trades, current), NEW id, id \notin DOMAIN current,
         NEW path, NEW terms,
         NEW newTrades,
         Sets(newTrades, trades, <<id, 1>>, Capture(id, path, terms)),
         NEW newCurrent, Sets(newCurrent, current, id, 1)
  PROVE  Chained(newTrades, newCurrent)
<1>0. <<id, 1>> \notin DOMAIN trades
  BY DEF Chained
<1> USE <1>0 DEF Sets
<1>1. \A key \in DOMAIN newTrades : /\ key[1] \in DOMAIN newCurrent
                                    /\ key[2] <= newCurrent[key[1]]
  BY DEF Chained, ChainMaps
<1>2. ASSUME NEW k \in DOMAIN newCurrent, NEW v \in 1..newCurrent[k]
      PROVE  /\ <<k, v>> \in DOMAIN newTrades
             /\ LET t == newTrades[<<k, v>>]
                IN  /\ t.id = k
                    /\ t.version = v
                    /\ t.path = newTrades[<<k, 1>>].path
                    /\ t.supersedes = v - 1
                    /\ t.supersededBy =
                         IF v < newCurrent[k] THEN v + 1 ELSE NoVersion
                    /\ t.state = "Superseded" <=> v < newCurrent[k]
  <2>1. CASE k = id
    <3>1. v = 1 /\ newCurrent[k] = 1
      BY <2>1
    <3> QED BY <2>1, <3>1 DEF Capture, NoVersion
  <2>2. CASE k # id
    <3>1. k \in DOMAIN current /\ newCurrent[k] = current[k]
      BY <2>2
    <3>2. current[k] \in Nat /\ 1 \in 1..current[k]
      BY <3>1, WidthsArePositive DEF ChainMaps, IsMap, Versions
    <3>3. /\ <<k, v>> \in DOMAIN trades /\ <<k, 1>> \in DOMAIN trades
          /\ newTrades[<<k, v>>] = trades[<<k, v>>]
          /\ newTrades[<<k, 1>>] = trades[<<k, 1>>]
      BY <3>1, <3>2 DEF Chained
    <3> QED BY <3>1, <3>3 DEF Chained
  <2> QED BY <2>1, <2>2
<1> QED BY <1>1, <1>2 DEF Chained

(* A trade version in another state.                                       *)
SameVersion(t, u) ==
  /\ u.id = t.id /\ u.version = t.version /\ u.path = t.path
  /\ u.terms = t.terms /\ u.supersedes = t.supersedes

(* A change of states, other than to or from Superseded.                   *)
Restated(new, old) ==
  /\ DOMAIN new = DOMAIN old
  /\ \A k \in DOMAIN old :
       /\ SameVersion(old[k], new[k])
       /\ new[k].supersededBy = old[k].supersededBy
       /\ new[k].state = "Superseded" <=> old[k].state = "Superseded"

LEMMA ChainChange ==
  ASSUME NEW trades, NEW current, ChainMaps(trades, current),
         Chained(trades, current),
         NEW newTrades, Restated(newTrades, trades)
  PROVE  Chained(newTrades, current)
<1> USE DEF Restated, SameVersion
<1>1. ASSUME NEW k \in DOMAIN current, NEW v \in 1..current[k]
      PROVE  /\ <<k, v>> \in DOMAIN newTrades
             /\ LET t == newTrades[<<k, v>>]
                IN  /\ t.id = k
                    /\ t.version = v
                    /\ t.path = newTrades[<<k, 1>>].path
                    /\ t.supersedes = v - 1
                    /\ t.supersededBy =
                         IF v < current[k] THEN v + 1 ELSE NoVersion
                    /\ t.state = "Superseded" <=> v < current[k]
  <2>1. 1 \in 1..current[k]
    BY WidthsArePositive DEF ChainMaps, IsMap, Versions
  <2>2. <<k, v>> \in DOMAIN trades /\ <<k, 1>> \in DOMAIN trades
    BY <2>1 DEF Chained
  <2> QED BY <2>2 DEF Chained
<1> QED BY <1>1 DEF Chained

LEMMA ChainAmend ==
  ASSUME NEW trades, NEW current, ChainMaps(trades, current),
         Chained(trades, current), NEW id \in DOMAIN current,
         NEW last, last = current[id], NEW key, key = <<id, last>>,
         NEW newKey, newKey = <<id, last + 1>>,
         NEW old, old.id = id, old.version = last,
         old.path = trades[key].path, old.supersedes = trades[key].supersedes,
         old.supersededBy = last + 1, old.state = "Superseded",
         NEW new, new.id = id, new.version = last + 1,
         new.path = trades[key].path, new.supersedes = last,
         new.supersededBy = NoVersion, new.state # "Superseded",
         NEW replaced, Sets(replaced, trades, key, old),
         NEW newTrades, Sets(newTrades, replaced, newKey, new),
         NEW newCurrent, Sets(newCurrent, current, id, last + 1)
  PROVE  Chained(newTrades, newCurrent)
<1>1. last \in Nat /\ last > 0
  BY WidthsArePositive DEF ChainMaps, IsMap, Versions
<1>0. /\ DOMAIN newTrades = DOMAIN trades \cup {newKey}
      /\ newTrades[key] = old /\ newTrades[newKey] = new
      /\ \A k \in DOMAIN trades : k # key /\ k # newKey => newTrades[k] = trades[k]
      /\ DOMAIN newCurrent = DOMAIN current /\ newCurrent[id] = last + 1
      /\ \A k \in DOMAIN current : k # id => newCurrent[k] = current[k]
      /\ key \in DOMAIN trades /\ newKey # key /\ newKey \notin DOMAIN trades
  <2>1. key \in DOMAIN trades /\ newKey \notin DOMAIN trades
    BY CurrentKey
  <2>2. newKey # key
    BY <2>1
  <2> QED BY <2>1, <2>2 DEF Sets
<1> USE <1>0
<1>2. \A k \in DOMAIN newTrades : /\ k[1] \in DOMAIN newCurrent
                                  /\ k[2] <= newCurrent[k[1]]
  <2>1. \A k \in DOMAIN trades : k[2] \in Nat
    BY WidthsArePositive DEF ChainMaps, IsMap, TradeVersionKeys, Versions
  <2> QED BY <1>1, <2>1 DEF Chained
<1>3. ASSUME NEW k \in DOMAIN newCurrent, NEW v \in 1..newCurrent[k]
      PROVE  /\ <<k, v>> \in DOMAIN newTrades
             /\ LET t == newTrades[<<k, v>>]
                IN  /\ t.id = k
                    /\ t.version = v
                    /\ t.path = newTrades[<<k, 1>>].path
                    /\ t.supersedes = v - 1
                    /\ t.supersededBy =
                         IF v < newCurrent[k] THEN v + 1 ELSE NoVersion
                    /\ t.state = "Superseded" <=> v < newCurrent[k]
  <2>1. CASE k = id
    <3>1. newCurrent[k] = last + 1 /\ v \in 1..(last + 1) /\ 1 \in 1..last
      BY <1>1, <2>1
    <3>2. \A u \in 1..last :
            /\ <<id, u>> \in DOMAIN trades
            /\ <<id, u>> \in DOMAIN newTrades
            /\ newTrades[<<id, u>>].path = trades[<<id, u>>].path
            /\ trades[<<id, u>>].path = trades[<<id, 1>>].path
      BY DEF Chained
    <3>3. newTrades[<<id, 1>>].path = trades[<<id, 1>>].path
      BY <3>1, <3>2
    <3>4. trades[key].path = trades[<<id, 1>>].path
      BY <1>1, <3>2
    <3>5. CASE v = last + 1
      <4>1. newTrades[<<k, v>>] = new /\ <<k, v>> \in DOMAIN newTrades
        BY <2>1, <3>5
      <4>2. v - 1 = last /\ ~ v < newCurrent[k]
        BY <1>1, <3>1, <3>5
      <4> QED BY <2>1, <3>3, <3>4, <3>5, <4>1, <4>2
    <3>6. CASE v = last
      <4>1. last \in 1..last
        BY <1>1
      <4>2. trades[key].supersedes = last - 1
        <5>1. last \in 1..current[id] /\ id \in DOMAIN current /\ key = <<id, last>>
          BY <4>1
        <5>2. trades[<<id, last>>].supersedes = last - 1
          BY <5>1 DEF Chained
        <5> QED BY <5>1, <5>2
      <4>3. newTrades[<<k, v>>] = old /\ <<k, v>> \in DOMAIN newTrades
        BY <2>1, <3>6
      <4>4. v < newCurrent[k] /\ v + 1 = last + 1 /\ v - 1 = last - 1
        BY <1>1, <3>1, <3>6
      <4> QED BY <2>1, <3>3, <3>4, <3>6, <4>2, <4>3, <4>4
    <3>7. CASE v \in 1..(last - 1)
      <4>1. <<id, v>> \in DOMAIN trades /\ <<id, v>> # key /\ v \in 1..last /\ v < last
        BY <1>1, <3>2, <3>7
      <4>2. newTrades[<<id, v>>] = trades[<<id, v>>]
        BY <4>1
      <4>3. /\ trades[<<id, v>>].id = id /\ trades[<<id, v>>].version = v
            /\ trades[<<id, v>>].supersedes = v - 1
            /\ trades[<<id, v>>].supersededBy = v + 1
            /\ trades[<<id, v>>].state = "Superseded"
        <5>1. v \in 1..current[id] /\ v < current[id]
          BY <4>1
        <5> QED BY <5>1 DEF Chained
      <4>4. v < newCurrent[k]
        BY <1>1, <3>1, <4>1
      <4> QED BY <2>1, <3>2, <3>3, <4>1, <4>2, <4>3, <4>4
    <3> QED BY <1>1, <3>1, <3>5, <3>6, <3>7
  <2>2. CASE k # id
    <3>1. k \in DOMAIN current /\ newCurrent[k] = current[k]
      BY <2>2
    <3>2. 1 \in 1..current[k]
      BY <3>1, WidthsArePositive DEF ChainMaps, IsMap, Versions
    <3>3. /\ <<k, v>> \in DOMAIN trades /\ <<k, 1>> \in DOMAIN trades
          /\ newTrades[<<k, v>>] = trades[<<k, v>>]
          /\ newTrades[<<k, 1>>] = trades[<<k, 1>>]
      BY <2>2, <3>1, <3>2 DEF Chained
    <3> QED BY <3>1, <3>3 DEF Chained
  <2> QED BY <2>1, <2>2
<1> QED BY <1>2, <1>3 DEF Chained

-----------------------------------------------------------------------------
(* The ledger and its indexes.                                             *)

LEMMA AppendIdentified ==
  ASSUME NEW entries \in Seq(Entries), NEW ids, Identified(entries, ids),
         NEW entry \in Entries, EntryIds(entry) \cap ids = {},
         EntryError(entry) = Ok
  PROVE  Identified(Append(entries, entry), ids \cup EntryIds(entry))
<1> DEFINE n == Len(entries) + 1
<1>1. PICK longer : longer = Append(entries, entry)
  OBVIOUS
<1>2. /\ DOMAIN longer = DOMAIN entries \cup {n} /\ n \notin DOMAIN entries
      /\ longer[n] = entry
      /\ \A i \in DOMAIN entries : longer[i] = entries[i]
  BY <1>1
<1>3. \A i, j \in Lines : entry[i].id = entry[j].id => i = j
  BY EntryOk
<1> HIDE DEF n
<1>4. ids \cup EntryIds(entry) = UNION {EntryIds(longer[i]) : i \in DOMAIN longer}
  BY <1>2 DEF Identified
<1>5. \A i \in DOMAIN entries, l \in Lines : entries[i][l].id \in ids
  BY DEF Identified, EntryIds
<1>6. \A l \in Lines : entry[l].id \notin ids
  BY DEF EntryIds
<1>7. ASSUME NEW i \in DOMAIN longer, NEW j \in DOMAIN longer,
             NEW l \in Lines, NEW m \in Lines,
             longer[i][l].id = longer[j][m].id
      PROVE  i = j /\ l = m
  <2>1. CASE i = n /\ j = n
    BY <1>2, <1>3, <1>7, <2>1
  <2>2. CASE i = n /\ j # n
    BY <1>2, <1>5, <1>6, <1>7, <2>2
  <2>3. CASE i # n /\ j = n
    BY <1>2, <1>5, <1>6, <1>7, <2>3
  <2>4. CASE i # n /\ j # n
    <3>1. entries[i][l].id = entries[j][m].id /\ i \in DOMAIN entries /\ j \in DOMAIN entries
      BY <1>2, <1>7, <2>4
    <3> QED BY <3>1 DEF Identified
  <2> QED BY <2>1, <2>2, <2>3, <2>4
<1> QED BY <1>1, <1>4, <1>7 DEF Identified

(* A confirmation entry depends on what no later operation changes.        *)
LEMMA SameConfirmationEntry ==
  ASSUME NEW t, NEW u, u.id = t.id, u.version = t.version, u.path = t.path,
         u.terms = t.terms, NEW ids
  PROVE  ConfirmationEntry(u, ids) = ConfirmationEntry(t, ids)
BY DEF ConfirmationEntry

(* No change that would need another entry, or one where there was none.   *)
SameEntries(new, old, confirming) ==
  /\ DOMAIN new = DOMAIN old
  /\ \A k \in DOMAIN old :
       /\ SameVersion(old[k], new[k])
       /\ \/ new[k].state = old[k].state
          \/ new[k].state = "Cancelled"
          \/ k \in DOMAIN confirming /\ new[k].state # "Captured"

LEMMA ConfirmedStays ==
  ASSUME NEW trades, NEW entries, NEW confirming,
         ConfirmedBy(trades, entries, confirming),
         IsMap(confirming, DOMAIN entries),
         NEW newTrades, SameEntries(newTrades, trades, confirming),
         NEW newEntries, Extends(newEntries, entries)
  PROVE  ConfirmedBy(newTrades, newEntries, confirming)
<1> USE DEF SameEntries, SameVersion
<1> SUFFICES
      ASSUME NEW k \in DOMAIN trades
      PROVE  IF k \in DOMAIN confirming
             THEN LET entry == newEntries[confirming[k]]
                  IN  /\ newTrades[k].state # "Captured"
                      /\ entry = ConfirmationEntry(newTrades[k],
                                                   [i \in Lines |-> entry[i].id])
             ELSE newTrades[k].state \in {"Captured", "Cancelled"}
  BY DEF ConfirmedBy
<1>1. CASE k \in DOMAIN confirming
  <2>1. newEntries[confirming[k]] = entries[confirming[k]]
    BY <1>1 DEF Extends, IsMap
  <2>2. \A ids : ConfirmationEntry(newTrades[k], ids)
                 = ConfirmationEntry(trades[k], ids)
    BY SameConfirmationEntry
  <2> QED BY <1>1, <2>1, <2>2 DEF ConfirmedBy
<1>2. CASE k \notin DOMAIN confirming
  BY <1>2 DEF ConfirmedBy
<1> QED BY <1>1, <1>2

LEMMA ConfirmedAdd ==
  ASSUME NEW trades, NEW entries, NEW confirming,
         ConfirmedBy(trades, entries, confirming),
         IsMap(confirming, DOMAIN entries),
         DOMAIN confirming \subseteq DOMAIN trades,
         NEW key, NEW trade, trade.state # "Captured",
         NEW newTrades, Sets(newTrades, trades, key, trade),
         NEW newEntries, Extends(newEntries, entries),
         NEW n, NEW newConfirming, Sets(newConfirming, confirming, key, n),
         newEntries[n] = ConfirmationEntry(trade,
                                           [i \in Lines |-> newEntries[n][i].id])
  PROVE  ConfirmedBy(newTrades, newEntries, newConfirming)
<1> SUFFICES
      ASSUME NEW k \in DOMAIN newTrades
      PROVE  IF k \in DOMAIN newConfirming
             THEN LET e == newEntries[newConfirming[k]]
                  IN  /\ newTrades[k].state # "Captured"
                      /\ e = ConfirmationEntry(newTrades[k],
                                               [i \in Lines |-> e[i].id])
             ELSE newTrades[k].state \in {"Captured", "Cancelled"}
  BY DEF ConfirmedBy
<1>1. CASE k = key
  BY <1>1 DEF Sets
<1>2. CASE k # key /\ k \in DOMAIN confirming
  <2>1. /\ newTrades[k] = trades[k] /\ k \in DOMAIN trades
        /\ k \in DOMAIN newConfirming
        /\ newEntries[newConfirming[k]] = entries[confirming[k]]
    BY <1>2 DEF Sets, Extends, IsMap
  <2> QED BY <1>2, <2>1 DEF ConfirmedBy
<1>3. CASE k # key /\ k \notin DOMAIN confirming
  <2>1. /\ k \in DOMAIN trades /\ newTrades[k] = trades[k]
        /\ k \notin DOMAIN newConfirming
    BY <1>3 DEF Sets
  <2> QED BY <1>3, <2>1 DEF ConfirmedBy
<1> QED BY <1>1, <1>2, <1>3

-----------------------------------------------------------------------------
(* The inductive invariant.                                                *)

LedgerOK(entries, ids, totals) ==
  /\ entries \in Seq(Entries)
  /\ ids \subseteq PostingIds
  /\ totals \in [Currencies -> MinorUnits]
  /\ Identified(entries, ids)

DomainInv(s) ==
  /\ HasFields(s)
  /\ s.version \in 0..MaxStateVersion
  /\ IsMap(s.trades, Trades)
  /\ IsFiniteSet(DOMAIN s.trades)
  /\ ChainMaps(s.trades, s.currentVersions)
  /\ Chained(s.trades, s.currentVersions)
  /\ LedgerOK(s.ledgerEntries, s.postingIds, s.ledgerTotals)
  /\ DOMAIN s.confirmationEntries \subseteq DOMAIN s.trades
  /\ IsMap(s.confirmationEntries, DOMAIN s.ledgerEntries)
  /\ ConfirmedBy(s.trades, s.ledgerEntries, s.confirmationEntries)
  /\ Balanced(s.limits)
  /\ s.settlements \subseteq Obligations

LEMMA Meaning ==
  ASSUME NEW s, DomainInv(s)
  PROVE  /\ StateOK(s) /\ ChainHolds(s) /\ BalancesHold(s)
         /\ IdsAreUnique(s) /\ EntriesAreIndexed(s)
<1>1. StateOK(s)
  BY DEF DomainInv, StateOK, ChainMaps, LedgerOK, Balanced, IsMap
<1>2. BalancesHold(s)
  BY DEF DomainInv, BalancesHold, Balanced
<1>3. ChainHolds(s) /\ IdsAreUnique(s) /\ EntriesAreIndexed(s)
  BY DEF DomainInv, ChainHolds, IdsAreUnique, EntriesAreIndexed, LedgerOK
<1> QED BY <1>1, <1>2, <1>3

LEMMA Assemble ==
  ASSUME NEW r, NEW version, NEW trades, NEW current, NEW entries,
         NEW confirming, NEW ids, NEW totals, NEW limits, NEW settlements,
         Is(r, version, trades, current, entries, confirming, ids, totals,
            limits, settlements),
         version \in 0..MaxStateVersion,
         IsMap(trades, Trades), IsFiniteSet(DOMAIN trades),
         ChainMaps(trades, current), Chained(trades, current),
         LedgerOK(entries, ids, totals),
         DOMAIN confirming \subseteq DOMAIN trades,
         IsMap(confirming, DOMAIN entries),
         ConfirmedBy(trades, entries, confirming),
         Balanced(limits),
         settlements \subseteq Obligations
  PROVE  DomainInv(r)
BY DEF Is, DomainInv

LEMMA EmptyHolds == DomainInv(InitialState)
<1>1. DOMAIN EmptyMap = {} /\ \A T : IsMap(EmptyMap, T)
  BY DEF EmptyMap, IsMap
<1>2. 0 \in MinorUnits /\ NothingReserved \in [LimitKeys -> MinorUnits]
      /\ ZeroTotals \in [Currencies -> MinorUnits]
  BY WidthsArePositive DEF MinorUnits, NothingReserved, ZeroTotals
<1>3. PICK r : r = InitialState
  OBVIOUS
<1>4. Is(r, 0, EmptyMap, EmptyMap, <<>>, EmptyMap, {}, ZeroTotals,
         NothingReserved, {})
  BY <1>3 DEF InitialState, Is, HasFields
<1>5. Balanced(NothingReserved)
  BY <1>2, CapacityIsValid DEF Balanced, NothingReserved
<1>6. ChainMaps(EmptyMap, EmptyMap) /\ Chained(EmptyMap, EmptyMap)
  BY <1>1 DEF ChainMaps, Chained
<1>7. ConfirmedBy(EmptyMap, <<>>, EmptyMap)
  BY <1>1 DEF ConfirmedBy
<1>8. LedgerOK(<<>>, {}, ZeroTotals)
  BY <1>2 DEF LedgerOK, Identified
<1>9. 0 \in 0..MaxStateVersion /\ IsFiniteSet(DOMAIN EmptyMap)
  BY <1>1, StateVersionWidth, FS_EmptySet
<1>10. DomainInv(r)
  BY <1>1, <1>4, <1>5, <1>6, <1>7, <1>8, <1>9, Assemble
<1> QED BY <1>3, <1>10

-----------------------------------------------------------------------------
(* History.                                                                *)

LEMMA Prefix ==
  ASSUME NEW S, NEW a \in Seq(S), NEW b \in Seq(S), Extends(b, a)
  PROVE  IsPrefix(a, b)
<1> USE DEF Extends
<1>1. Len(a) <= Len(b)
  <2>1. CASE Len(a) = 0
    BY <2>1
  <2>2. CASE Len(a) # 0
    <3>1. Len(a) \in DOMAIN a
      BY <2>2
    <3> QED BY <3>1
  <2> QED BY <2>1, <2>2
<1>2. \A i \in 1..Len(a) : a[i] = b[i]
  OBVIOUS
<1>3. SubSeq(a, 1, Len(a)) = [i \in 1..Len(a) |-> a[i]]
  OBVIOUS
<1>4. SubSeq(b, 1, Len(a)) = [i \in 1..Len(a) |-> b[i]]
  BY <1>1
<1> QED BY <1>1, <1>2, <1>3, <1>4 DEF IsPrefix

LEMMA SameVersionRecord ==
  ASSUME NEW t \in Trades, NEW u \in Trades, SameVersion(t, u)
  PROVE  u = [t EXCEPT !.state = u.state, !.supersededBy = u.supersededBy]
BY DEF Trades, SameVersion

(* No version is lost, and only a live one may change.                     *)
Evolved(new, old) ==
  \A k \in DOMAIN old :
    /\ k \in DOMAIN new
    /\ \/ new[k] = old[k]
       \/ /\ old[k].state \in {"Captured", "Confirmed"}
          /\ SameVersion(old[k], new[k])

LEMMA HistoryFrom ==
  ASSUME NEW s, DomainInv(s), NEW r, NEW trades, NEW current, NEW entries,
         NEW confirming, NEW ids, NEW totals, NEW limits, NEW settlements,
         Is(r, s.version + 1, trades, current, entries, confirming, ids, totals,
            limits, settlements),
         LedgerOK(entries, ids, totals), Extends(entries, s.ledgerEntries),
         Extends(confirming, s.confirmationEntries),
         IsMap(trades, Trades), Evolved(trades, s.trades)
  PROVE  HistoryKept(s, r)
<1>1. /\ r.version = s.version + 1 /\ r.ledgerEntries = entries
      /\ r.trades = trades /\ r.confirmationEntries = confirming
  BY DEF Is
<1>2. IsPrefix(s.ledgerEntries, entries)
  <2>1. s.ledgerEntries \in Seq(Entries) /\ entries \in Seq(Entries)
    BY DEF DomainInv, LedgerOK
  <2> QED BY <2>1, Prefix
<1>3. ASSUME NEW k \in DOMAIN s.trades
      PROVE  /\ k \in DOMAIN trades
             /\ IF s.trades[k].state \in {"Captured", "Confirmed"}
                THEN trades[k] = [s.trades[k] EXCEPT
                                    !.state = trades[k].state,
                                    !.supersededBy = trades[k].supersededBy]
                ELSE trades[k] = s.trades[k]
  <2>1. k \in DOMAIN trades
    BY DEF Evolved
  <2>2. s.trades[k] \in Trades /\ trades[k] \in Trades
    BY <2>1 DEF DomainInv, IsMap
  <2>3. SameVersion(s.trades[k], s.trades[k])
    BY DEF SameVersion
  <2> QED BY <2>1, <2>2, <2>3, SameVersionRecord DEF Evolved
<1>4. \A k \in DOMAIN s.confirmationEntries :
         /\ k \in DOMAIN confirming
         /\ confirming[k] = s.confirmationEntries[k]
  BY DEF Extends
<1> QED BY <1>1, <1>2, <1>3, <1>4 DEF HistoryKept

-----------------------------------------------------------------------------
(* Every operation keeps the invariant and the history.                    *)

LEMMA NextStateVersion ==
  ASSUME NEW version \in 0..MaxStateVersion, version # MaxStateVersion
  PROVE  version + 1 \in 0..MaxStateVersion
BY StateVersionWidth

(* The current version of a trade.                                         *)
LEMMA CurrentOf ==
  ASSUME NEW s, DomainInv(s), NEW id, NEW version,
         id \in DOMAIN s.currentVersions, s.currentVersions[id] = version,
         NEW key, key = <<id, version>>
  PROVE  /\ key \in DOMAIN s.trades
         /\ s.trades[key] \in Trades
         /\ s.trades[key].id = id /\ s.trades[key].version = version
         /\ <<id, version + 1>> \notin DOMAIN s.trades
<1>1. ChainMaps(s.trades, s.currentVersions) /\ Chained(s.trades, s.currentVersions)
  BY DEF DomainInv
<1>2. /\ key \in DOMAIN s.trades
      /\ s.trades[key].id = id /\ s.trades[key].version = version
      /\ <<id, version + 1>> \notin DOMAIN s.trades
  BY <1>1, CurrentKey
<1> QED BY <1>2 DEF DomainInv, IsMap

LEMMA CurrentKnown ==
  ASSUME NEW s, DomainInv(s)
  PROVE  CurrentIsKnown(s)
<1>1. ChainMaps(s.trades, s.currentVersions) /\ Chained(s.trades, s.currentVersions)
  BY DEF DomainInv
<1>2. \A id \in DOMAIN s.currentVersions :
        /\ <<id, s.currentVersions[id]>> \in DOMAIN s.trades
        /\ s.trades[<<id, s.currentVersions[id]>>].id = id
        /\ s.trades[<<id, s.currentVersions[id]>>].version = s.currentVersions[id]
        /\ <<id, s.currentVersions[id] + 1>> \notin DOMAIN s.trades
  BY <1>1, CurrentKey
<1> QED BY <1>2 DEF CurrentIsKnown, CurrentTrade

(* One entry is appended.                                                  *)
LEMMA AppendKeeps ==
  ASSUME NEW s, LedgerOK(s.ledgerEntries, s.postingIds, s.ledgerTotals),
         NEW entry \in Entries,
         EntryError(entry) = Ok, AppendEntryError(s, entry) = Ok
  PROVE  /\ LedgerOK(Append(s.ledgerEntries, entry),
                     s.postingIds \cup EntryIds(entry),
                     TotalsWith(s.ledgerTotals, entry))
         /\ Extends(Append(s.ledgerEntries, entry), s.ledgerEntries)
         /\ Len(s.ledgerEntries) + 1 \in DOMAIN Append(s.ledgerEntries, entry)
         /\ Append(s.ledgerEntries, entry)[Len(s.ledgerEntries) + 1] = entry
<1>1. s.ledgerEntries \in Seq(Entries) /\ s.postingIds \subseteq PostingIds
  BY DEF LedgerOK
<1>2. Identified(Append(s.ledgerEntries, entry), s.postingIds \cup EntryIds(entry))
  <2>1. Identified(s.ledgerEntries, s.postingIds)
    BY DEF LedgerOK
  <2> QED BY <1>1, <2>1, AppendOk, AppendIdentified
<1>3. EntryIds(entry) \subseteq PostingIds
  BY DEF EntryIds, Entries, Postings
<1>4. TotalsWith(s.ledgerTotals, entry) \in [Currencies -> MinorUnits]
  BY AppendOk, TotalsType
<1>5. /\ Append(s.ledgerEntries, entry) \in Seq(Entries)
      /\ Len(s.ledgerEntries) + 1 \in DOMAIN Append(s.ledgerEntries, entry)
      /\ Append(s.ledgerEntries, entry)[Len(s.ledgerEntries) + 1] = entry
  BY <1>1
<1>6. Extends(Append(s.ledgerEntries, entry), s.ledgerEntries)
  BY <1>1 DEF Extends
<1> QED BY <1>1, <1>2, <1>3, <1>4, <1>5, <1>6 DEF LedgerOK

(* The index still leads into a ledger that has grown.                     *)
LEMMA IndexIntoLonger ==
  ASSUME NEW confirming, NEW entries, NEW longer,
         IsMap(confirming, DOMAIN entries), Extends(longer, entries)
  PROVE  IsMap(confirming, DOMAIN longer)
BY DEF IsMap, Extends

(* What a change of state by Apply leaves alone.                           *)
LEMMA ApplyKeeps ==
  ASSUME NEW trade \in Trades, NEW action, NEW next \in TradeStates,
         Transition(trade.state, action) = next,
         NEW r, r = Apply(trade, action)
  PROVE  /\ r \in Trades /\ r.state = next
         /\ SameVersion(trade, r) /\ r.supersededBy = trade.supersededBy
BY DEF Apply, Trades, SameVersion

(* A live version is put back in another state.                            *)
LEMMA RestateOne ==
  ASSUME NEW s, DomainInv(s), NEW key \in DOMAIN s.trades, NEW trade \in Trades,
         s.trades[key].state \in {"Captured", "Confirmed"},
         trade.state # "Superseded",
         SameVersion(s.trades[key], trade),
         trade.supersededBy = s.trades[key].supersededBy,
         NEW trades, trades = Put(s.trades, key, trade)
  PROVE  /\ Sets(trades, s.trades, key, trade) /\ DOMAIN trades = DOMAIN s.trades
         /\ IsMap(trades, Trades) /\ IsFiniteSet(DOMAIN trades)
         /\ ChainMaps(trades, s.currentVersions)
         /\ Chained(trades, s.currentVersions)
         /\ Evolved(trades, s.trades)
<1>1. IsMap(s.trades, Trades)
  BY DEF DomainInv
<1>2. Sets(trades, s.trades, key, trade) /\ IsMap(trades, Trades)
  BY <1>1, PutMap
<1>3. DOMAIN trades = DOMAIN s.trades
  BY <1>2 DEF Sets
<1>4. \A k \in DOMAIN s.trades :
         \/ trades[k] = s.trades[k]
         \/ k = key /\ trades[k] = trade
  BY <1>2 DEF Sets
<1>5. Restated(trades, s.trades)
  BY <1>3, <1>4 DEF Restated, SameVersion
<1>6. Evolved(trades, s.trades)
  BY <1>3, <1>4 DEF Evolved
<1>7. ChainMaps(trades, s.currentVersions) /\ IsFiniteSet(DOMAIN trades)
  BY <1>3 DEF DomainInv, ChainMaps
<1>8. Chained(trades, s.currentVersions)
  <2>1. ChainMaps(s.trades, s.currentVersions) /\ Chained(s.trades, s.currentVersions)
    BY DEF DomainInv
  <2> QED BY <1>5, <2>1, ChainChange
<1> QED BY <1>2, <1>3, <1>6, <1>7, <1>8

LEMMA ExtendsItself ==
  ASSUME NEW map
  PROVE  Extends(map, map)
BY DEF Extends

LEMMA BookKeeps ==
  ASSUME NEW s, DomainInv(s), NEW c, BookTradeError(s, c) = Ok,
         c.tradeId \in TradeIds, c.path \in LimitPath, c.terms \in FxTerms,
         NEW r, r = BookTradeResult(s, c)
  PROVE  DomainInv(r) /\ HistoryKept(s, r)
<1>1. PICK key : key = <<c.tradeId, 1>>
  OBVIOUS
<1>2. PICK trade : trade = Capture(c.tradeId, c.path, c.terms)
  OBVIOUS
<1>3. PICK trades : trades = Emplace(s.trades, key, trade)
  OBVIOUS
<1>4. PICK current : current = Emplace(s.currentVersions, c.tradeId, 1)
  OBVIOUS
<1>5. Is(r, s.version + 1, trades, current, s.ledgerEntries,
         s.confirmationEntries, s.postingIds, s.ledgerTotals, s.limits,
         s.settlements)
  BY <1>1, <1>2, <1>3, <1>4, BookTradeFields DEF DomainInv
<1>6. c.tradeId \notin DOMAIN s.currentVersions /\ s.version # MaxStateVersion
  BY BookAccepted
<1>7. /\ ChainMaps(s.trades, s.currentVersions)
      /\ Chained(s.trades, s.currentVersions)
      /\ IsMap(s.trades, Trades) /\ IsMap(s.currentVersions, Versions)
  BY DEF DomainInv, ChainMaps
<1>8. key \notin DOMAIN s.trades
  BY <1>1, <1>6, <1>7 DEF Chained
<1>9. trade \in Trades /\ 1 \in Versions
  BY <1>2, CaptureType, WidthsArePositive DEF Versions
<1>10. Sets(trades, s.trades, key, trade) /\ IsMap(trades, Trades)
  BY <1>3, <1>7, <1>8, <1>9, EmplaceMap
<1>11. Sets(current, s.currentVersions, c.tradeId, 1) /\ IsMap(current, Versions)
  BY <1>4, <1>6, <1>7, <1>9, EmplaceMap
<1>12. Chained(trades, current)
  BY <1>1, <1>2, <1>6, <1>7, <1>10, <1>11, ChainBook
<1>13. DOMAIN trades = DOMAIN s.trades \cup {key} /\ trades[key] = trade
       /\ \A k \in DOMAIN s.trades : trades[k] = s.trades[k]
  BY <1>8, <1>10 DEF Sets
<1>14. ChainMaps(trades, current)
  <2>1. DOMAIN current = DOMAIN s.currentVersions \cup {c.tradeId}
    BY <1>11 DEF Sets
  <2>2. key \in TradeVersionKeys
    BY <1>1, <1>9 DEF TradeVersionKeys
  <2> QED BY <1>7, <1>11, <1>13, <2>1, <2>2 DEF ChainMaps
<1>15. ConfirmedBy(trades, s.ledgerEntries, s.confirmationEntries)
  <2>1. key \notin DOMAIN s.confirmationEntries
    BY <1>8 DEF DomainInv
  <2>2. trade.state = "Captured"
    BY <1>2 DEF Capture
  <2>3. ConfirmedBy(s.trades, s.ledgerEntries, s.confirmationEntries)
    BY DEF DomainInv
  <2> QED BY <1>13, <2>1, <2>2, <2>3 DEF ConfirmedBy
<1>16. IsFiniteSet(DOMAIN trades)
  BY <1>13, FS_AddElement DEF DomainInv
<1>17. s.version + 1 \in 0..MaxStateVersion
  BY <1>6, NextStateVersion DEF DomainInv
<1>18. DOMAIN s.confirmationEntries \subseteq DOMAIN trades
  BY <1>13 DEF DomainInv
<1>19. /\ LedgerOK(s.ledgerEntries, s.postingIds, s.ledgerTotals)
       /\ IsMap(s.confirmationEntries, DOMAIN s.ledgerEntries)
       /\ Balanced(s.limits) /\ s.settlements \subseteq Obligations
  BY DEF DomainInv
<1>20. Evolved(trades, s.trades)
  BY <1>13 DEF Evolved
<1>21. HistoryKept(s, r)
  BY <1>5, <1>10, <1>19, <1>20, ExtendsItself, HistoryFrom
<1> QED BY <1>5, <1>10, <1>12, <1>14, <1>15, <1>16, <1>17, <1>18, <1>19, <1>21,
           Assemble

LEMMA ConfirmKeeps ==
  ASSUME NEW s, DomainInv(s), NEW c, ConfirmTradeError(s, c) = Ok,
         c.postingIds \in IdTuples,
         NEW r, r = ConfirmTradeResult(s, c)
  PROVE  DomainInv(r) /\ HistoryKept(s, r)
<1>1. PICK key : key = <<c.tradeId, c.expectedVersion>>
  OBVIOUS
<1>2. PICK current : current = s.trades[key]
  OBVIOUS
<1>3. PICK confirmed : confirmed = Apply(current, "ConfirmTrade")
  OBVIOUS
<1>4. PICK entry : entry = ConfirmationEntry(confirmed, c.postingIds)
  OBVIOUS
<1>5. /\ c.tradeId \in DOMAIN s.currentVersions
      /\ s.currentVersions[c.tradeId] = c.expectedVersion
      /\ current.state = "Captured"
      /\ ReserveError(s.limits, current.path, current.terms.pay) = Ok
      /\ EntryError(entry) = Ok
      /\ AppendEntryError(s, entry) = Ok
      /\ s.version # MaxStateVersion
  BY <1>1, <1>2, <1>3, <1>4, CurrentKnown, ConfirmAccepted
<1>6. /\ key \in DOMAIN s.trades /\ current \in Trades
      /\ current.id = c.tradeId /\ current.version = c.expectedVersion
      /\ <<c.tradeId, c.expectedVersion + 1>> \notin DOMAIN s.trades
  BY <1>1, <1>2, <1>5, CurrentOf
<1>7. /\ confirmed \in Trades /\ confirmed.state = "Confirmed"
      /\ SameVersion(current, confirmed)
      /\ confirmed.supersededBy = current.supersededBy
  <2>1. Transition(current.state, "ConfirmTrade") = "Confirmed"
    BY <1>5 DEF Transition
  <2>2. "Confirmed" \in TradeStates
    BY DEF TradeStates
  <2> QED BY <1>3, <1>6, <2>1, <2>2, ApplyKeeps
<1>8. /\ entry \in Entries
      /\ entry = ConfirmationEntry(confirmed, [i \in Lines |-> entry[i].id])
  BY <1>4, <1>7, ConfirmationEntryType
<1>9. PICK trades : trades = Put(s.trades, key, confirmed)
  OBVIOUS
<1>10. /\ Sets(trades, s.trades, key, confirmed)
       /\ DOMAIN trades = DOMAIN s.trades
       /\ IsMap(trades, Trades) /\ IsFiniteSet(DOMAIN trades)
       /\ ChainMaps(trades, s.currentVersions)
       /\ Chained(trades, s.currentVersions)
       /\ Evolved(trades, s.trades)
  BY <1>2, <1>5, <1>6, <1>7, <1>9, RestateOne
<1>11. PICK n : n = Len(s.ledgerEntries) + 1
  OBVIOUS
<1>12. PICK entries : entries = Append(s.ledgerEntries, entry)
  OBVIOUS
<1>13. PICK ids : ids = s.postingIds \cup EntryIds(entry)
  OBVIOUS
<1>14. PICK totals : totals = TotalsWith(s.ledgerTotals, entry)
  OBVIOUS
<1>15. /\ LedgerOK(entries, ids, totals) /\ Extends(entries, s.ledgerEntries)
       /\ n \in DOMAIN entries /\ entries[n] = entry
  <2>1. LedgerOK(s.ledgerEntries, s.postingIds, s.ledgerTotals)
    BY DEF DomainInv
  <2> QED BY <1>5, <1>8, <1>11, <1>12, <1>13, <1>14, <2>1, AppendKeeps
<1>16. PICK confirming : confirming = Emplace(s.confirmationEntries, key, n)
  OBVIOUS
<1>17. ConfirmedBy(s.trades, s.ledgerEntries, s.confirmationEntries)
  BY DEF DomainInv
<1>18. key \notin DOMAIN s.confirmationEntries
  BY <1>2, <1>5, <1>6, <1>17 DEF ConfirmedBy
<1>19. /\ IsMap(s.confirmationEntries, DOMAIN s.ledgerEntries)
       /\ DOMAIN s.confirmationEntries \subseteq DOMAIN s.trades
  BY DEF DomainInv
<1>20. IsMap(s.confirmationEntries, DOMAIN entries)
  BY <1>15, <1>19, IndexIntoLonger
<1>21. /\ Sets(confirming, s.confirmationEntries, key, n)
       /\ IsMap(confirming, DOMAIN entries)
       /\ Extends(confirming, s.confirmationEntries)
  BY <1>15, <1>16, <1>18, <1>20, EmplaceMap
<1>22. PICK limits : limits = Reserve(s.limits, current.path, current.terms.pay)
  OBVIOUS
<1>23. Balanced(limits)
  <2>1. current.terms.pay \in Money
    BY <1>6 DEF Trades, FxTerms
  <2> QED BY <1>5, <1>22, <2>1, ReserveBalanced DEF DomainInv
<1>24. Is(r, s.version + 1, trades, s.currentVersions, entries, confirming, ids,
          totals, limits, s.settlements)
  <2>1. HasFields(s)
    BY DEF DomainInv
  <2> QED BY <1>1, <1>2, <1>3, <1>4, <1>9, <1>11, <1>12, <1>13, <1>14, <1>16,
             <1>22, <2>1, ConfirmTradeFields
<1>25. ConfirmedBy(trades, entries, confirming)
  <2>1. entries[n] = ConfirmationEntry(confirmed,
                                       [i \in Lines |-> entries[n][i].id])
    BY <1>8, <1>15
  <2>2. confirmed.state # "Captured"
    BY <1>7
  <2> QED BY <1>10, <1>15, <1>17, <1>19, <1>21, <2>1, <2>2, ConfirmedAdd
<1>26. /\ s.version + 1 \in 0..MaxStateVersion
       /\ DOMAIN confirming \subseteq DOMAIN trades
       /\ s.settlements \subseteq Obligations
  BY <1>5, <1>6, <1>10, <1>19, <1>21, NextStateVersion DEF DomainInv, Sets
<1>27. HistoryKept(s, r)
  BY <1>10, <1>15, <1>21, <1>24, HistoryFrom
<1> QED BY <1>10, <1>15, <1>21, <1>23, <1>24, <1>25, <1>26, <1>27, Assemble

LEMMA AmendKeeps ==
  ASSUME NEW s, DomainInv(s), NEW c, AmendTradeError(s, c) = Ok,
         c.terms \in FxTerms, c.reversalIds \in IdTuples,
         c.postingIds \in IdTuples,
         NEW r, r = AmendTradeResult(s, c)
  PROVE  DomainInv(r) /\ HistoryKept(s, r)
<1>1. PICK key : key = <<c.tradeId, c.expectedVersion>>
  OBVIOUS
<1>2. PICK current : current = s.trades[key]
  OBVIOUS
<1>3. PICK replacement : replacement = Replacement(current, c.terms)
  OBVIOUS
<1>4. PICK reversal :
        reversal = ReversalEntry(s.ledgerEntries[s.confirmationEntries[key]],
                                 c.reversalIds)
  OBVIOUS
<1>5. PICK entry : entry = ConfirmationEntry(replacement, c.postingIds)
  OBVIOUS
<1>6. PICK mid : mid = AppendEntry(s, reversal)
  OBVIOUS
<1>7. /\ c.tradeId \in DOMAIN s.currentVersions
      /\ s.currentVersions[c.tradeId] = c.expectedVersion
      /\ current.state = "Confirmed"
      /\ current.version # MaxTradeVersion
      /\ key \in DOMAIN s.confirmationEntries
      /\ ReleaseError(s.limits, current.path, current.terms.pay) = Ok
      /\ ReserveError(Release(s.limits, current.path, current.terms.pay),
                      replacement.path, replacement.terms.pay) = Ok
      /\ EntryError(reversal) = Ok
      /\ EntryError(entry) = Ok
      /\ AppendEntryError(s, reversal) = Ok
      /\ AppendEntryError(mid, entry) = Ok
      /\ s.version # MaxStateVersion
  BY <1>1, <1>2, <1>3, <1>4, <1>5, <1>6, CurrentKnown, AmendAccepted
<1>8. /\ key \in DOMAIN s.trades /\ current \in Trades
      /\ current.id = c.tradeId /\ current.version = c.expectedVersion
      /\ <<c.tradeId, c.expectedVersion + 1>> \notin DOMAIN s.trades
  BY <1>1, <1>2, <1>7, CurrentOf
<1>9. /\ replacement \in Trades
      /\ replacement.id = c.tradeId
      /\ replacement.version = c.expectedVersion + 1
      /\ replacement.path = current.path /\ replacement.state = "Confirmed"
      /\ replacement.supersedes = c.expectedVersion
      /\ replacement.supersededBy = NoVersion
  BY <1>3, <1>7, <1>8, ReplacementType
<1>10. PICK old : old = Superseded(current)
  OBVIOUS
<1>11. /\ old \in Trades /\ old.state = "Superseded"
       /\ old.supersededBy = c.expectedVersion + 1
       /\ old.id = c.tradeId /\ old.version = c.expectedVersion
       /\ old.path = current.path /\ old.supersedes = current.supersedes
       /\ SameVersion(current, old)
  BY <1>7, <1>8, <1>10, SupersededType DEF SameVersion
<1>12. PICK newKey : newKey = <<c.tradeId, replacement.version>>
  OBVIOUS
<1>13. newKey \notin DOMAIN s.trades /\ newKey = <<c.tradeId, c.expectedVersion + 1>>
  BY <1>8, <1>9, <1>12
(* The maps, one after the other.                                          *)
<1>14. /\ IsMap(s.trades, Trades) /\ IsMap(s.currentVersions, Versions)
       /\ ChainMaps(s.trades, s.currentVersions)
       /\ Chained(s.trades, s.currentVersions)
       /\ DOMAIN s.confirmationEntries \subseteq DOMAIN s.trades
       /\ IsMap(s.confirmationEntries, DOMAIN s.ledgerEntries)
       /\ ConfirmedBy(s.trades, s.ledgerEntries, s.confirmationEntries)
       /\ LedgerOK(s.ledgerEntries, s.postingIds, s.ledgerTotals)
  BY DEF DomainInv, ChainMaps
<1>15. PICK replaced : replaced = Put(s.trades, key, old)
  OBVIOUS
<1>16. /\ Sets(replaced, s.trades, key, old) /\ IsMap(replaced, Trades)
       /\ DOMAIN replaced = DOMAIN s.trades
  <2>1. Sets(replaced, s.trades, key, old) /\ IsMap(replaced, Trades)
    BY <1>11, <1>14, <1>15, PutMap
  <2> QED BY <1>8, <2>1 DEF Sets
<1>17. PICK trades : trades = Emplace(replaced, newKey, replacement)
  OBVIOUS
<1>18. /\ Sets(trades, replaced, newKey, replacement) /\ IsMap(trades, Trades)
       /\ Extends(trades, replaced)
       /\ DOMAIN trades = DOMAIN s.trades \cup {newKey}
  <2>1. /\ Sets(trades, replaced, newKey, replacement) /\ IsMap(trades, Trades)
        /\ Extends(trades, replaced)
    BY <1>9, <1>13, <1>16, <1>17, EmplaceMap
  <2> QED BY <1>16, <2>1 DEF Sets
<1>19. PICK versions :
         versions = Put(s.currentVersions, c.tradeId, replacement.version)
  OBVIOUS
<1>20. /\ Sets(versions, s.currentVersions, c.tradeId, c.expectedVersion + 1)
       /\ IsMap(versions, Versions)
       /\ DOMAIN versions = DOMAIN s.currentVersions
       /\ c.expectedVersion + 1 \in Versions
  <2>1. replacement.version \in Versions
    BY <1>9 DEF Trades
  <2>2. /\ Sets(versions, s.currentVersions, c.tradeId, replacement.version)
        /\ IsMap(versions, Versions)
    BY <1>14, <1>19, <2>1, PutMap
  <2> QED BY <1>7, <1>9, <2>1, <2>2 DEF Sets
(* The ledger.                                                             *)
<1>21. reversal \in Entries
  <2>1. s.ledgerEntries[s.confirmationEntries[key]] \in Entries
    BY <1>7, <1>14 DEF IsMap, LedgerOK
  <2> QED BY <1>4, <2>1, ReversalEntryType
<1>22. /\ entry \in Entries
       /\ entry = ConfirmationEntry(replacement, [i \in Lines |-> entry[i].id])
  BY <1>5, <1>9, ConfirmationEntryType
<1>23. PICK entries1 : entries1 = Append(s.ledgerEntries, reversal)
  OBVIOUS
<1>24. PICK ids1 : ids1 = s.postingIds \cup EntryIds(reversal)
  OBVIOUS
<1>25. PICK totals1 : totals1 = TotalsWith(s.ledgerTotals, reversal)
  OBVIOUS
<1>26. /\ mid.ledgerEntries = entries1 /\ mid.postingIds = ids1
       /\ mid.ledgerTotals = totals1
  <2>1. Is(s, s.version, s.trades, s.currentVersions, s.ledgerEntries,
           s.confirmationEntries, s.postingIds, s.ledgerTotals, s.limits,
           s.settlements)
    BY DEF Is, DomainInv
  <2>2. Is(AppendEntry(s, reversal), s.version, s.trades, s.currentVersions,
           Append(s.ledgerEntries, reversal), s.confirmationEntries,
           s.postingIds \cup EntryIds(reversal),
           TotalsWith(s.ledgerTotals, reversal), s.limits, s.settlements)
    BY <2>1, AppendFields
  <2>3. Is(mid, s.version, s.trades, s.currentVersions, entries1,
           s.confirmationEntries, ids1, totals1, s.limits, s.settlements)
    BY <1>6, <1>23, <1>24, <1>25, <2>2
  <2> QED BY <2>3 DEF Is
<1>27. LedgerOK(entries1, ids1, totals1) /\ Extends(entries1, s.ledgerEntries)
  BY <1>7, <1>14, <1>21, <1>23, <1>24, <1>25, AppendKeeps
<1>28. PICK entries : entries = Append(entries1, entry)
  OBVIOUS
<1>29. PICK ids : ids = ids1 \cup EntryIds(entry)
  OBVIOUS
<1>30. PICK totals : totals = TotalsWith(totals1, entry)
  OBVIOUS
<1>31. PICK n : n = Len(s.ledgerEntries) + 2
  OBVIOUS
<1>32. n = Len(entries1) + 1
  <2>1. s.ledgerEntries \in Seq(Entries)
    BY <1>14 DEF LedgerOK
  <2> QED BY <1>21, <1>23, <1>31, <2>1
<1>33. /\ LedgerOK(entries, ids, totals) /\ Extends(entries, entries1)
       /\ n \in DOMAIN entries /\ entries[n] = entry
  BY <1>7, <1>22, <1>26, <1>27, <1>28, <1>29, <1>30, <1>32, AppendKeeps
<1>34. Extends(entries, s.ledgerEntries)
  BY <1>27, <1>33 DEF Extends
<1>35. PICK confirming : confirming = Emplace(s.confirmationEntries, newKey, n)
  OBVIOUS
<1>36. IsMap(s.confirmationEntries, DOMAIN entries)
  BY <1>14, <1>34, IndexIntoLonger
<1>37. /\ Sets(confirming, s.confirmationEntries, newKey, n)
       /\ IsMap(confirming, DOMAIN entries)
       /\ Extends(confirming, s.confirmationEntries)
  <2>1. newKey \notin DOMAIN s.confirmationEntries
    BY <1>13, <1>14
  <2> QED BY <1>33, <1>35, <1>36, <2>1, EmplaceMap
(* The limits.                                                             *)
<1>38. PICK limits :
         limits = Reserve(Release(s.limits, current.path, current.terms.pay),
                          replacement.path, replacement.terms.pay)
  OBVIOUS
<1>39. Balanced(limits)
  <2>1. current.terms.pay \in Money /\ replacement.terms.pay \in Money
    BY <1>8, <1>9 DEF Trades, FxTerms
  <2>2. Balanced(Release(s.limits, current.path, current.terms.pay))
    BY <1>7, <2>1, ReleaseBalanced DEF DomainInv
  <2> QED BY <1>7, <1>38, <2>1, <2>2, ReserveBalanced
(* The result.                                                             *)
<1>40. Is(r, s.version + 1, trades, versions, entries, confirming, ids, totals,
          limits, s.settlements)
  <2>1. HasFields(s)
    BY DEF DomainInv
  <2> QED BY <1>1, <1>2, <1>3, <1>4, <1>5, <1>10, <1>12, <1>15, <1>17, <1>19,
             <1>23, <1>24, <1>25, <1>28, <1>29, <1>30, <1>31, <1>35, <1>38,
             <2>1, AmendTradeFields
<1>41. Chained(trades, versions)
  <2>1. PICK last : last = c.expectedVersion
    OBVIOUS
  <2>2. /\ last = s.currentVersions[c.tradeId] /\ key = <<c.tradeId, last>>
        /\ newKey = <<c.tradeId, last + 1>>
        /\ old.id = c.tradeId /\ old.version = last
        /\ old.path = s.trades[key].path
        /\ old.supersedes = s.trades[key].supersedes
        /\ old.supersededBy = last + 1 /\ old.state = "Superseded"
        /\ replacement.id = c.tradeId /\ replacement.version = last + 1
        /\ replacement.path = s.trades[key].path
        /\ replacement.supersedes = last
        /\ replacement.supersededBy = NoVersion
        /\ replacement.state # "Superseded"
        /\ Sets(versions, s.currentVersions, c.tradeId, last + 1)
    BY <1>1, <1>2, <1>7, <1>9, <1>11, <1>13, <1>20, <2>1
  <2> QED BY <1>7, <1>14, <1>16, <1>18, <2>2, ChainAmend
<1>42. ConfirmedBy(trades, entries, confirming)
  <2>1. SameEntries(replaced, s.trades, s.confirmationEntries)
    <3>1. old.state # "Captured"
      BY <1>11
    <3>2. \A k \in DOMAIN s.trades :
            \/ replaced[k] = s.trades[k]
            \/ k = key /\ replaced[k] = old
      <4>1. Sets(replaced, s.trades, key, old)
        BY <1>16
      <4> QED BY <4>1 DEF Sets
    <3>3. \A k \in DOMAIN s.trades :
            /\ SameVersion(s.trades[k], replaced[k])
            /\ \/ replaced[k].state = s.trades[k].state
               \/ /\ k \in DOMAIN s.confirmationEntries
                  /\ replaced[k].state # "Captured"
      <4>1. SameVersion(s.trades[key], old)
        BY <1>2, <1>11
      <4>2. \A t : SameVersion(t, t)
        BY DEF SameVersion
      <4> QED BY <1>7, <3>1, <3>2, <4>1, <4>2
    <3> QED BY <1>16, <3>3 DEF SameEntries
  <2>2. ConfirmedBy(replaced, entries, s.confirmationEntries)
    BY <1>14, <1>34, <2>1, ConfirmedStays
  <2>3. entries[n] = ConfirmationEntry(replacement,
                                       [i \in Lines |-> entries[n][i].id])
    BY <1>22, <1>33
  <2>4. /\ replacement.state # "Captured"
        /\ DOMAIN s.confirmationEntries \subseteq DOMAIN replaced
    BY <1>9, <1>14, <1>16
  <2> QED BY <1>18, <1>36, <1>37, <2>2, <2>3, <2>4, ExtendsItself, ConfirmedAdd
<1>43. /\ s.version + 1 \in 0..MaxStateVersion
       /\ s.settlements \subseteq Obligations
  BY <1>7, NextStateVersion DEF DomainInv
<1>44. DOMAIN confirming \subseteq DOMAIN trades
  BY <1>14, <1>18, <1>37 DEF Sets
<1>45. IsFiniteSet(DOMAIN trades)
  BY <1>18, FS_AddElement DEF DomainInv
<1>46. ChainMaps(trades, versions)
  <2>1. newKey \in TradeVersionKeys
    BY <1>7, <1>13, <1>14, <1>20 DEF ChainMaps, TradeVersionKeys
  <2> QED BY <1>14, <1>18, <1>20, <2>1 DEF ChainMaps
<1>47. HistoryKept(s, r)
  <2>1. Evolved(trades, s.trades)
    <3>1. \A k \in DOMAIN s.trades :
            /\ k \in DOMAIN trades
            /\ \/ trades[k] = s.trades[k]
               \/ k = key /\ trades[k] = old
      BY <1>16, <1>18 DEF Sets, Extends
    <3> QED BY <1>2, <1>7, <1>11, <3>1 DEF Evolved
  <2> QED BY <1>18, <1>33, <1>34, <1>37, <1>40, <2>1, HistoryFrom
<1> QED BY <1>18, <1>33, <1>37, <1>39, <1>40, <1>41, <1>42, <1>43, <1>44,
           <1>45, <1>46, <1>47, Assemble

LEMMA CancelKeeps ==
  ASSUME NEW s, DomainInv(s), NEW c, CancelTradeError(s, c) = Ok,
         c.reversalIds \in IdTuples \cup {NoReversalIds},
         NEW r, r = CancelTradeResult(s, c)
  PROVE  DomainInv(r) /\ HistoryKept(s, r)
<1>1. PICK key : key = <<c.tradeId, c.expectedVersion>>
  OBVIOUS
<1>2. PICK current : current = s.trades[key]
  OBVIOUS
<1>3. PICK cancelled : cancelled = Apply(current, "CancelTrade")
  OBVIOUS
<1>4. PICK reversal :
        reversal = ReversalEntry(s.ledgerEntries[s.confirmationEntries[key]],
                                 c.reversalIds)
  OBVIOUS
<1>5. /\ c.tradeId \in DOMAIN s.currentVersions
      /\ s.currentVersions[c.tradeId] = c.expectedVersion
      /\ current.state \in {"Captured", "Confirmed"}
      /\ current.state = "Confirmed" =>
           /\ c.reversalIds # NoReversalIds
           /\ key \in DOMAIN s.confirmationEntries
           /\ ReleaseError(s.limits, current.path, current.terms.pay) = Ok
           /\ EntryError(reversal) = Ok
           /\ AppendEntryError(s, reversal) = Ok
      /\ s.version # MaxStateVersion
  BY <1>1, <1>2, <1>4, CurrentKnown, CancelAccepted
<1>6. /\ key \in DOMAIN s.trades /\ current \in Trades
      /\ current.id = c.tradeId /\ current.version = c.expectedVersion
      /\ <<c.tradeId, c.expectedVersion + 1>> \notin DOMAIN s.trades
  <2>1. PICK id : id = c.tradeId
    OBVIOUS
  <2>2. PICK version : version = c.expectedVersion
    OBVIOUS
  <2>3. /\ id \in DOMAIN s.currentVersions /\ s.currentVersions[id] = version
        /\ key = <<id, version>>
    BY <1>1, <1>5, <2>1, <2>2
  <2>4. /\ key \in DOMAIN s.trades /\ s.trades[key] \in Trades
        /\ s.trades[key].id = id /\ s.trades[key].version = version
        /\ <<id, version + 1>> \notin DOMAIN s.trades
    BY <2>3, CurrentOf
  <2> QED BY <1>2, <2>1, <2>2, <2>4
<1>7. /\ cancelled \in Trades /\ cancelled.state = "Cancelled"
      /\ SameVersion(current, cancelled)
      /\ cancelled.supersededBy = current.supersededBy
  <2>1. Transition(current.state, "CancelTrade") = "Cancelled"
    BY <1>5 DEF Transition
  <2>2. "Cancelled" \in TradeStates
    BY DEF TradeStates
  <2> QED BY <1>3, <1>6, <2>1, <2>2, ApplyKeeps
<1>8. PICK trades : trades = Put(s.trades, key, cancelled)
  OBVIOUS
<1>9. /\ Sets(trades, s.trades, key, cancelled)
      /\ DOMAIN trades = DOMAIN s.trades
      /\ IsMap(trades, Trades) /\ IsFiniteSet(DOMAIN trades)
      /\ ChainMaps(trades, s.currentVersions)
      /\ Chained(trades, s.currentVersions)
      /\ Evolved(trades, s.trades)
  BY <1>2, <1>5, <1>6, <1>7, <1>8, RestateOne
<1>10. /\ LedgerOK(s.ledgerEntries, s.postingIds, s.ledgerTotals)
       /\ DOMAIN s.confirmationEntries \subseteq DOMAIN trades
       /\ IsMap(s.confirmationEntries, DOMAIN s.ledgerEntries)
       /\ ConfirmedBy(s.trades, s.ledgerEntries, s.confirmationEntries)
       /\ Balanced(s.limits) /\ s.settlements \subseteq Obligations
  BY <1>9 DEF DomainInv
<1>11. s.version + 1 \in 0..MaxStateVersion
  BY <1>5, NextStateVersion DEF DomainInv
<1>12. SameEntries(trades, s.trades, s.confirmationEntries)
  <2>1. \A k \in DOMAIN s.trades :
          \/ trades[k] = s.trades[k]
          \/ k = key /\ trades[k] = cancelled
    <3>1. Sets(trades, s.trades, key, cancelled)
      BY <1>9
    <3> QED BY <3>1 DEF Sets
  <2> QED BY <1>2, <1>7, <1>9, <2>1 DEF SameEntries, SameVersion
<1>13. HasFields(s)
  BY DEF DomainInv
<1>14. Extends(s.confirmationEntries, s.confirmationEntries)
       /\ Extends(s.ledgerEntries, s.ledgerEntries)
  BY ExtendsItself
<1>15. CASE current.state = "Captured"
  <2>1. Is(r, s.version + 1, trades, s.currentVersions, s.ledgerEntries,
           s.confirmationEntries, s.postingIds, s.ledgerTotals, s.limits,
           s.settlements)
    BY <1>1, <1>2, <1>3, <1>4, <1>8, <1>13, <1>15, CancelTradeFields
  <2>2. ConfirmedBy(trades, s.ledgerEntries, s.confirmationEntries)
    BY <1>10, <1>12, <1>14, ConfirmedStays
  <2>3. HistoryKept(s, r)
    BY <1>9, <1>10, <1>14, <2>1, HistoryFrom
  <2> QED BY <1>9, <1>10, <1>11, <2>1, <2>2, <2>3, Assemble
<1>16. CASE current.state = "Confirmed"
  <2>1. PICK entries : entries = Append(s.ledgerEntries, reversal)
    OBVIOUS
  <2>2. PICK ids : ids = s.postingIds \cup EntryIds(reversal)
    OBVIOUS
  <2>3. PICK totals : totals = TotalsWith(s.ledgerTotals, reversal)
    OBVIOUS
  <2>4. PICK limits : limits = Release(s.limits, current.path, current.terms.pay)
    OBVIOUS
  <2>5. reversal \in Entries
    <3>1. s.ledgerEntries[s.confirmationEntries[key]] \in Entries
      BY <1>5, <1>10, <1>16 DEF IsMap, LedgerOK
    <3>2. c.reversalIds \in IdTuples
      BY <1>5, <1>16
    <3> QED BY <1>4, <3>1, <3>2, ReversalEntryType
  <2>6. LedgerOK(entries, ids, totals) /\ Extends(entries, s.ledgerEntries)
    BY <1>5, <1>10, <1>16, <2>1, <2>2, <2>3, <2>5, AppendKeeps
  <2>7. IsMap(s.confirmationEntries, DOMAIN entries)
    BY <1>10, <2>6, IndexIntoLonger
  <2>8. Balanced(limits)
    <3>1. current.terms.pay \in Money
      BY <1>6 DEF Trades, FxTerms
    <3> QED BY <1>5, <1>10, <1>16, <2>4, <3>1, ReleaseBalanced
  <2>9. ConfirmedBy(trades, entries, s.confirmationEntries)
    BY <1>10, <1>12, <2>6, ConfirmedStays
  <2>10. Is(r, s.version + 1, trades, s.currentVersions, entries,
            s.confirmationEntries, ids, totals, limits, s.settlements)
    <3>1. current.state # "Captured"
      BY <1>16
    <3> QED BY <1>1, <1>2, <1>3, <1>4, <1>8, <1>13, <2>1, <2>2, <2>3, <2>4,
               <3>1, CancelTradeFields
  <2>11. HistoryKept(s, r)
    BY <1>9, <1>14, <2>6, <2>10, HistoryFrom
  <2> QED BY <1>9, <1>10, <1>11, <2>6, <2>7, <2>8, <2>9, <2>10, <2>11, Assemble
<1> QED BY <1>5, <1>15, <1>16

-----------------------------------------------------------------------------
(* End of day.                                                             *)

(* The elements of the sequence of a finite set are those of the set.      *)
LEMMA SetToSeqType ==
  ASSUME NEW S, IsFiniteSet(S), NEW q, q = SetToSeq(S)
  PROVE  \A i \in DOMAIN q : q[i] \in S
<1>1. PICK n : n = Cardinality(S)
  OBVIOUS
<1>2. ExistsBijection(1..n, S)
  BY <1>1, FS_CardinalityType
<1>3. \E f \in [1..n -> S] : IsInjective(f)
  BY <1>2 DEF ExistsBijection, Bijection, Injection
<1>4. q \in [1..n -> S]
  BY <1>1, <1>3 DEF SetToSeq
<1> QED BY <1>4

(* Only trades of the map are settled trades.                              *)
LEMMA SettledTradesType ==
  ASSUME NEW trades, IsMap(trades, Trades), IsFiniteSet(DOMAIN trades),
         NEW settled, settled = SettledTrades(trades)
  PROVE  \A i \in DOMAIN settled : settled[i] \in Trades
<1> DEFINE keys == {key \in DOMAIN trades : trades[key].state = "Settled"}
<1>1. keys \subseteq DOMAIN trades /\ IsFiniteSet(keys)
  BY FS_Subset
<1>2. PICK q : q = SetToSeq(keys)
  OBVIOUS
<1>3. settled = [i \in DOMAIN q |-> trades[q[i]]]
  BY <1>2 DEF SettledTrades
<1> HIDE DEF keys
<1>4. \A i \in DOMAIN q : q[i] \in keys
  BY <1>1, <1>2, SetToSeqType
<1> QED BY <1>1, <1>3, <1>4 DEF IsMap

(* Each obligation has a key, a direction and an amount that fits.         *)
LEMMA SettlementsType ==
  ASSUME NEW settled, \A i \in DOMAIN settled : settled[i] \in Trades,
         SettlementError(settled) = Ok
  PROVE  DeriveSettlements(settled) \subseteq Obligations
<1>1. \A t \in Trades : \A leg \in 1..2 : Cashflows(t)[leg].key \in SettlementKeys
  <2>1. \A t \in Trades, money \in Money : \A direction :
          Cashflow(t, money, direction).key \in SettlementKeys
    BY DEF Cashflow, SettlementKeys, Trades, LimitPath, FxTerms, Money
  <2>2. \A t \in Trades : t.terms.pay \in Money /\ t.terms.receive \in Money
    BY DEF Trades, FxTerms
  <2> QED BY <2>1, <2>2 DEF Cashflows
<1>2. KeysOf(settled) \subseteq SettlementKeys
  BY <1>1 DEF KeysOf
<1>3. \A key \in NonZeroKeys(settled) :
         /\ key \in SettlementKeys
         /\ NetOf(settled, key).direction \in Directions
         /\ Magnitude(NetOf(settled, key)) \in 0..MaxMinor
  <2>1. \A key \in NonZeroKeys(settled) :
          Magnitude(NetOf(settled, key)) \in 0..MaxMinor
    BY DEF SettlementError, Fail, Ok
  <2> QED BY <1>2, <2>1 DEF NonZeroKeys
<1> QED BY <1>3 DEF DeriveSettlements, Obligations

(* What end of day does to the trades: the eligible ones are settled.      *)
LEMMA SettleAllType ==
  ASSUME NEW s, DomainInv(s), NEW asOf, NEW keys, keys = Eligible(s, asOf),
         NEW trades, trades = SettleAll(s, keys)
  PROVE  /\ DOMAIN trades = DOMAIN s.trades /\ IsMap(trades, Trades)
         /\ \A k \in DOMAIN s.trades :
              \/ trades[k] = s.trades[k]
              \/ /\ s.trades[k].state = "Confirmed"
                 /\ trades[k].state = "Settled"
                 /\ SameVersion(s.trades[k], trades[k])
                 /\ trades[k].supersededBy = s.trades[k].supersededBy
<1>1. DOMAIN trades = DOMAIN s.trades
  BY DEF SettleAll
<1>2. \A k \in DOMAIN s.trades : s.trades[k] \in Trades
  BY DEF DomainInv, IsMap
<1>3. \A k \in DOMAIN s.trades :
        /\ k \in keys => /\ s.trades[k].state = "Confirmed"
                         /\ trades[k] = Apply(s.trades[k], "RunEod")
        /\ k \notin keys => trades[k] = s.trades[k]
  BY DEF SettleAll, Eligible
<1>4. ASSUME NEW k \in DOMAIN s.trades, k \in keys
      PROVE  /\ trades[k] \in Trades
             /\ s.trades[k].state = "Confirmed"
             /\ trades[k].state = "Settled"
             /\ SameVersion(s.trades[k], trades[k])
             /\ trades[k].supersededBy = s.trades[k].supersededBy
  <2>1. PICK old : old = s.trades[k]
    OBVIOUS
  <2>2. PICK new : new = trades[k]
    OBVIOUS
  <2>3. old \in Trades /\ old.state = "Confirmed" /\ new = Apply(old, "RunEod")
    BY <1>2, <1>3, <1>4, <2>1, <2>2
  <2>4. Transition(old.state, "RunEod") = "Settled" /\ "Settled" \in TradeStates
    BY <2>3 DEF Transition, TradeStates
  <2>5. /\ new \in Trades /\ new.state = "Settled"
        /\ SameVersion(old, new) /\ new.supersededBy = old.supersededBy
    BY <2>3, <2>4, ApplyKeeps
  <2> QED BY <2>1, <2>2, <2>3, <2>5
<1>5. \A k \in DOMAIN trades : trades[k] \in Trades
  BY <1>1, <1>2, <1>3, <1>4
<1>6. IsMap(trades, Trades)
  <2>1. trades = [k \in DOMAIN trades |-> trades[k]]
    BY DEF SettleAll
  <2> QED BY <1>5, <2>1 DEF IsMap
<1> QED BY <1>1, <1>3, <1>4, <1>6

LEMMA EodKeeps ==
  ASSUME NEW s, DomainInv(s), NEW c, RunEodError(s, c) = Ok,
         NEW r, r = RunEodResult(s, c)
  PROVE  DomainInv(r) /\ (r = s \/ HistoryKept(s, r))
<1>1. PICK keys : keys = Eligible(s, c.asOf)
  OBVIOUS
<1>2. CASE keys = {}
  BY <1>1, <1>2 DEF RunEodResult
<1>3. CASE keys # {}
  <2>1. PICK trades : trades = SettleAll(s, keys)
    OBVIOUS
  <2>2. PICK settled : settled = SettledTrades(trades)
    OBVIOUS
  <2>3. PICK limits : limits = ReleaseAll(s, keys)
    OBVIOUS
  <2>4. PICK settlements : settlements = DeriveSettlements(settled)
    OBVIOUS
  <2>5. /\ \A k \in LimitKeys : Freed(s, keys, k) \in 0..s.limits[k]
        /\ SettlementError(settled) = Ok
        /\ s.version # MaxStateVersion
    BY <1>1, <1>3, <2>1, <2>2, EodAccepted
  <2>6. HasFields(s)
    BY DEF DomainInv
  <2>7. Is(r, s.version + 1, trades, s.currentVersions, s.ledgerEntries,
           s.confirmationEntries, s.postingIds, s.ledgerTotals, limits,
           settlements)
    BY <1>1, <1>3, <2>1, <2>2, <2>3, <2>4, <2>6, RunEodFields
  <2>8. /\ DOMAIN trades = DOMAIN s.trades /\ IsMap(trades, Trades)
        /\ \A k \in DOMAIN s.trades :
             \/ trades[k] = s.trades[k]
             \/ /\ s.trades[k].state = "Confirmed"
                /\ trades[k].state = "Settled"
                /\ SameVersion(s.trades[k], trades[k])
                /\ trades[k].supersededBy = s.trades[k].supersededBy
    BY <1>1, <2>1, SettleAllType
  <2>9. IsFiniteSet(DOMAIN trades)
    BY <2>8 DEF DomainInv
  <2>10. settlements \subseteq Obligations
    <3>1. \A i \in DOMAIN settled : settled[i] \in Trades
      BY <2>2, <2>8, <2>9, SettledTradesType
    <3> QED BY <2>4, <2>5, <3>1, SettlementsType
  <2>11. Balanced(limits)
    <3>1. Balanced(s.limits)
      BY DEF DomainInv
    <3> QED BY <2>3, <2>5, <3>1, ReleaseAllBalanced
  <2>12. /\ LedgerOK(s.ledgerEntries, s.postingIds, s.ledgerTotals)
         /\ DOMAIN s.confirmationEntries \subseteq DOMAIN trades
         /\ IsMap(s.confirmationEntries, DOMAIN s.ledgerEntries)
         /\ ConfirmedBy(s.trades, s.ledgerEntries, s.confirmationEntries)
         /\ ChainMaps(s.trades, s.currentVersions)
         /\ ChainMaps(trades, s.currentVersions)
         /\ Chained(s.trades, s.currentVersions)
    BY <2>8 DEF DomainInv, ChainMaps
  <2>13. \A t : SameVersion(t, t)
    BY DEF SameVersion
  <2>14. Chained(trades, s.currentVersions)
    <3>1. Restated(trades, s.trades)
      BY <2>8, <2>13 DEF Restated
    <3> QED BY <2>12, <3>1, ChainChange
  <2>15. /\ Extends(s.confirmationEntries, s.confirmationEntries)
         /\ Extends(s.ledgerEntries, s.ledgerEntries)
    BY ExtendsItself
  <2>16. ConfirmedBy(trades, s.ledgerEntries, s.confirmationEntries)
    (* A version that was Confirmed has its entry.                         *)
    <3>1. \A k \in DOMAIN s.trades :
            s.trades[k].state = "Confirmed" => k \in DOMAIN s.confirmationEntries
      BY <2>12 DEF ConfirmedBy
    <3>2. SameEntries(trades, s.trades, s.confirmationEntries)
      BY <2>8, <2>13, <3>1 DEF SameEntries
    <3> QED BY <2>12, <2>15, <3>2, ConfirmedStays
  <2>17. s.version + 1 \in 0..MaxStateVersion
    BY <2>5, NextStateVersion DEF DomainInv
  <2>18. HistoryKept(s, r)
    <3>1. Evolved(trades, s.trades)
      BY <2>8 DEF Evolved
    <3> QED BY <2>7, <2>8, <2>12, <2>15, <3>1, HistoryFrom
  <2> QED BY <2>7, <2>8, <2>9, <2>10, <2>11, <2>12, <2>14, <2>16, <2>17, <2>18,
             Assemble
<1> QED BY <1>2, <1>3

-----------------------------------------------------------------------------
(* The balances: reserved amounts, running totals and the accounts of the  *)
(* ledger are sums over trades and entries.                                *)
(*                                                                         *)
(* Every operation but a booking and an end of day is made of two steps:   *)
(* a version enters the books (it becomes Confirmed, reserves its pay leg  *)
(* and is posted), or it leaves them (it becomes Superseded or Cancelled,  *)
(* gives its reservation back and is reversed).  Confirm is one of the     *)
(* first kind, cancel one of the second, and amend one of each, with state *)
(* values between them that the code never publishes.  Each invariant is   *)
(* shown to survive either step once.                                      *)

(* What a trade weighs in each balance, as functions on trades and entries.*)

Reserving(limitKey) ==
  [t \in Trades |-> IF t.state = "Confirmed" /\ IsBelow(t, limitKey)
                    THEN t.terms.pay.amount ELSE 0]

Placing(account, currency) ==
  [t \in Trades |-> IF t.state \in {"Confirmed", "Settled"}
                    THEN Position(t, account, currency) ELSE 0]

Moving(account, currency) == [e \in Entries |-> Moved(e, account, currency)]

(* The reserved amounts, with every version in the sum.                    *)
Reservations(trades, limits) ==
  \A k \in LimitKeys : limits[k] = Total(trades, Reserving(k))

(* A confirmed version has a limit at each of its nodes.                   *)
IsLimited(t) == PathKeys(t.path, t.terms.pay) \subseteq LimitKeys

ConfirmedIsLimited(trades) ==
  \A key \in DOMAIN trades : trades[key].state = "Confirmed" => IsLimited(trades[key])

Mirrors(trades, entries) ==
  \A account \in Accounts, currency \in Currencies :
    Total(entries, Moving(account, currency)) = Total(trades, Placing(account, currency))

IsBalanced(entry) == \A currency \in Currencies : RunningSum(entry, currency, 4) = 0

(* A version stands under its own number.                                  *)
Named(trades) ==
  \A key \in DOMAIN trades : key = <<trades[key].id, trades[key].version>>

(* ReversalsMatch, on its parts.                                           *)
Matched(trades, entries, confirming) ==
  /\ \A key \in DOMAIN confirming :
       Cardinality(Reversals(entries, confirming[key]))
         = IF trades[key].state \in {"Superseded", "Cancelled"} THEN 1 ELSE 0
  /\ \A i \in DOMAIN entries :
       \/ \E key \in DOMAIN confirming : confirming[key] = i
       \/ \E key \in DOMAIN confirming :
            confirming[key] < i /\ Reverses(entries, i, confirming[key])

-----------------------------------------------------------------------------
(* A limit is above a trade exactly when the trade is charged to it.       *)
LEMMA BelowIsCharged ==
  ASSUME NEW t \in Trades, NEW k \in LimitKeys
  PROVE  IsBelow(t, k) <=> k \in PathKeys(t.path, t.terms.pay)
<1> DEFINE c == t.path.counterparty
           n == t.path.nettingSet
           b == t.path.book
           leaf == <<c, n, b>>
<1>1. PICK node \in LimitNodes, currency \in Currencies : k = <<node, currency>>
  BY CapacityIsValid
<1>2. IsBelow(t, k) <=> currency = t.terms.pay.currency /\ IsPrefix(node, leaf)
  BY <1>1 DEF IsBelow
<1>3. k \in PathKeys(t.path, t.terms.pay) <=>
        /\ currency = t.terms.pay.currency
        /\ node \in {<<>>, <<c>>, <<c, n>>, <<c, n, b>>}
  BY <1>1 DEF PathKeys, PathKey, Nodes
<1>4. IsPrefix(node, leaf) <=> node \in {<<>>, <<c>>, <<c, n>>, <<c, n, b>>}
  <2>1. CASE node = <<>>
    BY <2>1 DEF IsPrefix
  <2>2. CASE \E x \in Counterparties : node = <<x>>
    BY <2>2 DEF IsPrefix
  <2>3. CASE \E x \in Counterparties, y \in NettingSets : node = <<x, y>>
    BY <2>3 DEF IsPrefix
  <2>4. CASE \E x \in Counterparties, y \in NettingSets, z \in Books : node = <<x, y, z>>
    BY <2>4 DEF IsPrefix
  <2> QED BY <1>1, <2>1, <2>2, <2>3, <2>4 DEF LimitNodes
<1> QED BY <1>2, <1>3, <1>4

(* The weights are integers.                                               *)
LEMMA WeightTypes ==
  /\ \A k \in LimitKeys : Reserving(k) \in [Trades -> Nat]
  /\ \A account, currency : Placing(account, currency) \in [Trades -> Int]
  /\ \A account, currency : Moving(account, currency) \in [Entries -> Int]
<1>1. \A t \in Trades : t.terms.pay.amount \in Nat /\ t.terms.receive.amount \in Nat
  BY WidthsArePositive DEF Trades, FxTerms, Money
<1>2. ASSUME NEW k PROVE Reserving(k) \in [Trades -> Nat]
  BY <1>1 DEF Reserving
<1>3. ASSUME NEW account, NEW currency, NEW t \in Trades
      PROVE  Position(t, account, currency) \in Int
  <2>1. /\ AmountIn(t.terms.pay, currency) \in Nat
        /\ AmountIn(t.terms.receive, currency) \in Nat
    BY <1>1 DEF AmountIn
  <2> QED BY <2>1 DEF Position
<1>4. ASSUME NEW account, NEW currency
      PROVE  Placing(account, currency) \in [Trades -> Int]
  BY <1>3 DEF Placing
<1>5. ASSUME NEW account, NEW currency, NEW e \in Entries
      PROVE  Moved(e, account, currency) \in Int
  <2>1. \A l \in Lines : Signed(e[l], currency) \in Int
    BY WidthsArePositive DEF Entries, Postings, Money, Signed
  <2> QED BY <2>1 DEF Moved, Lines
<1>6. ASSUME NEW account, NEW currency
      PROVE  Moving(account, currency) \in [Entries -> Int]
  BY <1>5 DEF Moving
<1> QED BY <1>2, <1>4, <1>6

-----------------------------------------------------------------------------
(* What the entries of the posting policy move.                            *)

(* A confirmation entry is balanced and puts on each account what its      *)
(* trade should have there.                                                *)
LEMMA ConfirmationMoves ==
  ASSUME NEW t \in Trades, NEW ids, NEW e, e = ConfirmationEntry(t, ids),
         NEW account, NEW currency
  PROVE  /\ Moved(e, account, currency) = Position(t, account, currency)
         /\ RunningSum(e, currency, 4) = 0
<1> DEFINE pay == AmountIn(t.terms.pay, currency)
           receive == AmountIn(t.terms.receive, currency)
           control == Control(t.path.counterparty)
           payable == Payable(t.path.book)
           receivable == Receivable(t.path.book)
<1>1. pay \in Int /\ receive \in Int
  BY WidthsArePositive DEF Trades, FxTerms, Money, AmountIn
<1>2. /\ Signed(e[1], currency) = pay /\ Signed(e[2], currency) = -pay
      /\ Signed(e[3], currency) = receive /\ Signed(e[4], currency) = -receive
  BY DEF ConfirmationEntry, ConfirmationSides, Signed, AmountIn, Lines
<1>3. /\ e[1].account = control /\ e[2].account = payable
      /\ e[3].account = receivable /\ e[4].account = control
  BY DEF ConfirmationEntry, Lines
<1>4. control # payable /\ control # receivable /\ payable # receivable
  BY DEF Control, Payable, Receivable
<1>5. Position(t, account, currency)
        = CASE account = control -> pay - receive
            [] account = payable -> -pay
            [] account = receivable -> receive
            [] OTHER -> 0
  BY DEF Position
<1> HIDE DEF pay, receive, control, payable, receivable
<1>6. RunningSum(e, currency, 4) = 0
  BY <1>1, <1>2 DEF RunningSum
<1>7. Moved(e, account, currency) = Position(t, account, currency)
  <2>1. CASE account = control
    BY <1>1, <1>2, <1>3, <1>4, <1>5, <2>1 DEF Moved
  <2>2. CASE account = payable
    BY <1>1, <1>2, <1>3, <1>4, <1>5, <2>2 DEF Moved
  <2>3. CASE account = receivable
    BY <1>1, <1>2, <1>3, <1>4, <1>5, <2>3 DEF Moved
  <2>4. CASE account \notin {control, payable, receivable}
    BY <1>1, <1>2, <1>3, <1>4, <1>5, <2>4 DEF Moved
  <2> QED BY <2>1, <2>2, <2>3, <2>4
<1> QED BY <1>6, <1>7

(* A reversal takes off each account what its original put there.          *)
LEMMA ReversalMoves ==
  ASSUME NEW original \in Entries, NEW ids, NEW e, e = ReversalEntry(original, ids),
         NEW account, NEW currency
  PROVE  /\ Moved(e, account, currency) = -Moved(original, account, currency)
         /\ \A n \in Lines : RunningSum(e, currency, n) = -RunningSum(original, currency, n)
<1>1. \A l \in Lines : /\ original[l].side \in Sides
                       /\ original[l].amount.amount \in Int
                       /\ Signed(original[l], currency) \in Int
  BY WidthsArePositive DEF Entries, Postings, Money, Signed
<1>2. \A l \in Lines : /\ e[l].account = original[l].account
                       /\ e[l].amount = original[l].amount
                       /\ e[l].side = Opposite(original[l].side)
  BY DEF ReversalEntry, Entries, Postings
<1>3. \A l \in Lines : Signed(e[l], currency) = -Signed(original[l], currency)
  BY <1>1, <1>2 DEF Signed, Opposite, Sides
<1>4. \A l \in Lines : l \in {1, 2, 3, 4}
  BY DEF Lines
<1>5. Moved(e, account, currency) = -Moved(original, account, currency)
  BY <1>1, <1>2, <1>3 DEF Moved, Lines
<1>6. ASSUME NEW n \in Lines
      PROVE  RunningSum(e, currency, n) = -RunningSum(original, currency, n)
  BY <1>1, <1>3 DEF RunningSum, Lines
<1> QED BY <1>5, <1>6

(* The four lines of a confirmation entry bring its sums to the pay leg,   *)
(* to zero, to the receive leg, and to zero; its reversal to the same with *)
(* the sign turned.  All of them fit, and so do both entries from zero.    *)
LEMMA PolicySumsFit ==
  ASSUME NEW t \in Trades, NEW ids, NEW e, e = ConfirmationEntry(t, ids), e \in Entries,
         NEW newIds, NEW r, r = ReversalEntry(e, newIds)
  PROVE  SumFits(ZeroTotals, e) /\ SumFits(ZeroTotals, r)
<1> SUFFICES ASSUME NEW c \in Currencies, NEW n \in Lines
             PROVE  /\ 0 + RunningSum(e, c, n) \in MinorUnits
                    /\ 0 + RunningSum(r, c, n) \in MinorUnits
  BY DEF SumFits, ZeroTotals
<1> DEFINE pay == AmountIn(t.terms.pay, c)
           receive == AmountIn(t.terms.receive, c)
<1>1. pay \in 0..MaxMinor /\ receive \in 0..MaxMinor
  BY WidthsArePositive DEF Trades, FxTerms, Money, AmountIn
<1>2. /\ Signed(e[1], c) = pay /\ Signed(e[2], c) = -pay
      /\ Signed(e[3], c) = receive /\ Signed(e[4], c) = -receive
  BY DEF ConfirmationEntry, ConfirmationSides, Signed, AmountIn, Lines
<1> HIDE DEF pay, receive
<1>3. RunningSum(e, c, n) \in {0, pay, receive}
  BY <1>1, <1>2, WidthsArePositive DEF RunningSum, Lines
<1>4. PICK account : account = Control(t.path.counterparty)
  OBVIOUS
<1>5. \A m \in Lines : RunningSum(r, c, m) = -RunningSum(e, c, m)
  BY ReversalMoves
<1> QED BY <1>1, <1>3, <1>5, WidthsArePositive DEF MinorUnits

(* A reversal of a confirmation entry is balanced.                         *)
LEMMA PolicyBalances ==
  ASSUME NEW t \in Trades, NEW ids, NEW e, e = ConfirmationEntry(t, ids), e \in Entries,
         NEW newIds, NEW r, r = ReversalEntry(e, newIds), NEW c \in Currencies
  PROVE  RunningSum(r, c, 4) = 0
<1>1. PICK account : account = Control(t.path.counterparty)
  OBVIOUS
<1>2. RunningSum(e, c, 4) = 0
  BY ConfirmationMoves
<1>3. /\ Moved(r, account, c) = -Moved(e, account, c)
      /\ \A n \in Lines : RunningSum(r, c, n) = -RunningSum(e, c, n)
  BY ReversalMoves
<1>4. 4 \in Lines
  BY DEF Lines
<1> QED BY <1>2, <1>3, <1>4

(* A confirmation entry has the shape that a reversal may be built from.   *)
LEMMA ConfirmationShape ==
  ASSUME NEW t \in Trades, NEW ids, NEW e, e = ConfirmationEntry(t, ids)
  PROVE  IsConfirmationShape(e)
<1>1. t.terms.pay.currency # t.terms.receive.currency
  BY DEF Trades, FxTerms
<1>2. PICK control : control = Control(t.path.counterparty)
  OBVIOUS
<1>3. PICK payable : payable = Payable(t.path.book)
  OBVIOUS
<1>4. PICK receivable : receivable = Receivable(t.path.book)
  OBVIOUS
<1>5. /\ e[1].account = control /\ e[2].account = payable
      /\ e[3].account = receivable /\ e[4].account = control
      /\ e[1].amount = t.terms.pay /\ e[2].amount = t.terms.pay
      /\ e[3].amount = t.terms.receive /\ e[4].amount = t.terms.receive
  BY <1>2, <1>3, <1>4 DEF ConfirmationEntry, Lines
<1>6. \A i \in Lines : /\ e[i].side = ConfirmationSides[i]
                       /\ e[i].reversalOf = NoPosting
                       /\ e[i].tradeId = t.id
                       /\ e[i].version = t.version
  BY DEF ConfirmationEntry, Lines
<1>7. /\ control[1] = "COUNTERPARTY_CONTROL" /\ payable[1] = "SETTLEMENT_PAYABLE"
      /\ receivable[1] = "SETTLEMENT_RECEIVABLE" /\ payable[2] = receivable[2]
  BY <1>2, <1>3, <1>4 DEF Control, Payable, Receivable
<1>8. 1 \in Lines
  BY DEF Lines
<1> QED BY <1>1, <1>5, <1>6, <1>7, <1>8 DEF IsConfirmationShape

-----------------------------------------------------------------------------
(* Which entries reverse which.                                            *)

(* Two entries of a ledger with a common identifier are the same.          *)
LEMMA SameId ==
  ASSUME NEW entries, NEW ids, Identified(entries, ids),
         NEW i \in DOMAIN entries, NEW j \in DOMAIN entries,
         entries[i][1].id = entries[j][1].id
  PROVE  i = j
BY DEF Identified, Lines

(* Each line of a reversal names the line it reverses; a confirmation entry*)
(* names none.                                                             *)
LEMMA ReversalNames ==
  ASSUME NEW original \in Entries, NEW ids, NEW e, e = ReversalEntry(original, ids)
  PROVE  e[1].reversalOf = original[1].id
<1>1. original[1] \in Postings /\ 1 \in Lines
  BY DEF Entries, Lines
<1>2. e[1] = [original[1] EXCEPT !.id = ids[1],
                                 !.side = Opposite(original[1].side),
                                 !.reversalOf = original[1].id]
  BY <1>1 DEF ReversalEntry
<1> QED BY <1>1, <1>2 DEF Postings

(* See ReversalNames.                                                      *)
LEMMA ConfirmationNamesNone ==
  ASSUME NEW t, NEW ids, NEW e, e = ConfirmationEntry(t, ids)
  PROVE  /\ e[1].reversalOf = NoPosting
         /\ e[1].tradeId = t.id /\ e[1].version = t.version
BY DEF ConfirmationEntry, Lines

(* Different versions have different confirmation entries.                 *)
LEMMA OneEntryEach ==
  ASSUME NEW trades, NEW entries, NEW confirming,
         Named(trades), ConfirmedBy(trades, entries, confirming),
         DOMAIN confirming \subseteq DOMAIN trades,
         NEW k \in DOMAIN confirming, NEW l \in DOMAIN confirming,
         confirming[k] = confirming[l]
  PROVE  k = l
<1>1. ASSUME NEW m \in DOMAIN confirming
      PROVE  m = << entries[confirming[m]][1].tradeId, entries[confirming[m]][1].version >>
  <2>1. entries[confirming[m]]
          = ConfirmationEntry(trades[m], [i \in Lines |-> entries[confirming[m]][i].id])
    BY DEF ConfirmedBy
  <2>2. /\ entries[confirming[m]][1].tradeId = trades[m].id
        /\ entries[confirming[m]][1].version = trades[m].version
    BY <2>1, ConfirmationNamesNone
  <2> QED BY <2>2 DEF Named
<1> QED BY <1>1

-----------------------------------------------------------------------------
(* The two steps.  b and r are records with the fields of a domain state   *)
(* that books are made of.                                                 *)

Posts(b, r, entry) ==
  /\ entry \in Entries
  /\ EntryError(entry) = Ok
  /\ EntryIds(entry) \cap b.postingIds = {}
  /\ r.ledgerEntries = Append(b.ledgerEntries, entry)
  /\ r.postingIds = b.postingIds \cup EntryIds(entry)

Enters(b, r, key, trade, entry) ==
  /\ trade \in Trades
  /\ trade.state = "Confirmed"
  /\ IsLimited(trade)
  /\ key \in DOMAIN b.trades => b.trades[key].state = "Captured"
  /\ key \notin DOMAIN b.confirmationEntries
  /\ Sets(r.trades, b.trades, key, trade) /\ IsMap(r.trades, Trades)
  /\ entry = ConfirmationEntry(trade, [l \in Lines |-> entry[l].id])
  /\ Posts(b, r, entry)
  /\ Sets(r.confirmationEntries, b.confirmationEntries, key, Len(b.ledgerEntries) + 1)
  /\ r.limits = Reserve(b.limits, trade.path, trade.terms.pay)

Leaves(b, r, key, trade, entry) ==
  /\ key \in DOMAIN b.trades
  /\ b.trades[key].state = "Confirmed"
  /\ key \in DOMAIN b.confirmationEntries
  /\ trade \in Trades
  /\ trade.state \in {"Superseded", "Cancelled"}
  /\ SameVersion(b.trades[key], trade)
  /\ Sets(r.trades, b.trades, key, trade) /\ IsMap(r.trades, Trades)
  /\ entry = ReversalEntry(b.ledgerEntries[b.confirmationEntries[key]],
                           [l \in Lines |-> entry[l].id])
  /\ Posts(b, r, entry)
  /\ r.confirmationEntries = b.confirmationEntries
  /\ r.limits = Release(b.limits, trade.path, trade.terms.pay)

(* The part of DomainInv that the books rest on.                           *)
BooksShape(b) ==
  /\ IsMap(b.trades, Trades)
  /\ IsFiniteSet(DOMAIN b.trades)
  /\ Named(b.trades)
  /\ b.ledgerEntries \in Seq(Entries)
  /\ Identified(b.ledgerEntries, b.postingIds)
  /\ b.postingIds \subseteq PostingIds
  /\ DOMAIN b.confirmationEntries \subseteq DOMAIN b.trades
  /\ IsMap(b.confirmationEntries, DOMAIN b.ledgerEntries)
  /\ ConfirmedBy(b.trades, b.ledgerEntries, b.confirmationEntries)

(* What the books of every reachable state satisfy.                        *)
BooksHold(b) ==
  /\ Reservations(b.trades, b.limits)
  /\ ConfirmedIsLimited(b.trades)
  /\ Mirrors(b.trades, b.ledgerEntries)
  /\ \A i \in DOMAIN b.ledgerEntries : IsBalanced(b.ledgerEntries[i])
  /\ Matched(b.trades, b.ledgerEntries, b.confirmationEntries)

(* A reachable domain state has the shape.                                 *)
LEMMA ShapeOfDomain ==
  ASSUME NEW s, DomainInv(s)
  PROVE  BooksShape(s)
<1>1. Named(s.trades)
  <2>1. ASSUME NEW key \in DOMAIN s.trades
        PROVE  key = <<s.trades[key].id, s.trades[key].version>>
    <3>1. /\ DOMAIN s.trades \subseteq TradeVersionKeys
          /\ Chained(s.trades, s.currentVersions)
          /\ IsMap(s.currentVersions, Versions)
      BY DEF DomainInv, ChainMaps
    <3>2. PICK id \in TradeIds, version \in Versions : key = <<id, version>>
      BY <3>1 DEF TradeVersionKeys
    <3>3. id \in DOMAIN s.currentVersions /\ version <= s.currentVersions[id]
      BY <3>1, <3>2 DEF Chained
    <3>4. version \in 1..s.currentVersions[id]
      BY <3>1, <3>3, WidthsArePositive DEF IsMap, Versions
    <3>5. s.trades[key].id = id /\ s.trades[key].version = version
      BY <3>1, <3>2, <3>3, <3>4 DEF Chained
    <3> QED BY <3>2, <3>5
  <2> QED BY <2>1 DEF Named
<1> QED BY <1>1 DEF DomainInv, LedgerOK, BooksShape

(* The ledger with one more entry.                                         *)
LEMMA Longer ==
  ASSUME NEW b, BooksShape(b), NEW r, NEW entry, Posts(b, r, entry)
  PROVE  /\ DOMAIN r.ledgerEntries = DOMAIN b.ledgerEntries \cup {Len(b.ledgerEntries) + 1}
         /\ Len(b.ledgerEntries) + 1 \notin DOMAIN b.ledgerEntries
         /\ r.ledgerEntries[Len(b.ledgerEntries) + 1] = entry
         /\ \A i \in DOMAIN b.ledgerEntries :
              /\ r.ledgerEntries[i] = b.ledgerEntries[i]
              /\ i < Len(b.ledgerEntries) + 1
              /\ i \in Nat
         /\ r.ledgerEntries \in Seq(Entries)
         /\ IsFiniteSet(DOMAIN b.ledgerEntries)
<1>1. PICK entries : entries = b.ledgerEntries
  OBVIOUS
<1>2. entries \in Seq(Entries) /\ entry \in Entries
      /\ r.ledgerEntries = Append(entries, entry)
  BY <1>1 DEF BooksShape, Posts
<1>3. IsFiniteSet(DOMAIN entries)
  <2>1. DOMAIN entries = 1..Len(entries) /\ Len(entries) \in Nat
    BY <1>2
  <2> QED BY <2>1, FS_Interval
<1>4. PICK longer : longer = Append(entries, entry)
  OBVIOUS
<1>5. /\ DOMAIN longer = DOMAIN entries \cup {Len(entries) + 1}
      /\ Len(entries) + 1 \notin DOMAIN entries
      /\ longer[Len(entries) + 1] = entry
      /\ \A i \in DOMAIN entries : longer[i] = entries[i] /\ i < Len(entries) + 1 /\ i \in Nat
      /\ longer \in Seq(Entries)
  BY <1>2, <1>4
<1> QED BY <1>1, <1>2, <1>3, <1>4, <1>5

(* Its identifiers are still unique, and all of them indexed.              *)
LEMMA LongerIdentified ==
  ASSUME NEW b, BooksShape(b), NEW r, NEW entry, Posts(b, r, entry)
  PROVE  /\ Identified(r.ledgerEntries, r.postingIds)
         /\ r.postingIds \subseteq PostingIds
<1>1. EntryIds(entry) \subseteq PostingIds
  BY DEF EntryIds, Entries, Postings, Posts
<1> QED BY <1>1, AppendIdentified DEF BooksShape, Posts

(* A version that leaves the books leaves them in shape.                   *)
LEMMA LeavesShape ==
  ASSUME NEW b, BooksShape(b), NEW r, NEW key, NEW trade, NEW entry,
         Leaves(b, r, key, trade, entry)
  PROVE  BooksShape(r) /\ DOMAIN r.trades = DOMAIN b.trades
<1>1. Posts(b, r, entry) /\ Sets(r.trades, b.trades, key, trade)
  BY DEF Leaves
<1>2. DOMAIN r.trades = DOMAIN b.trades
  BY <1>1 DEF Leaves, Sets
<1>3. \A k \in DOMAIN b.trades : r.trades[k] = IF k = key THEN trade ELSE b.trades[k]
  BY <1>1, <1>2 DEF Sets
<1>4. IsMap(r.trades, Trades) /\ IsFiniteSet(DOMAIN r.trades)
  BY <1>2 DEF Leaves, BooksShape
<1>5. Named(r.trades)
  BY <1>2, <1>3 DEF Named, BooksShape, SameVersion, Leaves
<1>6. /\ Extends(r.ledgerEntries, b.ledgerEntries) /\ r.ledgerEntries \in Seq(Entries)
      /\ Identified(r.ledgerEntries, r.postingIds) /\ r.postingIds \subseteq PostingIds
  BY <1>1, Longer, LongerIdentified DEF Extends
<1>7. /\ r.confirmationEntries = b.confirmationEntries
      /\ DOMAIN b.confirmationEntries \subseteq DOMAIN b.trades
      /\ IsMap(b.confirmationEntries, DOMAIN b.ledgerEntries)
      /\ ConfirmedBy(b.trades, b.ledgerEntries, b.confirmationEntries)
      /\ key \in DOMAIN b.confirmationEntries
      /\ SameVersion(b.trades[key], trade) /\ trade.state # "Captured"
  BY DEF Leaves, BooksShape
<1>8. IsMap(b.confirmationEntries, DOMAIN r.ledgerEntries)
  BY <1>6, <1>7, IndexIntoLonger
<1>9. SameEntries(r.trades, b.trades, b.confirmationEntries)
  BY <1>2, <1>3, <1>7 DEF SameEntries, SameVersion
<1>10. ConfirmedBy(r.trades, r.ledgerEntries, b.confirmationEntries)
  BY <1>6, <1>7, <1>9, ConfirmedStays
<1> QED BY <1>2, <1>4, <1>5, <1>6, <1>7, <1>8, <1>10 DEF BooksShape

-----------------------------------------------------------------------------
(* Sums over the trades and over the ledger.                               *)

(* What a version that is set weighs, and no longer weighs.                *)
LEMMA TradeTotals ==
  ASSUME NEW old, IsMap(old, Trades), IsFiniteSet(DOMAIN old),
         NEW key, NEW trade \in Trades, NEW new, Sets(new, old, key, trade),
         NEW weight \in [Trades -> Int]
  PROVE  /\ Total(old, weight) \in Int
         /\ key \notin DOMAIN old =>
              Total(new, weight) = Total(old, weight) + weight[trade]
         /\ key \in DOMAIN old =>
              Total(new, weight) = Total(old, weight) + weight[trade] - weight[old[key]]
<1>1. Weighed(old, weight)
  BY DEF IsMap, Weighed
<1>2. Total(old, weight) \in Int
  <2>1. PICK f : f = [k \in DOMAIN old |-> weight[old[k]]]
    OBVIOUS
  <2>2. \A k \in DOMAIN old : f[k] = weight[old[k]]
    BY <2>1
  <2> QED BY <1>1, <2>2, TotalIsSum
<1>3. new[key] = trade /\ weight[trade] \in Int
  BY DEF Sets
<1>4. CASE key \in DOMAIN old
  <2>1. DOMAIN new = DOMAIN old /\ \A k \in DOMAIN old : k # key => new[k] = old[k]
    BY <1>4 DEF Sets
  <2>2. Total(new, weight) = Total(old, weight) - weight[old[key]] + weight[new[key]]
    BY <1>1, <1>3, <1>4, <2>1, TotalChanges
  <2>3. weight[old[key]] \in Int
    BY <1>1, <1>4 DEF Weighed
  <2> QED BY <1>2, <1>3, <1>4, <2>2, <2>3
<1>5. CASE key \notin DOMAIN old
  <2>1. DOMAIN new = DOMAIN old \cup {key} /\ \A k \in DOMAIN old : new[k] = old[k]
    BY <1>5 DEF Sets
  <2>2. Total(new, weight) = Total(old, weight) + weight[new[key]]
    BY <1>1, <1>3, <1>5, <2>1, TotalGrows
  <2> QED BY <1>2, <1>3, <1>5, <2>2
<1> QED BY <1>2, <1>4, <1>5

(* A version that weighs nothing is added.                                 *)
LEMMA TradeAdded ==
  ASSUME NEW old, IsMap(old, Trades), IsFiniteSet(DOMAIN old),
         NEW key, key \notin DOMAIN old,
         NEW trade \in Trades, NEW new, Sets(new, old, key, trade),
         NEW weight \in [Trades -> Int], weight[trade] = 0
  PROVE  Total(new, weight) = Total(old, weight)
<1>1. Total(old, weight) \in Int
  BY TradeTotals
<1>2. Weighed(old, weight)
  BY DEF IsMap, Weighed
<1>3. /\ DOMAIN new = DOMAIN old \cup {key} /\ new[key] = trade
      /\ \A k \in DOMAIN old : new[k] = old[k]
  BY DEF Sets
<1>4. Total(new, weight) = Total(old, weight) + weight[new[key]]
  BY <1>2, <1>3, TotalGrows
<1> QED BY <1>1, <1>3, <1>4

(* What an entry that is appended adds to an account.                      *)
LEMMA EntryTotals ==
  ASSUME NEW b, BooksShape(b), NEW r, NEW entry, Posts(b, r, entry),
         NEW weight \in [Entries -> Int]
  PROVE  /\ Total(b.ledgerEntries, weight) \in Int
         /\ Total(r.ledgerEntries, weight)
              = Total(b.ledgerEntries, weight) + weight[entry]
<1>1. PICK old : old = b.ledgerEntries
  OBVIOUS
<1>2. PICK new : new = r.ledgerEntries
  OBVIOUS
<1>3. PICK key : key = Len(b.ledgerEntries) + 1
  OBVIOUS
<1>4. /\ DOMAIN new = DOMAIN old \cup {key} /\ key \notin DOMAIN old
      /\ new[key] = entry /\ \A k \in DOMAIN old : new[k] = old[k]
      /\ IsFiniteSet(DOMAIN old)
  BY <1>1, <1>2, <1>3, Longer
<1>5. \A k \in DOMAIN old : old[k] \in Entries
  BY <1>1 DEF BooksShape
<1>6. Weighed(old, weight) /\ weight[new[key]] \in Int
  BY <1>4, <1>5 DEF Weighed, Posts
<1>7. Total(new, weight) = Total(old, weight) + weight[new[key]]
  BY <1>4, <1>6, TotalGrows
<1>8. Total(old, weight) \in Int
  <2>1. PICK f : f = [k \in DOMAIN old |-> weight[old[k]]]
    OBVIOUS
  <2>2. \A k \in DOMAIN old : f[k] = weight[old[k]]
    BY <2>1
  <2> QED BY <1>6, <2>2, TotalIsSum
<1> QED BY <1>1, <1>2, <1>4, <1>7, <1>8

-----------------------------------------------------------------------------
(* Both steps keep the books.                                              *)

(* What a version that enters weighs is added to a sum over the versions,  *)
(* in which a captured one counted nothing.                                *)
LEMMA EnterTotals ==
  ASSUME NEW b, BooksShape(b), NEW r, NEW key, NEW trade, NEW entry,
         Enters(b, r, key, trade, entry),
         NEW weight \in [Trades -> Int],
         \A t \in Trades : t.state = "Captured" => weight[t] = 0
  PROVE  /\ Total(b.trades, weight) \in Int /\ weight[trade] \in Int
         /\ Total(r.trades, weight) = Total(b.trades, weight) + weight[trade]
<1>1. /\ IsMap(b.trades, Trades) /\ IsFiniteSet(DOMAIN b.trades)
      /\ Sets(r.trades, b.trades, key, trade) /\ trade \in Trades
      /\ key \in DOMAIN b.trades => b.trades[key].state = "Captured"
  BY DEF BooksShape, Enters
<1>2. key \in DOMAIN b.trades => weight[b.trades[key]] = 0
  BY <1>1 DEF IsMap
<1>3. PICK old : old = b.trades
  OBVIOUS
<1>4. PICK new : new = r.trades
  OBVIOUS
<1>5. IsMap(old, Trades) /\ IsFiniteSet(DOMAIN old) /\ Sets(new, old, key, trade)
  BY <1>1, <1>3, <1>4
<1>6. weight[trade] \in Int
  BY <1>1
<1>7. Total(old, weight) \in Int
  BY <1>1, <1>5, TradeTotals
<1>8. Total(new, weight) = Total(old, weight) + weight[trade]
  <2>1. CASE key \in DOMAIN old
    <3>1. Total(new, weight) = Total(old, weight) + weight[trade] - weight[old[key]]
      BY <1>1, <1>5, <2>1, TradeTotals
    <3> QED BY <1>2, <1>3, <1>6, <1>7, <2>1, <3>1
  <2>2. CASE key \notin DOMAIN old
    BY <1>1, <1>5, <2>2, TradeTotals
  <2> QED BY <2>1, <2>2
<1> QED BY <1>3, <1>4, <1>6, <1>7, <1>8

LEMMA LeaveTotals ==
  ASSUME NEW b, BooksShape(b), NEW r, NEW key, NEW trade, NEW entry,
         Leaves(b, r, key, trade, entry),
         NEW weight \in [Trades -> Int],
         \A t \in Trades : t.state \in {"Superseded", "Cancelled"} => weight[t] = 0
  PROVE  /\ Total(b.trades, weight) \in Int /\ weight[b.trades[key]] \in Int
         /\ Total(r.trades, weight) = Total(b.trades, weight) - weight[b.trades[key]]
<1>1. /\ IsMap(b.trades, Trades) /\ IsFiniteSet(DOMAIN b.trades)
      /\ Sets(r.trades, b.trades, key, trade) /\ trade \in Trades
      /\ key \in DOMAIN b.trades
  BY DEF BooksShape, Leaves
<1>2. weight[trade] = 0
  BY DEF Leaves
<1>3. PICK old : old = b.trades
  OBVIOUS
<1>4. PICK new : new = r.trades
  OBVIOUS
<1>5. /\ Total(old, weight) \in Int
      /\ Total(new, weight) = Total(old, weight) + weight[trade] - weight[old[key]]
  BY <1>1, <1>3, <1>4, TradeTotals
<1>6. weight[old[key]] \in Int
  BY <1>1, <1>3 DEF IsMap
<1> QED BY <1>1, <1>2, <1>3, <1>4, <1>5, <1>6

(* A version that leaves was confirmed, by the entry of its own; what      *)
(* reverses that entry takes its position off every account.               *)
LEMMA LeavesEntry ==
  ASSUME NEW b, BooksShape(b), NEW r, NEW key, NEW trade, NEW entry,
         Leaves(b, r, key, trade, entry),
         NEW old, old = b.trades[key],
         NEW original, original = b.ledgerEntries[b.confirmationEntries[key]]
  PROVE  /\ old \in Trades /\ old.state = "Confirmed"
         /\ old.path = trade.path /\ old.terms = trade.terms
         /\ original \in Entries /\ entry \in Entries
         /\ \A account, currency :
              Moved(entry, account, currency) = -Position(old, account, currency)
         /\ IsBalanced(entry)
<1>1. /\ old \in Trades /\ old.state = "Confirmed"
      /\ old.path = trade.path /\ old.terms = trade.terms
  BY DEF BooksShape, IsMap, Leaves, SameVersion
<1>2. b.confirmationEntries[key] \in DOMAIN b.ledgerEntries
  BY DEF BooksShape, IsMap, Leaves
<1>3. original \in Entries
  BY <1>2 DEF BooksShape
<1>4. PICK ids : ids = [l \in Lines |-> original[l].id]
  OBVIOUS
<1>5. original = ConfirmationEntry(old, ids)
  BY <1>4 DEF BooksShape, ConfirmedBy, Leaves
<1>6. PICK newIds : newIds = [l \in Lines |-> entry[l].id]
  OBVIOUS
<1>7. entry = ReversalEntry(original, newIds) /\ entry \in Entries
  BY <1>6 DEF Leaves, Posts
<1>8. ASSUME NEW account, NEW currency
      PROVE  /\ Moved(entry, account, currency) = -Position(old, account, currency)
             /\ RunningSum(entry, currency, 4) = 0
  <2>1. /\ Moved(original, account, currency) = Position(old, account, currency)
        /\ RunningSum(original, currency, 4) = 0
    BY <1>1, <1>5, ConfirmationMoves
  <2>2. /\ Moved(entry, account, currency) = -Moved(original, account, currency)
        /\ \A n \in Lines : RunningSum(entry, currency, n) = -RunningSum(original, currency, n)
    BY <1>3, <1>7, ReversalMoves
  <2>3. 4 \in Lines
    BY DEF Lines
  <2> QED BY <2>1, <2>2, <2>3
<1>9. \A account, currency :
        Moved(entry, account, currency) = -Position(old, account, currency)
  BY <1>8
<1>10. IsBalanced(entry)
  BY <1>8 DEF IsBalanced
<1> QED BY <1>1, <1>3, <1>7, <1>9, <1>10

(* The entry of a version that enters puts its position on every account.  *)
LEMMA EntersEntry ==
  ASSUME NEW b, NEW r, NEW key, NEW trade, NEW entry,
         Enters(b, r, key, trade, entry)
  PROVE  /\ \A account, currency :
              Moved(entry, account, currency) = Position(trade, account, currency)
         /\ IsBalanced(entry) /\ entry \in Entries /\ trade \in Trades
<1>1. PICK ids : ids = [l \in Lines |-> entry[l].id]
  OBVIOUS
<1>2. trade \in Trades /\ entry \in Entries /\ entry = ConfirmationEntry(trade, ids)
  BY <1>1 DEF Enters, Posts
<1>3. \A account, currency :
        /\ Moved(entry, account, currency) = Position(trade, account, currency)
        /\ RunningSum(entry, currency, 4) = 0
  BY <1>2, ConfirmationMoves
<1> QED BY <1>2, <1>3 DEF IsBalanced

(* A version that enters reserves its pay leg, and its sum grows by it.    *)
LEMMA EntersReserves ==
  ASSUME NEW b, BooksShape(b), NEW r, NEW key, NEW trade, NEW entry,
         Enters(b, r, key, trade, entry), Reservations(b.trades, b.limits)
  PROVE  Reservations(r.trades, r.limits)
<1> SUFFICES ASSUME NEW k \in LimitKeys
             PROVE  r.limits[k] = Total(r.trades, Reserving(k))
  BY DEF Reservations
<1>1. PICK weight \in [Trades -> Int] : weight = Reserving(k)
  BY WeightTypes
<1>2. \A t \in Trades : t.state = "Captured" => weight[t] = 0
  BY <1>1 DEF Reserving
<1>3. /\ Total(b.trades, weight) \in Int
      /\ Total(r.trades, weight) = Total(b.trades, weight) + weight[trade]
  BY <1>2, EnterTotals
<1>4. /\ weight[trade] = IF k \in PathKeys(trade.path, trade.terms.pay)
                         THEN trade.terms.pay.amount ELSE 0
      /\ weight[trade] \in Int
  BY <1>1, BelowIsCharged DEF Reserving, Enters
<1>5. /\ b.limits[k] = Total(b.trades, weight)
      /\ r.limits[k] = IF k \in PathKeys(trade.path, trade.terms.pay)
                       THEN b.limits[k] + trade.terms.pay.amount
                       ELSE b.limits[k]
  BY <1>1 DEF Reservations, Enters, Reserve
<1>6. r.limits[k] = Total(r.trades, weight)
  BY <1>3, <1>4, <1>5
<1> QED BY <1>1, <1>6

(* A version that leaves releases its pay leg, and its sum shrinks by it.  *)
LEMMA LeavesReleases ==
  ASSUME NEW b, BooksShape(b), NEW r, NEW key, NEW trade, NEW entry,
         Leaves(b, r, key, trade, entry), Reservations(b.trades, b.limits)
  PROVE  Reservations(r.trades, r.limits)
<1> SUFFICES ASSUME NEW k \in LimitKeys
             PROVE  r.limits[k] = Total(r.trades, Reserving(k))
  BY DEF Reservations
<1>1. PICK weight \in [Trades -> Int] : weight = Reserving(k)
  BY WeightTypes
<1>2. PICK old : old = b.trades[key]
  OBVIOUS
<1>3. \A t \in Trades : t.state \in {"Superseded", "Cancelled"} => weight[t] = 0
  BY <1>1 DEF Reserving
<1>4. /\ Total(b.trades, weight) \in Int
      /\ Total(r.trades, weight) = Total(b.trades, weight) - weight[old]
  BY <1>2, <1>3, LeaveTotals
<1>5. /\ old \in Trades /\ old.state = "Confirmed"
      /\ old.path = trade.path /\ old.terms = trade.terms
  BY <1>2, LeavesEntry
<1>6. /\ weight[old] = IF k \in PathKeys(trade.path, trade.terms.pay)
                       THEN trade.terms.pay.amount ELSE 0
      /\ weight[old] \in Int
  BY <1>1, <1>5, BelowIsCharged DEF Reserving
<1>7. /\ b.limits[k] = Total(b.trades, weight)
      /\ r.limits[k] = IF k \in PathKeys(trade.path, trade.terms.pay)
                       THEN b.limits[k] - trade.terms.pay.amount
                       ELSE b.limits[k]
  BY <1>1 DEF Reservations, Leaves, Release
<1>8. r.limits[k] = Total(r.trades, weight)
  BY <1>4, <1>6, <1>7
<1> QED BY <1>1, <1>8

(* A version that enters is posted with its position.                      *)
LEMMA EntersMirrors ==
  ASSUME NEW b, BooksShape(b), NEW r, NEW key, NEW trade, NEW entry,
         Enters(b, r, key, trade, entry), Mirrors(b.trades, b.ledgerEntries)
  PROVE  Mirrors(r.trades, r.ledgerEntries)
<1> SUFFICES ASSUME NEW account \in Accounts, NEW currency \in Currencies
             PROVE  Total(r.ledgerEntries, Moving(account, currency))
                      = Total(r.trades, Placing(account, currency))
  BY DEF Mirrors
<1>1. PICK weight \in [Trades -> Int] : weight = Placing(account, currency)
  BY WeightTypes
<1>2. PICK moving \in [Entries -> Int] : moving = Moving(account, currency)
  BY WeightTypes
<1>3. \A t \in Trades : t.state = "Captured" => weight[t] = 0
  BY <1>1 DEF Placing
<1>4. /\ Total(b.trades, weight) \in Int
      /\ Total(r.trades, weight) = Total(b.trades, weight) + weight[trade]
  BY <1>3, EnterTotals
<1>5. weight[trade] = Position(trade, account, currency) /\ weight[trade] \in Int
  BY <1>1 DEF Placing, Enters
<1>6. Total(r.ledgerEntries, moving) = Total(b.ledgerEntries, moving) + moving[entry]
  BY EntryTotals DEF Enters
<1>7. moving[entry] = Position(trade, account, currency)
  BY <1>2, EntersEntry DEF Moving
<1>8. Total(b.ledgerEntries, moving) = Total(b.trades, weight)
  BY <1>1, <1>2 DEF Mirrors
<1>9. Total(r.ledgerEntries, moving) = Total(r.trades, weight)
  BY <1>4, <1>5, <1>6, <1>7, <1>8
<1> QED BY <1>1, <1>2, <1>9

(* A version that leaves is reversed with its position.                    *)
LEMMA LeavesMirrors ==
  ASSUME NEW b, BooksShape(b), NEW r, NEW key, NEW trade, NEW entry,
         Leaves(b, r, key, trade, entry), Mirrors(b.trades, b.ledgerEntries)
  PROVE  Mirrors(r.trades, r.ledgerEntries)
<1> SUFFICES ASSUME NEW account \in Accounts, NEW currency \in Currencies
             PROVE  Total(r.ledgerEntries, Moving(account, currency))
                      = Total(r.trades, Placing(account, currency))
  BY DEF Mirrors
<1>1. PICK weight \in [Trades -> Int] : weight = Placing(account, currency)
  BY WeightTypes
<1>2. PICK moving \in [Entries -> Int] : moving = Moving(account, currency)
  BY WeightTypes
<1>3. PICK old : old = b.trades[key]
  OBVIOUS
<1>4. PICK original : original = b.ledgerEntries[b.confirmationEntries[key]]
  OBVIOUS
<1>5. \A t \in Trades : t.state \in {"Superseded", "Cancelled"} => weight[t] = 0
  BY <1>1 DEF Placing
<1>6. /\ Total(b.trades, weight) \in Int /\ weight[old] \in Int
      /\ Total(r.trades, weight) = Total(b.trades, weight) - weight[old]
  BY <1>3, <1>5, LeaveTotals
<1>7. /\ old \in Trades /\ old.state = "Confirmed" /\ entry \in Entries
      /\ Moved(entry, account, currency) = -Position(old, account, currency)
  BY <1>3, <1>4, LeavesEntry
<1>8. weight[old] = Position(old, account, currency)
  BY <1>1, <1>7 DEF Placing
<1>9. moving[entry] = -Position(old, account, currency)
  BY <1>2, <1>7 DEF Moving
<1>10. Total(r.ledgerEntries, moving) = Total(b.ledgerEntries, moving) + moving[entry]
  BY EntryTotals DEF Leaves
<1>11. Total(b.ledgerEntries, moving) = Total(b.trades, weight)
  BY <1>1, <1>2 DEF Mirrors
<1>12. Total(r.ledgerEntries, moving) = Total(r.trades, weight)
  BY <1>6, <1>8, <1>9, <1>10, <1>11
<1> QED BY <1>1, <1>2, <1>12

-----------------------------------------------------------------------------
(* Both steps keep the matching of reversals with what they reverse.       *)

(* Only what was posted before an entry is reversed by it, and a new entry *)
(* is reversed by none.                                                    *)
LEMMA NewIsUnreversed ==
  ASSUME NEW b, BooksShape(b), NEW r, NEW entry, Posts(b, r, entry),
         Matched(b.trades, b.ledgerEntries, b.confirmationEntries),
         NEW n, n = Len(b.ledgerEntries) + 1
  PROVE  \A i \in DOMAIN b.ledgerEntries : ~Reverses(r.ledgerEntries, i, n)
<1> SUFFICES ASSUME NEW i \in DOMAIN b.ledgerEntries, Reverses(r.ledgerEntries, i, n)
             PROVE  FALSE
  OBVIOUS
<1>1. PICK old : old = b.ledgerEntries[i]
  OBVIOUS
<1>2. r.ledgerEntries[i] = old /\ r.ledgerEntries[n] = entry
  BY <1>1, Longer
<1>3. PICK ids : old = ReversalEntry(entry, ids)
  BY <1>2 DEF Reverses
<1>4. old[1].reversalOf = entry[1].id
  BY <1>3, ReversalNames DEF Posts
<1>5. entry[1].id \in PostingIds /\ entry[1].id \notin b.postingIds
  BY DEF Posts, EntryIds, Entries, Postings, Lines
(* But the old entry names an old identifier, or none.                     *)
<1>6. CASE \E key \in DOMAIN b.confirmationEntries : b.confirmationEntries[key] = i
  <2>1. PICK key \in DOMAIN b.confirmationEntries : b.confirmationEntries[key] = i
    BY <1>6
  <2>2. PICK t : t = b.trades[key]
    OBVIOUS
  <2>3. PICK tids : old = ConfirmationEntry(t, tids)
    BY <1>1, <2>1, <2>2 DEF BooksShape, ConfirmedBy
  <2>4. old[1].reversalOf = NoPosting
    BY <2>3, ConfirmationNamesNone
  <2> QED BY <1>4, <1>5, <2>4, NoPostingIsNoId
<1>7. CASE \E key \in DOMAIN b.confirmationEntries :
             /\ b.confirmationEntries[key] < i
             /\ Reverses(b.ledgerEntries, i, b.confirmationEntries[key])
  <2>1. PICK key \in DOMAIN b.confirmationEntries :
          Reverses(b.ledgerEntries, i, b.confirmationEntries[key])
    BY <1>7
  <2>2. PICK original : original = b.ledgerEntries[b.confirmationEntries[key]]
    OBVIOUS
  <2>3. b.confirmationEntries[key] \in DOMAIN b.ledgerEntries
    BY DEF BooksShape, IsMap
  <2>4. original \in Entries /\ original[1].id \in b.postingIds
    BY <2>2, <2>3 DEF BooksShape, Identified, EntryIds, Lines
  <2>5. PICK oids : old = ReversalEntry(original, oids)
    BY <1>1, <2>1, <2>2 DEF Reverses
  <2>6. old[1].reversalOf = original[1].id
    BY <2>4, <2>5, ReversalNames
  <2> QED BY <1>4, <1>5, <2>4, <2>6
<1> QED BY <1>6, <1>7 DEF Matched

(* An entry that confirms reverses nothing.                                *)
LEMMA ConfirmationReversesNone ==
  ASSUME NEW entries, NEW t, NEW ids, NEW i \in DOMAIN entries,
         entries[i] = ConfirmationEntry(t, ids),
         NEW j \in DOMAIN entries, entries[j] \in Entries
  PROVE  ~Reverses(entries, i, j)
<1> SUFFICES ASSUME Reverses(entries, i, j) PROVE FALSE
  OBVIOUS
<1>1. PICK e : e = entries[i]
  OBVIOUS
<1>2. PICK oids : e = ReversalEntry(entries[j], oids)
  BY <1>1 DEF Reverses
<1>3. e[1].reversalOf = entries[j][1].id
  BY <1>2, ReversalNames
<1>4. e[1].reversalOf = NoPosting
  BY <1>1, ConfirmationNamesNone
<1>5. entries[j][1].id \in PostingIds
  BY DEF Entries, Postings, Lines
<1> QED BY <1>3, <1>4, <1>5, NoPostingIsNoId

(* Whether an old entry reverses another one does not change.              *)
LEMMA OldReversals ==
  ASSUME NEW b, BooksShape(b), NEW r, NEW entry, Posts(b, r, entry),
         NEW i \in DOMAIN b.ledgerEntries, NEW j \in DOMAIN b.ledgerEntries
  PROVE  Reverses(r.ledgerEntries, i, j) <=> Reverses(b.ledgerEntries, i, j)
<1>1. /\ r.ledgerEntries[i] = b.ledgerEntries[i]
      /\ r.ledgerEntries[j] = b.ledgerEntries[j]
  BY Longer
<1> QED BY <1>1 DEF Reverses

(* A version that enters is matched: nothing reverses its entry yet.       *)
LEMMA EntersMatched ==
  ASSUME NEW b, BooksShape(b), NEW r, NEW key, NEW trade, NEW entry,
         Enters(b, r, key, trade, entry),
         Matched(b.trades, b.ledgerEntries, b.confirmationEntries)
  PROVE  Matched(r.trades, r.ledgerEntries, r.confirmationEntries)
<1>1. PICK n : n = Len(b.ledgerEntries) + 1
  OBVIOUS
<1>2. Posts(b, r, entry)
  BY DEF Enters
<1>3. PICK old : old = b.ledgerEntries
  OBVIOUS
<1>4. PICK new : new = r.ledgerEntries
  OBVIOUS
<1>5. /\ DOMAIN new = DOMAIN old \cup {n} /\ n \notin DOMAIN old
      /\ new[n] = entry
      /\ \A i \in DOMAIN old : new[i] = old[i] /\ i < n
      /\ \A i \in DOMAIN new : new[i] \in Entries
  BY <1>1, <1>2, <1>3, <1>4, Longer
<1>6. \A i \in DOMAIN old : ~Reverses(new, i, n)
  BY <1>1, <1>2, <1>3, <1>4, NewIsUnreversed
<1>7. \A j \in DOMAIN new : ~Reverses(new, n, j)
  <2>1. PICK ids : entry = ConfirmationEntry(trade, ids)
    BY DEF Enters
  <2> QED BY <1>5, <2>1, ConfirmationReversesNone
<1>8. \A i, j \in DOMAIN old : Reverses(new, i, j) <=> Reverses(old, i, j)
  BY <1>2, <1>3, <1>4, OldReversals
<1>9. \A j \in DOMAIN old : Reversals(new, j) = Reversals(old, j)
  BY <1>5, <1>7, <1>8 DEF Reversals
<1>10. Reversals(new, n) = {}
  BY <1>5, <1>6, <1>7 DEF Reversals
<1>11. /\ DOMAIN r.confirmationEntries = DOMAIN b.confirmationEntries \cup {key}
       /\ r.confirmationEntries[key] = n
       /\ \A k \in DOMAIN b.confirmationEntries :
            /\ r.confirmationEntries[k] = b.confirmationEntries[k]
            /\ b.confirmationEntries[k] \in DOMAIN old
            /\ k # key /\ k \in DOMAIN b.trades
            /\ r.trades[k] = b.trades[k]
       /\ r.trades[key] = trade /\ trade.state = "Confirmed"
  BY <1>1, <1>3 DEF Enters, Sets, BooksShape, IsMap
<1>12. ASSUME NEW k \in DOMAIN r.confirmationEntries
       PROVE  Cardinality(Reversals(new, r.confirmationEntries[k]))
                = IF r.trades[k].state \in {"Superseded", "Cancelled"} THEN 1 ELSE 0
  <2>1. CASE k = key
    BY <1>10, <1>11, <2>1, FS_EmptySet
  <2>2. CASE k # key
    <3>1. k \in DOMAIN b.confirmationEntries
      BY <1>11, <2>2
    <3>2. Cardinality(Reversals(old, b.confirmationEntries[k]))
            = IF b.trades[k].state \in {"Superseded", "Cancelled"} THEN 1 ELSE 0
      BY <1>3, <3>1 DEF Matched
    <3> QED BY <1>9, <1>11, <3>1, <3>2
  <2> QED BY <2>1, <2>2
<1>13. ASSUME NEW i \in DOMAIN new
       PROVE  \/ \E k \in DOMAIN r.confirmationEntries : r.confirmationEntries[k] = i
              \/ \E k \in DOMAIN r.confirmationEntries :
                   /\ r.confirmationEntries[k] < i
                   /\ Reverses(new, i, r.confirmationEntries[k])
  <2>1. CASE i = n
    BY <1>11, <2>1
  <2>2. CASE i \in DOMAIN old
    <3>1. \/ \E k \in DOMAIN b.confirmationEntries : b.confirmationEntries[k] = i
          \/ \E k \in DOMAIN b.confirmationEntries :
               b.confirmationEntries[k] < i /\ Reverses(old, i, b.confirmationEntries[k])
      BY <1>3, <2>2 DEF Matched
    <3> QED BY <1>8, <1>11, <2>2, <3>1
  <2> QED BY <1>5, <2>1, <2>2
<1> QED BY <1>4, <1>12, <1>13 DEF Matched

(* A version that leaves is matched: the new entry is the one reversal of  *)
(* its own, and of no other.                                               *)
LEMMA LeavesMatched ==
  ASSUME NEW b, BooksShape(b), NEW r, NEW key, NEW trade, NEW entry,
         Leaves(b, r, key, trade, entry),
         Matched(b.trades, b.ledgerEntries, b.confirmationEntries)
  PROVE  Matched(r.trades, r.ledgerEntries, r.confirmationEntries)
<1>1. PICK n : n = Len(b.ledgerEntries) + 1
  OBVIOUS
<1>2. Posts(b, r, entry)
  BY DEF Leaves
<1>3. PICK old : old = b.ledgerEntries
  OBVIOUS
<1>4. PICK new : new = r.ledgerEntries
  OBVIOUS
<1>5. /\ DOMAIN new = DOMAIN old \cup {n} /\ n \notin DOMAIN old
      /\ new[n] = entry
      /\ \A i \in DOMAIN old : new[i] = old[i] /\ i < n
      /\ \A i \in DOMAIN new : new[i] \in Entries
      /\ IsFiniteSet(DOMAIN old)
  BY <1>1, <1>2, <1>3, <1>4, Longer
<1>6. \A i, j \in DOMAIN old : Reverses(new, i, j) <=> Reverses(old, i, j)
  BY <1>2, <1>3, <1>4, OldReversals
<1>7. PICK confirming : confirming = b.confirmationEntries
  OBVIOUS
<1>8. /\ r.confirmationEntries = confirming
      /\ \A k \in DOMAIN confirming :
           /\ confirming[k] \in DOMAIN old
           /\ k \in DOMAIN b.trades
           /\ r.trades[k] = IF k = key THEN trade ELSE b.trades[k]
      /\ key \in DOMAIN confirming
      /\ b.trades[key].state = "Confirmed"
      /\ trade.state \in {"Superseded", "Cancelled"}
  BY <1>3, <1>7 DEF Leaves, Sets, BooksShape, IsMap
<1>9. PICK o \in DOMAIN old : o = confirming[key]
  BY <1>8
<1>10. Reverses(new, n, o)
  BY <1>3, <1>5, <1>7, <1>9 DEF Leaves, Reverses
<1>11. ASSUME NEW j \in DOMAIN old, Reverses(new, n, j)
       PROVE  j = o
  <2>1. PICK first : entry = ReversalEntry(old[o], first)
    BY <1>3, <1>7, <1>9 DEF Leaves
  <2>2. PICK second : entry = ReversalEntry(old[j], second)
    BY <1>5, <1>11 DEF Reverses
  <2>3. old[o] \in Entries /\ old[j] \in Entries
    BY <1>5
  <2>4. entry[1].reversalOf = old[o][1].id /\ entry[1].reversalOf = old[j][1].id
    BY <2>1, <2>2, <2>3, ReversalNames
  <2>5. Identified(old, b.postingIds)
    BY <1>3 DEF BooksShape
  <2> QED BY <2>4, <2>5, SameId
<1>12. Cardinality(Reversals(old, o)) = 0
  BY <1>3, <1>7, <1>8, <1>9 DEF Matched
<1>13. Reversals(old, o) = {}
  <2>1. IsFiniteSet(Reversals(old, o))
    BY <1>5, FS_Subset DEF Reversals
  <2> QED BY <1>12, <2>1, FS_EmptySet
<1>14. Reversals(new, o) = {n}
  BY <1>5, <1>6, <1>10, <1>13 DEF Reversals
<1>15. \A j \in DOMAIN old : j # o => Reversals(new, j) = Reversals(old, j)
  BY <1>5, <1>6, <1>11 DEF Reversals
<1>16. ASSUME NEW k \in DOMAIN confirming
       PROVE  Cardinality(Reversals(new, confirming[k]))
                = IF r.trades[k].state \in {"Superseded", "Cancelled"} THEN 1 ELSE 0
  <2>1. CASE k = key
    BY <1>8, <1>9, <1>14, <2>1, FS_Singleton
  <2>2. CASE k # key
    <3>1. confirming[k] # o
      BY <1>7, <1>8, <1>9, <2>2, OneEntryEach DEF BooksShape
    <3>2. Cardinality(Reversals(old, confirming[k]))
            = IF b.trades[k].state \in {"Superseded", "Cancelled"} THEN 1 ELSE 0
      BY <1>3, <1>7 DEF Matched
    <3> QED BY <1>8, <1>15, <2>2, <3>1, <3>2
  <2> QED BY <2>1, <2>2
<1>17. ASSUME NEW i \in DOMAIN new
       PROVE  \/ \E k \in DOMAIN confirming : confirming[k] = i
              \/ \E k \in DOMAIN confirming :
                   confirming[k] < i /\ Reverses(new, i, confirming[k])
  <2>1. CASE i = n
    BY <1>5, <1>8, <1>9, <1>10, <2>1
  <2>2. CASE i \in DOMAIN old
    <3>1. \/ \E k \in DOMAIN confirming : confirming[k] = i
          \/ \E k \in DOMAIN confirming :
               confirming[k] < i /\ Reverses(old, i, confirming[k])
      BY <1>3, <1>7, <2>2 DEF Matched
    <3> QED BY <1>6, <1>8, <2>2, <3>1
  <2> QED BY <1>5, <2>1, <2>2
<1> QED BY <1>4, <1>8, <1>16, <1>17 DEF Matched

-----------------------------------------------------------------------------
(* Both steps keep all of the books.                                       *)

(* A ledger of balanced entries stays one with a balanced entry more.      *)
LEMMA StillBalanced ==
  ASSUME NEW b, BooksShape(b), NEW r, NEW entry, Posts(b, r, entry), IsBalanced(entry),
         \A i \in DOMAIN b.ledgerEntries : IsBalanced(b.ledgerEntries[i])
  PROVE  \A i \in DOMAIN r.ledgerEntries : IsBalanced(r.ledgerEntries[i])
BY Longer

(* The books hold after a version has entered them.                        *)
LEMMA EntersBooks ==
  ASSUME NEW b, BooksShape(b), BooksHold(b), NEW r, NEW key, NEW trade, NEW entry,
         Enters(b, r, key, trade, entry)
  PROVE  BooksHold(r) /\ IsBalanced(entry)
<1>1. Posts(b, r, entry) /\ IsBalanced(entry)
  BY EntersEntry DEF Enters
<1>2. \A i \in DOMAIN r.ledgerEntries : IsBalanced(r.ledgerEntries[i])
  BY <1>1, StillBalanced DEF BooksHold
<1>3. ConfirmedIsLimited(r.trades)
  BY DEF BooksHold, ConfirmedIsLimited, Enters, Sets
<1>4. Reservations(r.trades, r.limits)
  BY EntersReserves DEF BooksHold
<1>5. Mirrors(r.trades, r.ledgerEntries)
  BY EntersMirrors DEF BooksHold
<1>6. Matched(r.trades, r.ledgerEntries, r.confirmationEntries)
  BY EntersMatched DEF BooksHold
<1> QED BY <1>1, <1>2, <1>3, <1>4, <1>5, <1>6 DEF BooksHold

(* The books hold after a version has left them.                           *)
LEMMA LeavesBooks ==
  ASSUME NEW b, BooksShape(b), BooksHold(b), NEW r, NEW key, NEW trade, NEW entry,
         Leaves(b, r, key, trade, entry)
  PROVE  BooksHold(r) /\ IsBalanced(entry)
<1>1. Posts(b, r, entry) /\ IsBalanced(entry)
  BY LeavesEntry DEF Leaves
<1>2. \A i \in DOMAIN r.ledgerEntries : IsBalanced(r.ledgerEntries[i])
  BY <1>1, StillBalanced DEF BooksHold
<1>3. ConfirmedIsLimited(r.trades)
  BY DEF BooksHold, ConfirmedIsLimited, Leaves, Sets
<1>4. Reservations(r.trades, r.limits)
  BY LeavesReleases DEF BooksHold
<1>5. Mirrors(r.trades, r.ledgerEntries)
  BY LeavesMirrors DEF BooksHold
<1>6. Matched(r.trades, r.ledgerEntries, r.confirmationEntries)
  BY LeavesMatched DEF BooksHold
<1> QED BY <1>1, <1>2, <1>3, <1>4, <1>5, <1>6 DEF BooksHold

(* A balanced entry leaves totals of zero at zero.                         *)
LEMMA ZeroStays ==
  ASSUME NEW entry, IsBalanced(entry)
  PROVE  TotalsWith(ZeroTotals, entry) = ZeroTotals
BY DEF TotalsWith, ZeroTotals, IsBalanced

-----------------------------------------------------------------------------
(* The operations are made of these steps.                                 *)

BooksInv(s) ==
  /\ DomainInv(s)
  /\ BooksHold(s)
  /\ s.ledgerTotals = ZeroTotals

(* The empty state has empty books.                                        *)
LEMMA EmptyBooks == BooksInv(InitialState)
<1>1. PICK s : s = InitialState
  OBVIOUS
<1>2. /\ s.trades = EmptyMap /\ s.ledgerEntries = <<>> /\ s.confirmationEntries = EmptyMap
      /\ s.limits = NothingReserved /\ s.ledgerTotals = ZeroTotals
  BY <1>1 DEF InitialState
<1>3. DOMAIN EmptyMap = {} /\ DOMAIN <<>> = {}
  BY DEF EmptyMap
<1>4. ASSUME NEW map, DOMAIN map = {}, NEW weight
      PROVE  Total(map, weight) = 0
  <2>1. PICK f : f = [k \in DOMAIN map |-> weight[map[k]]]
    OBVIOUS
  <2>2. Weighed(map, weight) /\ \A k \in DOMAIN map : f[k] = weight[map[k]]
    BY <1>4, FS_EmptySet DEF Weighed
  <2>3. Total(map, weight) = SumFunctionOnSet(f, DOMAIN map)
    BY <2>2, TotalIsSum
  <2>4. SumFunctionOnSet(f, DOMAIN map) = 0
    BY <1>4, SumEmpty
  <2> QED BY <2>3, <2>4
<1>5. Reservations(s.trades, s.limits)
  BY <1>2, <1>3, <1>4 DEF Reservations, NothingReserved
<1>6. Mirrors(s.trades, s.ledgerEntries)
  BY <1>2, <1>3, <1>4 DEF Mirrors
<1>7. Matched(s.trades, s.ledgerEntries, s.confirmationEntries)
  BY <1>2, <1>3 DEF Matched
<1>8. BooksHold(s)
  BY <1>2, <1>3, <1>5, <1>6, <1>7 DEF BooksHold, ConfirmedIsLimited
<1> QED BY <1>1, <1>2, <1>8, EmptyHolds DEF BooksInv

(* A booking adds a captured version, which weighs nothing anywhere.       *)
LEMMA BookBooks ==
  ASSUME NEW s, BooksInv(s), NEW c, BookTradeError(s, c) = Ok,
         c.tradeId \in TradeIds, c.path \in LimitPath, c.terms \in FxTerms,
         NEW r, r = BookTradeResult(s, c)
  PROVE  BooksHold(r) /\ r.ledgerTotals = ZeroTotals
<1>1. PICK key : key = <<c.tradeId, 1>>
  OBVIOUS
<1>2. PICK trade : trade = Capture(c.tradeId, c.path, c.terms)
  OBVIOUS
<1>3. PICK trades : trades = Emplace(s.trades, key, trade)
  OBVIOUS
<1>4. PICK current : current = Emplace(s.currentVersions, c.tradeId, 1)
  OBVIOUS
<1>5. Is(r, s.version + 1, trades, current, s.ledgerEntries,
         s.confirmationEntries, s.postingIds, s.ledgerTotals, s.limits,
         s.settlements)
  BY <1>1, <1>2, <1>3, <1>4, BookTradeFields DEF BooksInv, DomainInv
<1>6. key \notin DOMAIN s.trades
  BY <1>1, BookAccepted DEF BooksInv, DomainInv, Chained
<1>7. trade \in Trades /\ trade.state = "Captured"
  BY <1>2, CaptureType DEF Capture
<1>8. IsMap(s.trades, Trades) /\ IsFiniteSet(DOMAIN s.trades)
  BY DEF BooksInv, DomainInv
<1>9. Sets(trades, s.trades, key, trade)
  BY <1>3, <1>6, <1>7, <1>8, EmplaceMap
<1>10. ASSUME NEW weight \in [Trades -> Int], weight[trade] = 0
       PROVE  Total(trades, weight) = Total(s.trades, weight)
  BY <1>6, <1>7, <1>8, <1>9, <1>10, TradeAdded
<1>11. /\ \A k \in LimitKeys : Reserving(k) \in [Trades -> Int] /\ Reserving(k)[trade] = 0
       /\ \A account, currency : /\ Placing(account, currency) \in [Trades -> Int]
                                 /\ Placing(account, currency)[trade] = 0
  BY <1>7, WeightTypes DEF Reserving, Placing
<1>12. \A k \in DOMAIN trades : \/ k = key /\ trades[k] = trade
                                \/ k \in DOMAIN s.trades /\ trades[k] = s.trades[k]
  BY <1>9 DEF Sets
<1>13. Reservations(trades, s.limits)
  BY <1>10, <1>11 DEF BooksInv, BooksHold, Reservations
<1>14. Mirrors(trades, s.ledgerEntries)
  BY <1>10, <1>11 DEF BooksInv, BooksHold, Mirrors
<1>15. ConfirmedIsLimited(trades)
  BY <1>7, <1>12 DEF BooksInv, BooksHold, ConfirmedIsLimited
<1>16. Matched(trades, s.ledgerEntries, s.confirmationEntries)
  <2>1. \A k \in DOMAIN s.confirmationEntries : trades[k] = s.trades[k]
    BY <1>6, <1>9 DEF BooksInv, DomainInv, Sets
  <2> QED BY <2>1 DEF BooksInv, BooksHold, Matched
<1>17. \A i \in DOMAIN s.ledgerEntries : IsBalanced(s.ledgerEntries[i])
  BY DEF BooksInv, BooksHold
<1> QED BY <1>5, <1>13, <1>14, <1>15, <1>16, <1>17 DEF Is, BooksHold, BooksInv

(* What a release or a reservation that is accepted says of its keys.      *)
LEMMA ReservedIsLimited ==
  ASSUME NEW limits, NEW trade, ReserveError(limits, trade.path, trade.terms.pay) = Ok
  PROVE  IsLimited(trade)
BY ReserveOk DEF IsLimited

(* The version an accepted command names is there.                         *)
LEMMA CommandKey ==
  ASSUME NEW s, DomainInv(s), NEW c, c.tradeId \in DOMAIN s.currentVersions,
         s.currentVersions[c.tradeId] = c.expectedVersion,
         NEW key, key = <<c.tradeId, c.expectedVersion>>
  PROVE  /\ key \in DOMAIN s.trades /\ s.trades[key] \in Trades
         /\ s.trades[key].id = c.tradeId
         /\ s.trades[key].version = c.expectedVersion
         /\ <<c.tradeId, c.expectedVersion + 1>> \notin DOMAIN s.trades
<1>1. PICK id : id = c.tradeId
  OBVIOUS
<1>2. PICK version : version = c.expectedVersion
  OBVIOUS
<1>3. /\ id \in DOMAIN s.currentVersions /\ s.currentVersions[id] = version
      /\ key = <<id, version>>
  BY <1>1, <1>2
<1> QED BY <1>1, <1>2, <1>3, CurrentOf

(* A confirmation makes a version enter the books.                         *)
LEMMA ConfirmBooks ==
  ASSUME NEW s, BooksInv(s), NEW c, ConfirmTradeError(s, c) = Ok,
         c.postingIds \in IdTuples,
         NEW r, r = ConfirmTradeResult(s, c)
  PROVE  BooksHold(r) /\ r.ledgerTotals = ZeroTotals
<1>1. PICK key : key = <<c.tradeId, c.expectedVersion>>
  OBVIOUS
<1>2. PICK current : current = s.trades[key]
  OBVIOUS
<1>3. PICK confirmed : confirmed = Apply(current, "ConfirmTrade")
  OBVIOUS
<1>4. PICK entry : entry = ConfirmationEntry(confirmed, c.postingIds)
  OBVIOUS
<1>5. DomainInv(s) /\ BooksHold(s) /\ s.ledgerTotals = ZeroTotals
  BY DEF BooksInv
<1>6. /\ c.tradeId \in DOMAIN s.currentVersions
      /\ s.currentVersions[c.tradeId] = c.expectedVersion
      /\ current.state = "Captured"
      /\ ReserveError(s.limits, current.path, current.terms.pay) = Ok
      /\ EntryError(entry) = Ok
      /\ AppendEntryError(s, entry) = Ok
  BY <1>1, <1>2, <1>3, <1>4, <1>5, CurrentKnown, ConfirmAccepted
<1>7. key \in DOMAIN s.trades /\ current \in Trades
  BY <1>1, <1>2, <1>5, <1>6, CommandKey
<1>8. /\ confirmed \in Trades /\ confirmed.state = "Confirmed"
      /\ confirmed.path = current.path /\ confirmed.terms = current.terms
  <2>1. Transition(current.state, "ConfirmTrade") = "Confirmed"
    BY <1>6 DEF Transition
  <2>2. "Confirmed" \in TradeStates
    BY DEF TradeStates
  <2> QED BY <1>3, <1>7, <2>1, <2>2, ApplyKeeps DEF SameVersion
<1>9. /\ entry \in Entries
      /\ entry = ConfirmationEntry(confirmed, [i \in Lines |-> entry[i].id])
  BY <1>4, <1>8, ConfirmationEntryType
<1>10. PICK trades : trades = Put(s.trades, key, confirmed)
  OBVIOUS
<1>11. Sets(trades, s.trades, key, confirmed) /\ IsMap(trades, Trades)
  BY <1>5, <1>8, <1>10, PutMap DEF DomainInv
<1>12. key \notin DOMAIN s.confirmationEntries
  BY <1>2, <1>5, <1>6, <1>7 DEF DomainInv, ConfirmedBy
<1>13. PICK n : n = Len(s.ledgerEntries) + 1
  OBVIOUS
<1>14. PICK confirming : confirming = Emplace(s.confirmationEntries, key, n)
  OBVIOUS
<1>15. Sets(confirming, s.confirmationEntries, key, n)
  <2>1. IsMap(s.confirmationEntries, DOMAIN s.ledgerEntries \cup {n})
    BY <1>5 DEF DomainInv, IsMap
  <2> QED BY <1>12, <1>14, <2>1, EmplaceMap
<1>16. Is(r, s.version + 1, trades, s.currentVersions,
          Append(s.ledgerEntries, entry), confirming,
          s.postingIds \cup EntryIds(entry), TotalsWith(s.ledgerTotals, entry),
          Reserve(s.limits, current.path, current.terms.pay), s.settlements)
  BY <1>1, <1>2, <1>3, <1>4, <1>5, <1>10, <1>13, <1>14, ConfirmTradeFields DEF DomainInv
<1>17. Posts(s, r, entry)
  BY <1>6, <1>9, <1>16, AppendOk DEF Posts, Is
<1>18. IsLimited(confirmed)
  BY <1>6, <1>8, ReservedIsLimited DEF IsLimited
<1>19. Enters(s, r, key, confirmed, entry)
  BY <1>2, <1>6, <1>8, <1>9, <1>11, <1>12, <1>13, <1>15, <1>16, <1>17, <1>18 DEF Enters, Is
<1>20. BooksShape(s)
  BY <1>5, ShapeOfDomain
<1>21. BooksHold(r) /\ IsBalanced(entry)
  BY <1>5, <1>19, <1>20, EntersBooks
<1>22. r.ledgerTotals = ZeroTotals
  BY <1>5, <1>16, <1>21, ZeroStays DEF Is
<1> QED BY <1>21, <1>22

(* A confirmed version that is reversed and released leaves the books.     *)
LEMMA LeavesFrom ==
  ASSUME NEW s, BooksShape(s), NEW key \in DOMAIN s.trades,
         key \in DOMAIN s.confirmationEntries,
         NEW current, current = s.trades[key], current.state = "Confirmed",
         NEW trade \in Trades, trade.state \in {"Superseded", "Cancelled"},
         SameVersion(current, trade),
         NEW ids \in IdTuples, NEW reversal,
         reversal = ReversalEntry(s.ledgerEntries[s.confirmationEntries[key]], ids),
         EntryError(reversal) = Ok, AppendEntryError(s, reversal) = Ok,
         NEW r, NEW trades, Sets(trades, s.trades, key, trade), IsMap(trades, Trades),
         r.trades = trades,
         r.ledgerEntries = Append(s.ledgerEntries, reversal),
         r.confirmationEntries = s.confirmationEntries,
         r.postingIds = s.postingIds \cup EntryIds(reversal),
         r.limits = Release(s.limits, current.path, current.terms.pay)
  PROVE  Leaves(s, r, key, trade, reversal)
<1>1. PICK original : original = s.ledgerEntries[s.confirmationEntries[key]]
  OBVIOUS
<1>2. original \in Entries
  <2>1. s.confirmationEntries[key] \in DOMAIN s.ledgerEntries
    BY DEF BooksShape, IsMap
  <2> QED BY <1>1, <2>1 DEF BooksShape
<1>3. reversal \in Entries
  BY <1>1, <1>2, ReversalEntryType
<1>4. \A i \in Lines : reversal[i].id = ids[i]
  BY <1>1, <1>2 DEF ReversalEntry, Entries, Postings
<1>5. [i \in Lines |-> reversal[i].id] = ids
  BY <1>4 DEF IdTuples
<1>6. Posts(s, r, reversal)
  BY <1>3, AppendOk DEF Posts
<1>7. r.limits = Release(s.limits, trade.path, trade.terms.pay)
  BY DEF SameVersion
<1> QED BY <1>5, <1>6, <1>7 DEF Leaves

(* A cancel of a confirmed version makes it leave the books; a captured    *)
(* version was never in them.                                              *)
LEMMA CancelBooks ==
  ASSUME NEW s, BooksInv(s), NEW c, CancelTradeError(s, c) = Ok,
         c.reversalIds \in IdTuples \cup {NoReversalIds},
         NEW r, r = CancelTradeResult(s, c)
  PROVE  BooksHold(r) /\ r.ledgerTotals = ZeroTotals
<1>1. PICK key : key = <<c.tradeId, c.expectedVersion>>
  OBVIOUS
<1>2. PICK current : current = s.trades[key]
  OBVIOUS
<1>3. PICK cancelled : cancelled = Apply(current, "CancelTrade")
  OBVIOUS
<1>4. PICK reversal :
        reversal = ReversalEntry(s.ledgerEntries[s.confirmationEntries[key]],
                                 c.reversalIds)
  OBVIOUS
<1>5. DomainInv(s) /\ BooksHold(s) /\ s.ledgerTotals = ZeroTotals
  BY DEF BooksInv
<1>6. /\ c.tradeId \in DOMAIN s.currentVersions
      /\ s.currentVersions[c.tradeId] = c.expectedVersion
      /\ current.state \in {"Captured", "Confirmed"}
      /\ current.state = "Confirmed" =>
           /\ c.reversalIds # NoReversalIds
           /\ key \in DOMAIN s.confirmationEntries
           /\ ReleaseError(s.limits, current.path, current.terms.pay) = Ok
           /\ EntryError(reversal) = Ok
           /\ AppendEntryError(s, reversal) = Ok
  BY <1>1, <1>2, <1>4, <1>5, CurrentKnown, CancelAccepted
<1>7. key \in DOMAIN s.trades /\ current \in Trades
  BY <1>1, <1>2, <1>5, <1>6, CommandKey
<1>8. /\ cancelled \in Trades /\ cancelled.state = "Cancelled"
      /\ SameVersion(current, cancelled)
  <2>1. Transition(current.state, "CancelTrade") = "Cancelled"
    BY <1>6 DEF Transition
  <2>2. "Cancelled" \in TradeStates
    BY DEF TradeStates
  <2> QED BY <1>3, <1>7, <2>1, <2>2, ApplyKeeps
<1>9. PICK trades : trades = Put(s.trades, key, cancelled)
  OBVIOUS
<1>10. Sets(trades, s.trades, key, cancelled) /\ IsMap(trades, Trades)
  BY <1>5, <1>8, <1>9, PutMap DEF DomainInv
<1>11. BooksShape(s)
  BY <1>5, ShapeOfDomain
<1>12. CASE current.state = "Captured"
  <2>1. Is(r, s.version + 1, trades, s.currentVersions, s.ledgerEntries,
           s.confirmationEntries, s.postingIds, s.ledgerTotals, s.limits,
           s.settlements)
    BY <1>1, <1>2, <1>3, <1>4, <1>5, <1>9, <1>12, CancelTradeFields DEF DomainInv
  <2>2. PICK old : old = s.trades
    OBVIOUS
  <2>3. /\ IsMap(old, Trades) /\ IsFiniteSet(DOMAIN old) /\ key \in DOMAIN old
        /\ Sets(trades, old, key, cancelled)
        /\ old[key].state = "Captured" /\ old[key] \in Trades
    BY <1>2, <1>5, <1>7, <1>10, <1>12, <2>2 DEF DomainInv
  <2>4. ASSUME NEW weight \in [Trades -> Int], weight[cancelled] = 0, weight[old[key]] = 0
        PROVE  Total(trades, weight) = Total(old, weight)
    <3>1. Total(old, weight) \in Int
      BY <1>8, <2>3, TradeTotals
    <3>2. Total(trades, weight) = Total(old, weight) + weight[cancelled] - weight[old[key]]
      BY <1>8, <2>3, TradeTotals
    <3> QED BY <2>4, <3>1, <3>2
  <2>5. /\ \A k \in LimitKeys :
             /\ Reserving(k) \in [Trades -> Int]
             /\ Reserving(k)[cancelled] = 0 /\ Reserving(k)[old[key]] = 0
        /\ \A account, currency :
             /\ Placing(account, currency) \in [Trades -> Int]
             /\ Placing(account, currency)[cancelled] = 0
             /\ Placing(account, currency)[old[key]] = 0
    BY <1>8, <2>3, WeightTypes DEF Reserving, Placing
  <2>6. \A k \in DOMAIN trades : \/ k = key /\ trades[k] = cancelled
                                 \/ k \in DOMAIN old /\ k # key /\ trades[k] = old[k]
    BY <2>3 DEF Sets
  <2>7. Reservations(trades, s.limits)
    BY <1>5, <2>2, <2>4, <2>5 DEF BooksHold, Reservations
  <2>8. Mirrors(trades, s.ledgerEntries)
    BY <1>5, <2>2, <2>4, <2>5 DEF BooksHold, Mirrors
  <2>9. ConfirmedIsLimited(trades)
    BY <1>5, <1>8, <2>2, <2>6 DEF BooksHold, ConfirmedIsLimited
  <2>10. key \notin DOMAIN s.confirmationEntries
    BY <1>2, <1>7, <1>11, <1>12 DEF BooksShape, ConfirmedBy
  <2>11. \A k \in DOMAIN s.confirmationEntries : trades[k] = s.trades[k]
    BY <1>11, <2>2, <2>3, <2>10 DEF BooksShape, Sets
  <2>12. Matched(trades, s.ledgerEntries, s.confirmationEntries)
    BY <1>5, <2>11 DEF BooksHold, Matched
  <2>13. \A i \in DOMAIN s.ledgerEntries : IsBalanced(s.ledgerEntries[i])
    BY <1>5 DEF BooksHold
  <2> QED BY <1>5, <2>1, <2>7, <2>8, <2>9, <2>12, <2>13 DEF Is, BooksHold
<1>13. CASE current.state = "Confirmed"
  <2>1. Is(r, s.version + 1, trades, s.currentVersions,
           Append(s.ledgerEntries, reversal), s.confirmationEntries,
           s.postingIds \cup EntryIds(reversal),
           TotalsWith(s.ledgerTotals, reversal),
           Release(s.limits, current.path, current.terms.pay), s.settlements)
    <3>1. current.state # "Captured"
      BY <1>13
    <3> QED BY <1>1, <1>2, <1>3, <1>4, <1>5, <1>9, <3>1, CancelTradeFields DEF DomainInv
  <2>2. Leaves(s, r, key, cancelled, reversal)
    <3>1. PICK ids \in IdTuples : ids = c.reversalIds
      BY <1>6, <1>13
    <3>2. reversal = ReversalEntry(s.ledgerEntries[s.confirmationEntries[key]], ids)
      BY <1>4, <3>1
    <3>3. /\ r.trades = trades
          /\ r.ledgerEntries = Append(s.ledgerEntries, reversal)
          /\ r.confirmationEntries = s.confirmationEntries
          /\ r.postingIds = s.postingIds \cup EntryIds(reversal)
          /\ r.limits = Release(s.limits, current.path, current.terms.pay)
      BY <2>1 DEF Is
    <3> QED BY <1>2, <1>6, <1>7, <1>8, <1>10, <1>11, <1>13, <3>1, <3>2, <3>3, LeavesFrom
  <2>3. BooksHold(r) /\ IsBalanced(reversal)
    BY <1>5, <1>11, <2>2, LeavesBooks
  <2>4. r.ledgerTotals = ZeroTotals
    BY <1>5, <2>1, <2>3, ZeroStays DEF Is
  <2> QED BY <2>3, <2>4
<1> QED BY <1>6, <1>12, <1>13

(* An amendment makes one version leave the books and its replacement      *)
(* enter them.                                                             *)
LEMMA AmendBooks ==
  ASSUME NEW s, BooksInv(s), NEW c, AmendTradeError(s, c) = Ok,
         c.terms \in FxTerms, c.reversalIds \in IdTuples,
         c.postingIds \in IdTuples,
         NEW r, r = AmendTradeResult(s, c)
  PROVE  BooksHold(r) /\ r.ledgerTotals = ZeroTotals
<1>1. PICK key : key = <<c.tradeId, c.expectedVersion>>
  OBVIOUS
<1>2. PICK current : current = s.trades[key]
  OBVIOUS
<1>3. PICK replacement : replacement = Replacement(current, c.terms)
  OBVIOUS
<1>4. PICK reversal :
        reversal = ReversalEntry(s.ledgerEntries[s.confirmationEntries[key]],
                                 c.reversalIds)
  OBVIOUS
<1>5. PICK entry : entry = ConfirmationEntry(replacement, c.postingIds)
  OBVIOUS
<1>6. PICK appended : appended = AppendEntry(s, reversal)
  OBVIOUS
<1>7. DomainInv(s) /\ BooksHold(s) /\ s.ledgerTotals = ZeroTotals /\ BooksShape(s)
  BY ShapeOfDomain DEF BooksInv
<1>8. /\ c.tradeId \in DOMAIN s.currentVersions
      /\ s.currentVersions[c.tradeId] = c.expectedVersion
      /\ current.state = "Confirmed"
      /\ current.version # MaxTradeVersion
      /\ key \in DOMAIN s.confirmationEntries
      /\ ReleaseError(s.limits, current.path, current.terms.pay) = Ok
      /\ ReserveError(Release(s.limits, current.path, current.terms.pay),
                      replacement.path, replacement.terms.pay) = Ok
      /\ EntryError(reversal) = Ok
      /\ EntryError(entry) = Ok
      /\ AppendEntryError(s, reversal) = Ok
      /\ AppendEntryError(appended, entry) = Ok
      /\ s.version # MaxStateVersion
  BY <1>1, <1>2, <1>3, <1>4, <1>5, <1>6, <1>7, CurrentKnown, AmendAccepted
<1>9. /\ key \in DOMAIN s.trades /\ current \in Trades
      /\ current.id = c.tradeId /\ current.version = c.expectedVersion
      /\ <<c.tradeId, c.expectedVersion + 1>> \notin DOMAIN s.trades
  BY <1>1, <1>2, <1>7, <1>8, CommandKey
<1>10. /\ replacement \in Trades
       /\ replacement.id = c.tradeId
       /\ replacement.version = c.expectedVersion + 1
       /\ replacement.path = current.path /\ replacement.state = "Confirmed"
  BY <1>3, <1>8, <1>9, ReplacementType
<1>11. PICK old : old = Superseded(current)
  OBVIOUS
<1>12. /\ old \in Trades /\ old.state = "Superseded" /\ SameVersion(current, old)
  BY <1>8, <1>9, <1>11, SupersededType DEF SameVersion
<1>13. PICK newKey : newKey = <<c.tradeId, replacement.version>>
  OBVIOUS
<1>14. newKey \notin DOMAIN s.trades
  BY <1>9, <1>10, <1>13
<1>15. PICK replaced : replaced = Put(s.trades, key, old)
  OBVIOUS
<1>16. Sets(replaced, s.trades, key, old) /\ IsMap(replaced, Trades)
  BY <1>7, <1>12, <1>15, PutMap DEF DomainInv
(* The books between the two steps.                                        *)
<1>17. PICK entries : entries = Append(s.ledgerEntries, reversal)
  OBVIOUS
<1>18. PICK ids : ids = s.postingIds \cup EntryIds(reversal)
  OBVIOUS
<1>19. PICK limits : limits = Release(s.limits, current.path, current.terms.pay)
  OBVIOUS
<1>20. PICK mid :
         /\ mid.trades = replaced /\ mid.ledgerEntries = entries
         /\ mid.confirmationEntries = s.confirmationEntries
         /\ mid.postingIds = ids /\ mid.limits = limits
  <2>1. PICK m : m = [trades |-> replaced, ledgerEntries |-> entries,
                      confirmationEntries |-> s.confirmationEntries,
                      postingIds |-> ids, limits |-> limits]
    OBVIOUS
  <2> QED BY <2>1
<1>21. Leaves(s, mid, key, old, reversal)
  BY <1>2, <1>4, <1>7, <1>8, <1>9, <1>12, <1>16, <1>17, <1>18, <1>19, <1>20, LeavesFrom
<1>22. BooksHold(mid) /\ IsBalanced(reversal)
  BY <1>7, <1>21, LeavesBooks
<1>23. BooksShape(mid) /\ DOMAIN mid.trades = DOMAIN s.trades
  BY <1>7, <1>21, LeavesShape
(* The replacement enters them.                                            *)
<1>24. /\ entry \in Entries
       /\ entry = ConfirmationEntry(replacement, [i \in Lines |-> entry[i].id])
  BY <1>5, <1>10, ConfirmationEntryType
<1>25. PICK trades : trades = Emplace(replaced, newKey, replacement)
  OBVIOUS
<1>26. newKey \notin DOMAIN replaced /\ newKey \notin DOMAIN s.confirmationEntries
  BY <1>7, <1>14, <1>20, <1>23 DEF BooksShape
<1>27. Sets(trades, replaced, newKey, replacement) /\ IsMap(trades, Trades)
  BY <1>10, <1>16, <1>25, <1>26, EmplaceMap
<1>28. PICK n : n = Len(s.ledgerEntries) + 2
  OBVIOUS
<1>29. n = Len(entries) + 1
  <2>1. s.ledgerEntries \in Seq(Entries) /\ reversal \in Entries
    BY <1>7, <1>21 DEF BooksShape, Leaves, Posts
  <2> QED BY <1>17, <1>28, <2>1
<1>30. PICK confirming : confirming = Emplace(s.confirmationEntries, newKey, n)
  OBVIOUS
<1>31. Sets(confirming, s.confirmationEntries, newKey, n)
  <2>1. IsMap(s.confirmationEntries, DOMAIN s.ledgerEntries \cup {n})
    BY <1>7 DEF DomainInv, IsMap
  <2> QED BY <1>26, <1>30, <2>1, EmplaceMap
<1>32. PICK totals : totals = TotalsWith(s.ledgerTotals, reversal)
  OBVIOUS
<1>33. Is(r, s.version + 1, trades,
          Put(s.currentVersions, c.tradeId, replacement.version),
          Append(entries, entry), confirming, ids \cup EntryIds(entry),
          TotalsWith(totals, entry),
          Reserve(limits, replacement.path, replacement.terms.pay), s.settlements)
  <2>1. PICK versions : versions = Put(s.currentVersions, c.tradeId, replacement.version)
    OBVIOUS
  <2>2. PICK longer : longer = Append(entries, entry)
    OBVIOUS
  <2>3. PICK allIds : allIds = ids \cup EntryIds(entry)
    OBVIOUS
  <2>4. PICK sums : sums = TotalsWith(totals, entry)
    OBVIOUS
  <2>5. PICK reserved :
          reserved = Reserve(limits, replacement.path, replacement.terms.pay)
    OBVIOUS
  <2>6. HasFields(s)
    BY <1>7 DEF DomainInv
  <2>7. Is(r, s.version + 1, trades, versions, longer, confirming, allIds, sums,
           reserved, s.settlements)
    BY <1>1, <1>2, <1>3, <1>4, <1>5, <1>11, <1>13, <1>15, <1>17, <1>18, <1>19,
       <1>25, <1>28, <1>30, <1>32, <2>1, <2>2, <2>3, <2>4, <2>5, <2>6,
       AmendTradeFields
  <2> QED BY <2>1, <2>2, <2>3, <2>4, <2>5, <2>7
<1>34. Posts(mid, r, entry)
  <2>1. EntryIds(entry) \cap appended.postingIds = {}
    BY <1>8, AppendOk
  <2>2. appended.postingIds = ids
    <3>1. Is(s, s.version, s.trades, s.currentVersions, s.ledgerEntries,
             s.confirmationEntries, s.postingIds, s.ledgerTotals, s.limits,
             s.settlements)
      BY <1>7 DEF Is, DomainInv
    <3>2. Is(AppendEntry(s, reversal), s.version, s.trades, s.currentVersions,
             Append(s.ledgerEntries, reversal), s.confirmationEntries,
             s.postingIds \cup EntryIds(reversal),
             TotalsWith(s.ledgerTotals, reversal), s.limits, s.settlements)
      BY <3>1, AppendFields
    <3> QED BY <1>6, <1>18, <3>2 DEF Is
  <2> QED BY <1>8, <1>20, <1>24, <1>33, <2>1, <2>2 DEF Posts, Is
<1>35. IsLimited(replacement)
  BY <1>8, ReservedIsLimited
<1>36. Enters(mid, r, newKey, replacement, entry)
  BY <1>10, <1>20, <1>24, <1>26, <1>27, <1>29, <1>31, <1>33, <1>34, <1>35 DEF Enters, Is
<1>37. BooksHold(r) /\ IsBalanced(entry)
  BY <1>22, <1>23, <1>36, EntersBooks
<1>38. r.ledgerTotals = ZeroTotals
  <2>1. totals = ZeroTotals
    BY <1>7, <1>22, <1>32, ZeroStays
  <2>2. r.ledgerTotals = TotalsWith(totals, entry)
    BY <1>33 DEF Is
  <2> QED BY <1>37, <2>1, <2>2, ZeroStays
<1> QED BY <1>37, <1>38

-----------------------------------------------------------------------------
(* End of day.                                                             *)

(* What end of day frees at a limit is what the versions it settles weigh  *)
(* there.                                                                  *)
LEMMA FreedIsWeight ==
  ASSUME NEW s, IsMap(s.trades, Trades), IsFiniteSet(DOMAIN s.trades),
         NEW keys \in SUBSET DOMAIN s.trades,
         \A key \in keys : s.trades[key].state = "Confirmed",
         NEW k \in LimitKeys,
         NEW f, \A key \in DOMAIN s.trades : f[key] = Reserving(k)[s.trades[key]]
  PROVE  Freed(s, keys, k) = SumFunctionOnSet(f, keys)
<1> DEFINE charged == {key \in keys : Charges(s.trades[key], k)}
           g == [key \in charged |-> s.trades[key].terms.pay.amount]
<1>1. PICK weight \in [Trades -> Nat] : weight = Reserving(k)
  BY WeightTypes
<1>2. \A key \in keys : /\ s.trades[key] \in Trades /\ s.trades[key].state = "Confirmed"
                        /\ f[key] = weight[s.trades[key]]
  BY <1>1 DEF IsMap
<1>3. \A key \in keys : f[key] \in Int
  BY <1>2
<1>4. \A key \in keys :
        IsBelow(s.trades[key], k) <=> Charges(s.trades[key], k)
  BY <1>2, BelowIsCharged DEF Charges
<1>5. \A key \in keys \ charged : f[key] = 0
  BY <1>1, <1>2, <1>4 DEF Reserving
<1>6. \A key \in charged : g[key] = f[key]
  BY <1>1, <1>2, <1>4 DEF Reserving
<1>7. IsFiniteSet(keys) /\ charged \in SUBSET keys
  BY FS_Subset
<1>8. Freed(s, keys, k) = SumFunctionOnSet(g, charged)
  <2>1. DOMAIN g = charged
    OBVIOUS
  <2>2. SumFunctionOnSet(g, DOMAIN g) = SumFunctionOnSet(g, charged)
    BY <2>1, Zenon
  <2>3. Freed(s, keys, k) = SumFunctionOnSet(g, DOMAIN g)
    BY DEF Freed, SumFunction
  <2> QED BY <2>2, <2>3
<1> HIDE DEF charged, g
<1> QED BY <1>3, <1>5, <1>6, <1>7, <1>8, SumFilters

(* What end of day frees is part of what is reserved.                      *)
LEMMA FreedIsReserved ==
  ASSUME NEW s, BooksInv(s), NEW keys \in SUBSET DOMAIN s.trades,
         \A key \in keys : s.trades[key].state = "Confirmed",
         NEW k \in LimitKeys
  PROVE  Freed(s, keys, k) \in 0..s.limits[k]
<1>1. IsMap(s.trades, Trades) /\ IsFiniteSet(DOMAIN s.trades)
  BY DEF BooksInv, DomainInv
<1>2. PICK trades : trades = s.trades
  OBVIOUS
<1>3. PICK weight \in [Trades -> Nat] : weight = Reserving(k)
  BY WeightTypes
<1>4. PICK f : f = [key \in DOMAIN trades |-> weight[trades[key]]]
  OBVIOUS
<1>5. \A key \in DOMAIN trades : f[key] = weight[trades[key]] /\ f[key] \in Nat
  BY <1>1, <1>2, <1>4 DEF IsMap
<1>6. Freed(s, keys, k) = SumFunctionOnSet(f, keys)
  BY <1>1, <1>2, <1>3, <1>5, FreedIsWeight
<1>7. Weighed(trades, weight)
  BY <1>1, <1>2, <1>5 DEF Weighed
<1>8. Total(trades, weight) = SumFunctionOnSet(f, DOMAIN trades)
  BY <1>5, <1>7, TotalIsSum
<1>9. SumFunctionOnSet(f, keys) \in 0..SumFunctionOnSet(f, DOMAIN trades)
  BY <1>1, <1>2, <1>5, SumOfPart
<1>10. s.limits[k] = Total(trades, weight)
  BY <1>2, <1>3 DEF BooksInv, BooksHold, Reservations
<1> QED BY <1>6, <1>8, <1>9, <1>10

(* End of day settles versions: they keep their places in the ledger and   *)
(* give back what they had reserved, all at once.                          *)
LEMMA SettlesEach ==
  ASSUME NEW s, IsMap(s.trades, Trades), NEW asOf, NEW keys, keys = Eligible(s, asOf),
         NEW trades, trades = SettleAll(s, keys)
  PROVE  \A k \in DOMAIN s.trades :
           /\ k \in keys => s.trades[k].state = "Confirmed" /\ trades[k].state = "Settled"
           /\ k \notin keys => trades[k] = s.trades[k]
<1>1. \A k \in DOMAIN s.trades :
        /\ k \in keys => /\ s.trades[k].state = "Confirmed"
                         /\ trades[k] = Apply(s.trades[k], "RunEod")
        /\ k \notin keys => trades[k] = s.trades[k]
  BY DEF SettleAll, Eligible
<1>2. ASSUME NEW k \in DOMAIN s.trades, k \in keys
      PROVE  trades[k].state = "Settled"
  <2>1. PICK old : old = s.trades[k]
    OBVIOUS
  <2>2. old \in Trades /\ old.state = "Confirmed" /\ trades[k] = Apply(old, "RunEod")
    BY <1>1, <1>2, <2>1 DEF IsMap
  <2>3. Transition(old.state, "RunEod") = "Settled" /\ "Settled" \in TradeStates
    BY <2>2 DEF Transition, TradeStates
  <2> QED BY <2>2, <2>3, ApplyKeeps
<1> QED BY <1>1, <1>2

(* The sums over the versions, some of which now weigh nothing.            *)
LEMMA EodReleases ==
  ASSUME NEW s, BooksInv(s), NEW asOf, NEW keys, keys = Eligible(s, asOf),
         NEW trades, trades = SettleAll(s, keys),
         NEW limits, limits = ReleaseAll(s, keys)
  PROVE  Reservations(trades, limits)
<1>1. DomainInv(s)
  BY DEF BooksInv
<1>2. IsMap(s.trades, Trades) /\ IsFiniteSet(DOMAIN s.trades)
  BY <1>1 DEF DomainInv
<1>3. DOMAIN trades = DOMAIN s.trades /\ IsMap(trades, Trades)
  BY <1>1, SettleAllType
<1>4. \A k \in DOMAIN s.trades :
        /\ k \in keys => s.trades[k].state = "Confirmed" /\ trades[k].state = "Settled"
        /\ k \notin keys => trades[k] = s.trades[k]
  BY <1>2, SettlesEach
<1>5. keys \in SUBSET DOMAIN s.trades /\ \A key \in keys : s.trades[key].state = "Confirmed"
  BY DEF Eligible
<1>6. SUFFICES ASSUME NEW k \in LimitKeys
               PROVE  limits[k] = Total(trades, Reserving(k))
  BY DEF Reservations
<1>7. PICK weight \in [Trades -> Nat] : weight = Reserving(k)
  BY WeightTypes
<1>8. PICK D : D = DOMAIN s.trades
  OBVIOUS
<1>9. PICK f : f = [key \in D |-> weight[s.trades[key]]]
  OBVIOUS
<1>10. PICK g : g = [key \in D |-> weight[trades[key]]]
  OBVIOUS
<1>11. \A key \in D : /\ f[key] = weight[s.trades[key]] /\ f[key] \in Int
                      /\ g[key] = weight[trades[key]] /\ g[key] \in Int
  BY <1>2, <1>3, <1>8, <1>9, <1>10 DEF IsMap
<1>12. Weighed(s.trades, weight) /\ Weighed(trades, weight)
  BY <1>2, <1>3, <1>8, <1>11 DEF Weighed
<1>13. Total(s.trades, weight) = SumFunctionOnSet(f, D)
  BY <1>8, <1>11, <1>12, TotalIsSum
<1>14. Total(trades, weight) = SumFunctionOnSet(g, D)
  <2>1. PICK new : new = trades
    OBVIOUS
  <2>2. D = DOMAIN new
    BY <1>3, <1>8, <2>1
  <2>3. Total(new, weight) = SumFunctionOnSet(g, DOMAIN new)
    BY <1>11, <1>12, <2>1, <2>2, TotalIsSum
  <2>4. SumFunctionOnSet(g, DOMAIN new) = SumFunctionOnSet(g, D)
    BY <2>2, Zenon
  <2> QED BY <2>1, <2>3, <2>4
<1>15. Freed(s, keys, k) = SumFunctionOnSet(f, keys)
  BY <1>2, <1>5, <1>7, <1>8, <1>11, FreedIsWeight
<1>16. PICK kept \in SUBSET D : kept = D \ keys
  OBVIOUS
<1>17. SumFunctionOnSet(f, D) = SumFunctionOnSet(f, keys) + SumFunctionOnSet(f, kept)
  <2>1. SumFunctionOnSet(f, D) = SumFunctionOnSet(f, keys) + SumFunctionOnSet(f, D \ keys)
    BY <1>2, <1>5, <1>8, <1>11, SumSplits
  <2> QED BY <1>16, <2>1
<1>18. SumFunctionOnSet(f, kept) = SumFunctionOnSet(g, D)
  <2>1. \A key \in D \ kept : g[key] = 0
    BY <1>3, <1>4, <1>5, <1>7, <1>8, <1>11, <1>16 DEF Reserving, IsMap
  <2>2. \A key \in kept : f[key] = g[key]
    BY <1>4, <1>8, <1>11, <1>16
  <2>3. IsFiniteSet(D)
    BY <1>2, <1>8
  <2> QED BY <1>11, <2>1, <2>2, <2>3, SumFilters
<1>19. SumFunctionOnSet(f, keys) \in Int /\ SumFunctionOnSet(f, kept) \in Int
  <2>1. IsFiniteSet(keys) /\ IsFiniteSet(kept) /\ keys \subseteq D
    BY <1>2, <1>5, <1>8, FS_Subset
  <2> QED BY <1>11, <2>1, SumIsInt
<1>20. s.limits[k] = Total(s.trades, weight)
  BY <1>7 DEF BooksInv, BooksHold, Reservations
<1>21. limits[k] = s.limits[k] - Freed(s, keys, k)
  BY DEF ReleaseAll
<1> QED BY <1>7, <1>13, <1>14, <1>15, <1>17, <1>18, <1>19, <1>20, <1>21

(* See EodReleases: here each weighs what it did.                          *)
LEMMA EodMirrors ==
  ASSUME NEW s, BooksInv(s), NEW asOf, NEW keys, keys = Eligible(s, asOf),
         NEW trades, trades = SettleAll(s, keys)
  PROVE  Mirrors(trades, s.ledgerEntries)
<1>1. DomainInv(s)
  BY DEF BooksInv
<1>2. IsMap(s.trades, Trades) /\ IsFiniteSet(DOMAIN s.trades)
  BY <1>1 DEF DomainInv
<1>3. PICK old : old = s.trades
  OBVIOUS
<1>4. /\ DOMAIN trades = DOMAIN old /\ IsMap(trades, Trades)
      /\ \A k \in DOMAIN old :
           \/ trades[k] = old[k]
           \/ /\ old[k].state = "Confirmed" /\ trades[k].state = "Settled"
              /\ SameVersion(old[k], trades[k])
  BY <1>1, <1>3, SettleAllType
<1>5. SUFFICES ASSUME NEW account \in Accounts, NEW currency \in Currencies
               PROVE  Total(s.ledgerEntries, Moving(account, currency))
                        = Total(trades, Placing(account, currency))
  BY DEF Mirrors
<1>6. PICK weight \in [Trades -> Int] : weight = Placing(account, currency)
  BY WeightTypes
<1>7. \A k \in DOMAIN old : weight[trades[k]] = weight[old[k]]
  <2>1. ASSUME NEW t \in Trades, NEW u \in Trades, SameVersion(t, u)
        PROVE  Position(u, account, currency) = Position(t, account, currency)
    BY <2>1 DEF SameVersion, Position
  <2> QED BY <1>2, <1>3, <1>4, <1>6, <2>1 DEF Placing, IsMap
<1>8. PICK f : f = [k \in DOMAIN old |-> weight[old[k]]]
  OBVIOUS
<1>9. \A k \in DOMAIN old : /\ f[k] = weight[old[k]] /\ f[k] = weight[trades[k]]
                            /\ f[k] \in Int
  BY <1>2, <1>3, <1>7, <1>8 DEF IsMap
<1>10. Weighed(old, weight) /\ Weighed(trades, weight)
  BY <1>2, <1>3, <1>4, <1>9 DEF Weighed
<1>11. Total(old, weight) = SumFunctionOnSet(f, DOMAIN old)
  BY <1>9, <1>10, TotalIsSum
<1>12. Total(trades, weight) = SumFunctionOnSet(f, DOMAIN trades)
  BY <1>4, <1>9, <1>10, TotalIsSum
<1>13. SumFunctionOnSet(f, DOMAIN trades) = SumFunctionOnSet(f, DOMAIN old)
  BY <1>4, Zenon
<1>14. Total(s.ledgerEntries, Moving(account, currency)) = Total(old, weight)
  BY <1>3, <1>6 DEF BooksInv, BooksHold, Mirrors
<1> QED BY <1>6, <1>11, <1>12, <1>13, <1>14

(* An end of day keeps the books.                                          *)
LEMMA EodBooks ==
  ASSUME NEW s, BooksInv(s), NEW c, RunEodError(s, c) = Ok,
         NEW r, r = RunEodResult(s, c)
  PROVE  BooksHold(r) /\ r.ledgerTotals = ZeroTotals
<1>1. PICK keys : keys = Eligible(s, c.asOf)
  OBVIOUS
<1>2. CASE keys = {}
  BY <1>1, <1>2 DEF RunEodResult, BooksInv
<1>3. CASE keys # {}
  <2>1. PICK trades : trades = SettleAll(s, keys)
    OBVIOUS
  <2>2. PICK limits : limits = ReleaseAll(s, keys)
    OBVIOUS
  <2>3. PICK settlements : settlements = DeriveSettlements(SettledTrades(trades))
    OBVIOUS
  <2>4. DomainInv(s) /\ HasFields(s)
    BY DEF BooksInv, DomainInv
  <2>5. Is(r, s.version + 1, trades, s.currentVersions, s.ledgerEntries,
           s.confirmationEntries, s.postingIds, s.ledgerTotals, limits,
           settlements)
    BY <1>1, <1>3, <2>1, <2>2, <2>3, <2>4, RunEodFields
  <2>6. /\ DOMAIN trades = DOMAIN s.trades
        /\ \A k \in DOMAIN s.trades :
             \/ trades[k] = s.trades[k]
             \/ s.trades[k].state = "Confirmed" /\ trades[k].state = "Settled"
    BY <1>1, <2>1, <2>4, SettleAllType
  <2>7. Reservations(trades, limits) /\ Mirrors(trades, s.ledgerEntries)
    BY <1>1, <2>1, <2>2, EodReleases, EodMirrors
  <2>8. ConfirmedIsLimited(trades)
    BY <2>6 DEF BooksInv, BooksHold, ConfirmedIsLimited
  <2>9. Matched(trades, s.ledgerEntries, s.confirmationEntries)
    <3>1. DOMAIN s.confirmationEntries \subseteq DOMAIN s.trades
      BY <2>4 DEF DomainInv
    <3>2. \A k \in DOMAIN s.confirmationEntries :
            trades[k].state \in {"Superseded", "Cancelled"}
              <=> s.trades[k].state \in {"Superseded", "Cancelled"}
      BY <2>6, <3>1
    <3> QED BY <3>2 DEF BooksInv, BooksHold, Matched
  <2>10. \A i \in DOMAIN s.ledgerEntries : IsBalanced(s.ledgerEntries[i])
    BY DEF BooksInv, BooksHold
  <2> QED BY <2>5, <2>7, <2>8, <2>9, <2>10 DEF Is, BooksHold, BooksInv
<1> QED BY <1>2, <1>3

-----------------------------------------------------------------------------
(* What the books say of a state, in the words of the domain.              *)

(* A version that is not in a sum of the domain weighs nothing here.       *)
LEMMA BooksReserve ==
  ASSUME NEW s, BooksInv(s)
  PROVE  ReservationsHold(s)
<1> SUFFICES ASSUME NEW k \in LimitKeys
             PROVE  s.limits[k]
                      = LET below == {key \in KeysIn(s, {"Confirmed"}) :
                                        IsBelow(s.trades[key], k)}
                        IN  SumFunction([key \in below |-> s.trades[key].terms.pay.amount])
  BY DEF ReservationsHold
<1>1. PICK trades : trades = s.trades
  OBVIOUS
<1>2. IsMap(trades, Trades) /\ IsFiniteSet(DOMAIN trades)
  BY <1>1 DEF BooksInv, DomainInv
<1>3. PICK weight \in [Trades -> Nat] : weight = Reserving(k)
  BY WeightTypes
<1>4. PICK f : f = [key \in DOMAIN trades |-> weight[trades[key]]]
  OBVIOUS
<1>5. \A key \in DOMAIN trades : f[key] = weight[trades[key]] /\ f[key] \in Int
  BY <1>2, <1>4 DEF IsMap
<1>6. PICK below : below = {key \in KeysIn(s, {"Confirmed"}) : IsBelow(s.trades[key], k)}
  OBVIOUS
<1>7. PICK g : g = [key \in below |-> s.trades[key].terms.pay.amount]
  OBVIOUS
<1>8. /\ below \in SUBSET DOMAIN trades
      /\ \A key \in DOMAIN trades \ below : f[key] = 0
      /\ \A key \in below : g[key] = f[key]
  BY <1>1, <1>2, <1>3, <1>5, <1>6, <1>7 DEF KeysIn, Reserving, IsMap
<1>9. SumFunctionOnSet(g, below) = SumFunctionOnSet(f, DOMAIN trades)
  BY <1>2, <1>5, <1>8, SumFilters
<1>10. Weighed(trades, weight)
  BY <1>2, <1>5 DEF Weighed
<1>11. Total(trades, weight) = SumFunctionOnSet(f, DOMAIN trades)
  BY <1>5, <1>10, TotalIsSum
<1>12. SumFunction(g) = SumFunctionOnSet(g, below)
  <2>1. DOMAIN g = below
    BY <1>7
  <2>2. SumFunctionOnSet(g, DOMAIN g) = SumFunctionOnSet(g, below)
    BY <2>1, Zenon
  <2> QED BY <2>2 DEF SumFunction
<1>13. s.limits[k] = Total(trades, weight)
  BY <1>1, <1>3 DEF BooksInv, BooksHold, Reservations
<1> QED BY <1>6, <1>7, <1>9, <1>11, <1>12, <1>13

(* See BooksReserve, for the accounts.                                     *)
LEMMA BooksMirror ==
  ASSUME NEW s, BooksInv(s)
  PROVE  LedgerMirrors(s)
<1> SUFFICES ASSUME NEW account \in Accounts, NEW currency \in Currencies
             PROVE  SumFunction([i \in DOMAIN s.ledgerEntries |->
                                   Moved(s.ledgerEntries[i], account, currency)])
                      = SumFunction([key \in KeysIn(s, {"Confirmed", "Settled"}) |->
                                       Position(s.trades[key], account, currency)])
  BY DEF LedgerMirrors
<1>1. PICK trades : trades = s.trades
  OBVIOUS
<1>2. PICK entries : entries = s.ledgerEntries
  OBVIOUS
<1>3. IsMap(trades, Trades) /\ IsFiniteSet(DOMAIN trades) /\ entries \in Seq(Entries)
  BY <1>1, <1>2 DEF BooksInv, DomainInv, LedgerOK
<1>4. PICK weight \in [Trades -> Int] : weight = Placing(account, currency)
  BY WeightTypes
<1>5. PICK moving \in [Entries -> Int] : moving = Moving(account, currency)
  BY WeightTypes
<1>6. PICK f : f = [key \in DOMAIN trades |-> weight[trades[key]]]
  OBVIOUS
<1>7. \A key \in DOMAIN trades : f[key] = weight[trades[key]] /\ f[key] \in Int
  BY <1>3, <1>6 DEF IsMap
<1>8. PICK live : live = KeysIn(s, {"Confirmed", "Settled"})
  OBVIOUS
<1>9. PICK g : g = [key \in live |-> Position(s.trades[key], account, currency)]
  OBVIOUS
<1>10. /\ live \in SUBSET DOMAIN trades
       /\ \A key \in DOMAIN trades \ live : f[key] = 0
       /\ \A key \in live : g[key] = f[key]
  BY <1>1, <1>3, <1>4, <1>7, <1>8, <1>9 DEF KeysIn, Placing, IsMap
<1>11. SumFunctionOnSet(g, live) = SumFunctionOnSet(f, DOMAIN trades)
  BY <1>3, <1>7, <1>10, SumFilters
<1>12. Total(trades, weight) = SumFunctionOnSet(f, DOMAIN trades)
  <2>1. Weighed(trades, weight)
    BY <1>3, <1>7 DEF Weighed
  <2> QED BY <1>7, <2>1, TotalIsSum
<1>13. SumFunction(g) = SumFunctionOnSet(g, live)
  <2>1. DOMAIN g = live
    BY <1>9
  <2>2. SumFunctionOnSet(g, DOMAIN g) = SumFunctionOnSet(g, live)
    BY <2>1, Zenon
  <2> QED BY <2>2 DEF SumFunction
<1>14. PICK h : h = [i \in DOMAIN entries |-> Moved(entries[i], account, currency)]
  OBVIOUS
<1>15. \A i \in DOMAIN entries : h[i] = moving[entries[i]] /\ moving[entries[i]] \in Int
  BY <1>3, <1>5, <1>14 DEF Moving
<1>16. IsFiniteSet(DOMAIN entries)
  <2>1. DOMAIN entries = 1..Len(entries) /\ Len(entries) \in Nat
    BY <1>3
  <2> QED BY <2>1, FS_Interval
<1>17. Total(entries, moving) = SumFunctionOnSet(h, DOMAIN entries)
  BY <1>15, <1>16, TotalIsSum DEF Weighed
<1>18. SumFunction(h) = SumFunctionOnSet(h, DOMAIN entries)
  <2>1. DOMAIN h = DOMAIN entries
    BY <1>14
  <2>2. SumFunctionOnSet(h, DOMAIN h) = SumFunctionOnSet(h, DOMAIN entries)
    BY <2>1, Zenon
  <2> QED BY <2>2 DEF SumFunction
<1>19. Total(entries, moving) = Total(trades, weight)
  BY <1>1, <1>2, <1>4, <1>5 DEF BooksInv, BooksHold, Mirrors
<1> QED BY <1>2, <1>8, <1>9, <1>11, <1>12, <1>13, <1>14, <1>17, <1>18, <1>19

(* Every entry is balanced, and so is the sum of them.                     *)
LEMMA BooksBalance ==
  ASSUME NEW s, BooksInv(s)
  PROVE  InvariantsHold(s)
<1>1. BalancesHold(s)
  BY Meaning DEF BooksInv
<1>2. ASSUME NEW currency \in Currencies
      PROVE  RecomputedTotals(s)[currency] = 0
  <2>1. PICK f : f = [i \in DOMAIN s.ledgerEntries |->
                        RunningSum(s.ledgerEntries[i], currency, 4)]
    OBVIOUS
  <2>2. \A i \in DOMAIN f : f[i] = 0
    BY <2>1 DEF BooksInv, BooksHold, IsBalanced
  <2>3. IsFiniteSet(DOMAIN f)
    <3>1. s.ledgerEntries \in Seq(Entries)
      BY DEF BooksInv, DomainInv, LedgerOK
    <3>2. DOMAIN f = 1..Len(s.ledgerEntries) /\ Len(s.ledgerEntries) \in Nat
      BY <2>1, <3>1
    <3> QED BY <3>2, FS_Interval
  <2>4. SumFunctionOnSet(f, DOMAIN f) = 0
    BY <2>2, <2>3, SumZero
  <2> QED BY <2>1, <2>4 DEF RecomputedTotals, SumFunction
<1>3. RecomputedTotals(s) = ZeroTotals
  BY <1>2 DEF RecomputedTotals, ZeroTotals
<1> QED BY <1>1, <1>3 DEF InvariantsHold, BooksInv

(* Confirmation entries are named by the keys that lead to them.           *)
LEMMA BooksMatch ==
  ASSUME NEW s, BooksInv(s)
  PROVE  ReversalsMatch(s)
<1>1. Matched(s.trades, s.ledgerEntries, s.confirmationEntries)
  BY DEF BooksInv, BooksHold
<1> QED BY <1>1 DEF Matched, ReversalsMatch

-----------------------------------------------------------------------------
(* No confirmed version is stranded.                                       *)

(* What a confirmed version reserves is there, at each of its limits.      *)
LEMMA ConfirmedIsReserved ==
  ASSUME NEW s, BooksInv(s), NEW key \in DOMAIN s.trades,
         NEW t, t = s.trades[key], t.state = "Confirmed",
         NEW k \in PathKeys(t.path, t.terms.pay)
  PROVE  k \in LimitKeys /\ t.terms.pay.amount <= s.limits[k]
<1>1. PICK trades : trades = s.trades
  OBVIOUS
<1>2. IsMap(trades, Trades) /\ IsFiniteSet(DOMAIN trades)
  BY <1>1 DEF BooksInv, DomainInv
<1>3. t \in Trades /\ k \in LimitKeys
  BY <1>1, <1>2 DEF BooksInv, BooksHold, ConfirmedIsLimited, IsLimited, IsMap
<1>4. PICK weight \in [Trades -> Nat] : weight = Reserving(k)
  BY <1>3, WeightTypes
<1>5. weight[t] = t.terms.pay.amount
  BY <1>3, <1>4, BelowIsCharged DEF Reserving
<1>6. PICK f : f = [l \in DOMAIN trades |-> weight[trades[l]]]
  OBVIOUS
<1>7. \A l \in DOMAIN trades : f[l] = weight[trades[l]] /\ f[l] \in Nat
  BY <1>2, <1>6 DEF IsMap
<1>8. Weighed(trades, weight)
  BY <1>2, <1>7 DEF Weighed
<1>9. Total(trades, weight) = SumFunctionOnSet(f, DOMAIN trades)
  BY <1>7, <1>8, TotalIsSum
<1>10. PICK rest : rest = DOMAIN trades \ {key}
  OBVIOUS
<1>11. SumFunctionOnSet(f, DOMAIN trades) = f[key] + SumFunctionOnSet(f, rest)
  <2>1. SumFunctionOnSet(f, DOMAIN trades) = f[key] + SumFunctionOnSet(f, DOMAIN trades \ {key})
    BY <1>1, <1>2, <1>7, SumTakesOut
  <2> QED BY <1>10, <2>1
<1>12. SumFunctionOnSet(f, rest) \in Nat
  <2>1. IsFiniteSet(rest) /\ \A l \in rest : f[l] \in Nat
    BY <1>2, <1>7, <1>10, FS_Subset
  <2> QED BY <2>1, SumIsNatural
<1>13. s.limits[k] = Total(trades, weight)
  BY <1>1, <1>3, <1>4 DEF BooksInv, BooksHold, Reservations
<1>14. f[key] = t.terms.pay.amount /\ f[key] \in Nat
  BY <1>1, <1>5, <1>7
<1> QED BY <1>3, <1>9, <1>11, <1>12, <1>13, <1>14

(* A reversal of the entry of a confirmed version passes every check.      *)
LEMMA ReversalPasses ==
  ASSUME NEW s, BooksInv(s), NEW key \in DOMAIN s.trades,
         s.trades[key].state = "Confirmed", NEW ids \in IdTuples,
         \A i, j \in Lines : ids[i] = ids[j] => i = j,
         \A i \in Lines : ids[i] \notin s.postingIds,
         NEW original, original = s.ledgerEntries[s.confirmationEntries[key]]
  PROVE  /\ key \in DOMAIN s.confirmationEntries
         /\ ReversalEntryError(original, ids) = Ok
         /\ AppendEntryError(s, ReversalEntry(original, ids)) = Ok
<1>1. BooksShape(s) /\ s.ledgerTotals = ZeroTotals
  BY ShapeOfDomain DEF BooksInv
<1>2. PICK t : t = s.trades[key]
  OBVIOUS
<1>3. key \in DOMAIN s.confirmationEntries
  BY <1>1 DEF BooksShape, ConfirmedBy
<1>4. t \in Trades
  BY <1>1, <1>2 DEF BooksShape, IsMap
<1>5. s.confirmationEntries[key] \in DOMAIN s.ledgerEntries
  BY <1>1, <1>3 DEF BooksShape, IsMap
<1>6. original \in Entries
  BY <1>1, <1>5 DEF BooksShape
<1>7. PICK oldIds : oldIds = [i \in Lines |-> original[i].id]
  OBVIOUS
<1>8. original = ConfirmationEntry(t, oldIds)
  BY <1>1, <1>2, <1>3, <1>7 DEF BooksShape, ConfirmedBy
<1>9. PICK reversal : reversal = ReversalEntry(original, ids)
  OBVIOUS
<1>10. SumFits(ZeroTotals, reversal)
  BY <1>4, <1>6, <1>8, <1>9, PolicySumsFit
<1>11. \A i \in Lines : reversal[i].id = ids[i]
  BY <1>6, <1>9 DEF ReversalEntry, Entries, Postings
<1>12. \A c \in Currencies : RunningSum(reversal, c, 4) = 0
  BY <1>4, <1>6, <1>8, <1>9, PolicyBalances
<1>13. EntryError(reversal) = Ok
  BY <1>10, <1>11, <1>12 DEF EntryError, Fail, ??, Ok
<1>14. IsConfirmationShape(original)
  BY <1>4, <1>8, ConfirmationShape
<1>15. \A i \in Lines : original[i].id \in s.postingIds
  BY <1>1, <1>5 DEF BooksShape, Identified, EntryIds
<1>16. ReversalEntryError(original, ids) = Ok
  BY <1>9, <1>13, <1>14, <1>15 DEF ReversalEntryError, Fail, ??, Ok
<1>17. EntryIds(reversal) \cap s.postingIds = {}
  BY <1>11 DEF EntryIds
<1>18. AppendEntryError(s, reversal) = Ok
  BY <1>1, <1>10, <1>17 DEF AppendEntryError, Fail, ??, Ok
<1> QED BY <1>3, <1>9, <1>16, <1>18

(* A confirmed version is the current one of its trade.                    *)
LEMMA ConfirmedIsCurrent ==
  ASSUME NEW s, DomainInv(s), NEW key \in DOMAIN s.trades,
         s.trades[key].state = "Confirmed"
  PROVE  /\ key = <<key[1], key[2]>>
         /\ key[1] \in DOMAIN s.currentVersions
         /\ s.currentVersions[key[1]] = key[2]
         /\ s.trades[key].version = key[2]
<1>1. /\ DOMAIN s.trades \subseteq TradeVersionKeys
      /\ Chained(s.trades, s.currentVersions)
      /\ IsMap(s.currentVersions, Versions)
  BY DEF DomainInv, ChainMaps
<1>2. PICK id \in TradeIds, version \in Versions : key = <<id, version>>
  BY <1>1 DEF TradeVersionKeys
<1>3. id \in DOMAIN s.currentVersions /\ version <= s.currentVersions[id]
  BY <1>1, <1>2 DEF Chained
<1>4. version \in 1..s.currentVersions[id]
  BY <1>1, <1>3, WidthsArePositive DEF IsMap, Versions
<1>5. /\ s.trades[key].version = version
      /\ s.trades[key].state = "Superseded" <=> version < s.currentVersions[id]
  BY <1>1, <1>2, <1>3, <1>4 DEF Chained
<1>6. s.currentVersions[id] = version
  BY <1>1, <1>3, <1>4, <1>5 DEF IsMap, Versions
<1> QED BY <1>2, <1>3, <1>5, <1>6

(* A cancel of it, with unused identifiers, is accepted.                   *)
LEMMA CancelIsAccepted ==
  ASSUME NEW s, BooksInv(s), NEW key \in DOMAIN s.trades,
         s.trades[key].state = "Confirmed", NEW ids \in IdTuples,
         \A i, j \in Lines : ids[i] = ids[j] => i = j,
         \A i \in Lines : ids[i] \notin s.postingIds,
         NEW c, c.tradeId = key[1], c.expectedVersion = key[2], c.reversalIds = ids
  PROVE  CancelTradeError(s, c) \in {Ok, "StateVersionOverflow"}
<1>1. /\ key = <<c.tradeId, c.expectedVersion>>
      /\ c.tradeId \in DOMAIN s.currentVersions
      /\ s.currentVersions[c.tradeId] = c.expectedVersion
      /\ s.trades[key].version = c.expectedVersion
  BY ConfirmedIsCurrent DEF BooksInv
<1>2. PICK current : current = s.trades[key]
  OBVIOUS
<1>3. CurrentTrade(s, c.tradeId) = current
  BY <1>1, <1>2 DEF CurrentTrade
<1>4. RequireCurrentError(s, c.tradeId, c.expectedVersion) = Ok
  BY <1>1, <1>2, <1>3 DEF RequireCurrentError, Fail, ??, Ok
<1>5. ApplyError(current, "CancelTrade") = Ok
  <2>1. Transition(current.state, "CancelTrade") = "Cancelled"
    BY <1>2 DEF Transition
  <2> QED BY <2>1 DEF ApplyError, Fail, Ok, Illegal
<1>6. ids # NoReversalIds
  <2>1. DOMAIN ids = Lines /\ DOMAIN NoReversalIds = {} /\ 1 \in Lines
    BY DEF IdTuples, NoReversalIds, Lines
  <2> QED BY <2>1
<1>7. PICK original : original = s.ledgerEntries[s.confirmationEntries[key]]
  OBVIOUS
<1>8. /\ key \in DOMAIN s.confirmationEntries
      /\ ReversalEntryError(original, ids) = Ok
      /\ AppendEntryError(s, ReversalEntry(original, ids)) = Ok
  BY <1>7, ReversalPasses
<1>9. ReleaseError(s.limits, current.path, current.terms.pay) = Ok
  <2>1. \A k \in PathKeys(current.path, current.terms.pay) :
          k \in LimitKeys /\ current.terms.pay.amount <= s.limits[k]
    BY <1>2, ConfirmedIsReserved
  <2>2. current.terms.pay.amount > 0
    <3>1. current \in Trades
      BY <1>2 DEF BooksInv, DomainInv, IsMap
    <3> QED BY <3>1, WidthsArePositive DEF Trades, FxTerms, Money
  <2>3. \A level \in 1..4 : PathKey(current.path, current.terms.pay, level)
                              \in PathKeys(current.path, current.terms.pay)
    BY DEF PathKeys
  <2>4. current.terms.pay.amount \in Int
    <3>1. current \in Trades
      BY <1>2 DEF BooksInv, DomainInv, IsMap
    <3> QED BY <3>1, WidthsArePositive DEF Trades, FxTerms, Money
  <2>5. ~(current.terms.pay.amount <= 0)
    BY <2>2, <2>4
  <2>6. {level \in 1..4 :
           \/ PathKey(current.path, current.terms.pay, level) \notin LimitKeys
           \/ ~(current.terms.pay.amount
                  <= s.limits[PathKey(current.path, current.terms.pay, level)])} = {}
    BY <2>1, <2>3
  <2> QED BY <2>5, <2>6 DEF ReleaseError, PathError, Fail, ??, Ok
<1>10. current.state # "Captured"
  BY <1>2
<1>11. AdvanceVersionError(s) \in {Ok, "StateVersionOverflow"}
  BY DEF AdvanceVersionError, Fail
<1>12. CancelTradeError(s, c) = AdvanceVersionError(s)
  <2>1. PICK original2 : original2 = s.ledgerEntries[s.confirmationEntries[<<c.tradeId, c.expectedVersion>>]]
    OBVIOUS
  <2>2. original2 = original
    BY <1>1, <1>7, <2>1
  <2>3. Fail(c.reversalIds = NoReversalIds, "MissingReversalIds") = Ok
    BY <1>6 DEF Fail
  <2>4. Fail(<<c.tradeId, c.expectedVersion>> \notin DOMAIN s.confirmationEntries,
             "MissingConfirmationEntry") = Ok
    BY <1>1, <1>8 DEF Fail
  <2> QED BY <1>1, <1>3, <1>4, <1>5, <1>7, <1>8, <1>9, <1>10, <2>3, <2>4
          DEF CancelTradeError, ??
<1> QED BY <1>11, <1>12

(* End of day meets no failure but an overflow.                            *)
LEMMA EodIsAccepted ==
  ASSUME NEW s, BooksInv(s), NEW c
  PROVE  RunEodError(s, c) \in {Ok, "ArithmeticOverflow", "StateVersionOverflow"}
<1>1. PICK keys : keys = Eligible(s, c.asOf)
  OBVIOUS
<1>2. /\ keys \in SUBSET DOMAIN s.trades
      /\ \A key \in keys : s.trades[key].state = "Confirmed"
  BY <1>1 DEF Eligible
<1>3. \A k \in LimitKeys : Freed(s, keys, k) \in 0..s.limits[k]
  BY <1>2, FreedIsReserved
<1>4. \A key \in keys : PathKeys(s.trades[key].path, s.trades[key].terms.pay) \subseteq LimitKeys
  BY <1>2 DEF BooksInv, BooksHold, ConfirmedIsLimited, IsLimited
<1>5. ReleaseAllError(s, keys) = Ok
  BY <1>3, <1>4 DEF ReleaseAllError, Fail, ??, Ok
<1>6. \A key \in keys : ApplyError(s.trades[key], "RunEod") = Ok
  <2>1. SUFFICES ASSUME NEW key \in keys PROVE ApplyError(s.trades[key], "RunEod") = Ok
    OBVIOUS
  <2>2. Transition(s.trades[key].state, "RunEod") = "Settled"
    BY <1>2 DEF Transition
  <2> QED BY <2>2 DEF ApplyError, Fail, Ok, Illegal
<1>7. PICK settled : settled = SettledTrades(SettleAll(s, keys))
  OBVIOUS
<1>8. SettlementError(settled) \in {Ok, "ArithmeticOverflow"}
  BY DEF SettlementError, Fail
<1>9. AdvanceVersionError(s) \in {Ok, "StateVersionOverflow"}
  BY DEF AdvanceVersionError, Fail
<1>10. Fail(\E key \in keys : ApplyError(s.trades[key], "RunEod") # Ok, Illegal) = Ok
  BY <1>6 DEF Fail
<1> QED BY <1>1, <1>5, <1>7, <1>8, <1>9, <1>10 DEF RunEodError, ??

-----------------------------------------------------------------------------
(* The netting accumulator.                                                *)

(* Sums over the elements of a sequence.                                   *)
Amounts == Nat \ {0}

LEMMA SumOfEmpty == SumFunction(<<>>) = 0
<1>1. DOMAIN <<>> = {}
  OBVIOUS
<1>2. SumFunctionOnSet(<<>>, {}) = 0
  BY SumEmpty
<1> QED BY <1>1, <1>2, Zenon DEF SumFunction

LEMMA SumOfAmounts ==
  ASSUME NEW s \in Seq(Amounts), NEW v, v = SumFunction(s)
  PROVE  /\ v \in Nat
         /\ s = <<>> <=> v = 0
<1>1. PICK n \in Nat : n = Len(s)
  OBVIOUS
<1>2. DOMAIN s = 1..n /\ \A i \in 1..n : s[i] \in Amounts
  BY <1>1
<1>3. IsFiniteSet(1..n)
  BY <1>1, FS_Interval
<1>4. v = SumFunctionOnSet(s, 1..n)
  BY <1>2, Zenon DEF SumFunction
<1>5. v \in Nat
  BY <1>2, <1>3, <1>4, SumIsNatural DEF Amounts
<1>6. s = <<>> => v = 0
  BY SumOfEmpty
<1>7. s # <<>> => v # 0
  <2>1. SUFFICES ASSUME n > 0 PROVE v # 0
    BY <1>1
  <2>2. {1} \in SUBSET (1..n) /\ \A i \in 1..n : s[i] \in Nat
    BY <1>2, <2>1 DEF Amounts
  <2>3. SumFunctionOnSet(s, {1}) \in 0..v
    BY <1>3, <1>4, <2>2, SumOfPart
  <2>4. SumFunctionOnSet(s, {} \cup {1}) = SumFunctionOnSet(s, {}) + s[1]
    <3>1. IsFiniteSet({}) /\ 1 \notin {} /\ \A y \in {} \cup {1} : s[y] \in Int
      BY <2>2, FS_EmptySet
    <3> QED BY <3>1, SumAdds
  <2>5. SumFunctionOnSet(s, {}) = 0 /\ {} \cup {1} = {1}
    BY SumEmpty
  <2>6. s[1] \in Amounts
    BY <1>2, <2>1
  <2>7. SumFunctionOnSet(s, {1}) = s[1]
    BY <2>4, <2>5, <2>6 DEF Amounts
  <2> QED BY <1>5, <2>3, <2>6, <2>7 DEF Amounts
<1> QED BY <1>5, <1>6, <1>7

LEMMA SumOfAppended ==
  ASSUME NEW s \in Seq(Int), NEW x \in Int, NEW r, r = Append(s, x)
  PROVE  SumFunction(r) = SumFunction(s) + x
<1>1. PICK n \in Nat : n = Len(s)
  OBVIOUS
<1>2. /\ DOMAIN s = 1..n /\ DOMAIN r = 1..(n + 1)
      /\ \A i \in 1..n : s[i] \in Int /\ r[i] = s[i]
      /\ r[n + 1] = x
  BY <1>1
<1>3. IsFiniteSet(1..n) /\ n + 1 \notin 1..n /\ 1..(n + 1) = (1..n) \cup {n + 1}
  <2>1. IsFiniteSet(1..n)
    BY FS_Interval
  <2>2. n + 1 \notin 1..n /\ 1..(n + 1) = (1..n) \cup {n + 1}
    OBVIOUS
  <2> QED BY <2>1, <2>2
<1>4. SumFunctionOnSet(r, (1..n) \cup {n + 1}) = SumFunctionOnSet(r, 1..n) + r[n + 1]
  <2>1. \A y \in (1..n) \cup {n + 1} : r[y] \in Int
    BY <1>2
  <2> QED BY <1>3, <2>1, SumAdds
<1>5. SumFunctionOnSet(s, 1..n) = SumFunctionOnSet(r, 1..n)
  BY <1>2, <1>3, SumAgrees
<1>6. SumFunction(s) = SumFunctionOnSet(s, 1..n)
  BY <1>2, Zenon DEF SumFunction
<1>7. SumFunction(r) = SumFunctionOnSet(r, 1..(n + 1))
  BY <1>2, Zenon DEF SumFunction
<1>8. SumFunction(r) = SumFunctionOnSet(r, (1..n) \cup {n + 1})
  BY <1>3, <1>7, Zenon
<1> QED BY <1>2, <1>4, <1>5, <1>6, <1>8

(* A sequence that is not empty: its sum is the last amount and the others.*)
LEMMA SumOfFront ==
  ASSUME NEW s \in Seq(Amounts), s # <<>>, NEW f, f = Front(s),
         NEW top, top = Last(s)
  PROVE  /\ f \in Seq(Amounts) /\ Len(f) = Len(s) - 1 /\ top \in Amounts
         /\ SumFunction(s) = SumFunction(f) + top
<1>1. PICK n \in Nat : n = Len(s)
  OBVIOUS
<1>2. n > 0 /\ f = SubSeq(s, 1, n - 1) /\ top = s[n] /\ n - 1 \in Nat
  BY <1>1 DEF Front, Last
<1>3. top \in Amounts
  BY <1>1, <1>2
<1>4. /\ Len(f) = n - 1 /\ \A i \in 1..(n - 1) : f[i] = s[i] /\ s[i] \in Amounts
      /\ f = [i \in 1..(n - 1) |-> f[i]]
  BY <1>1, <1>2
<1>5. f \in Seq(Amounts)
  BY <1>2, <1>4
<1>6. PICK r : r = Append(f, top)
  OBVIOUS
<1>7. IsSeq(r) /\ Len(r) = n /\ \A i \in 1..n : r[i] = s[i]
  <2>1. IsSeq(f)
    BY <1>5 DEF IsSeq
  <2>2. Grown(r, f, top)
    BY <1>6, <2>1, Appended
  <2>3. /\ IsSeq(r) /\ Len(r) = n /\ r[n] = top
        /\ \A i \in 1..(n - 1) : r[i] = f[i]
    BY <1>2, <1>4, <2>2 DEF Grown
  <2>4. \A i \in 1..n : i = n \/ i \in 1..(n - 1)
    BY <1>2
  <2> QED BY <1>2, <1>4, <2>3, <2>4
<1>8. r = s
  <2>1. IsSeq(r) /\ IsSeq(s)
    BY <1>7 DEF IsSeq
  <2>2. Agree(r, s)
    BY <1>1, <1>7, <2>1 DEF Agree
  <2> QED BY <2>2, EqualSequences
<1>9. SumFunction(r) = SumFunction(f) + top
  <2>1. f \in Seq(Int) /\ top \in Int
    BY <1>3, <1>5 DEF Amounts
  <2> QED BY <1>6, <2>1, SumOfAppended
<1> QED BY <1>1, <1>3, <1>4, <1>5, <1>8, <1>9

LEMMA NumberInduction ==
  ASSUME NEW N \in Nat, NEW T, 0 \in T,
         \A n \in 1..N : n - 1 \in T => n \in T
  PROVE  \A n \in 0..N : n \in T
<1>1. PICK C : C = {n \in 0..N : n \notin T}
  OBVIOUS
<1>2. SUFFICES ASSUME C # {} PROVE FALSE
  BY <1>1
<1>3. C \in SUBSET Nat
  BY <1>1
<1>4. PICK m \in C : \A k \in C : m <= k
  BY <1>2, <1>3, SmallestNumber
<1>5. m \in 0..N /\ m \notin T /\ m # 0
  BY <1>1
<1>6. m \in 1..N /\ m - 1 \in 0..N /\ ~(m <= m - 1)
  BY <1>5
<1>7. m - 1 \in T
  BY <1>1, <1>4, <1>6
<1> QED BY <1>5, <1>6, <1>7

(* The loop of add_cashflow has a run of any length.                       *)
LEMMA CancelRuns ==
  ASSUME NEW unmatched, NEW amount, NEW N \in Nat, N = Len(unmatched)
  PROVE  \E g : /\ CancelAgainst(unmatched, amount) = g[N]
                /\ g[0] = [left |-> amount, stack |-> unmatched]
                /\ \A n \in 1..N : g[n] = CancelTop(g[n - 1])
<1>1. PICK base : base = [left |-> amount, stack |-> unmatched]
  OBVIOUS
<1> DEFINE Runs(m, g) ==
      g = [n \in 0..m |-> IF n = 0 THEN base ELSE CancelTop(g[n - 1])]
           T == {m \in 0..N : \E g : Runs(m, g)}
<1>2. 0 \in T
  <2>1. PICK g : g = [n \in 0..0 |-> base]
    OBVIOUS
  <2>2. \A n \in 0..0 : base = IF n = 0 THEN base ELSE CancelTop(g[n - 1])
    OBVIOUS
  <2>3. Runs(0, g)
    BY <2>1, <2>2
  <2> QED BY <2>3
<1>3. ASSUME NEW m \in 1..N, m - 1 \in T PROVE m \in T
  <2>1. PICK g : Runs(m - 1, g)
    BY <1>3
  <2>2. PICK h : h = [n \in 0..m |-> IF n = m THEN CancelTop(g[m - 1]) ELSE g[n]]
    OBVIOUS
  <2>3. /\ \A n \in 0..(m - 1) : h[n] = g[n]
        /\ h[m] = CancelTop(g[m - 1])
        /\ DOMAIN h = 0..m /\ h = [n \in 0..m |-> h[n]]
    BY <2>2
  <2>4. \A n \in 0..(m - 1) : g[n] = IF n = 0 THEN base ELSE CancelTop(g[n - 1])
    BY <2>1
  <2>5. \A n \in 0..m : h[n] = IF n = 0 THEN base ELSE CancelTop(h[n - 1])
    <3> TAKE n \in 0..m
    <3>1. CASE n = m
      <4>1. m - 1 \in 0..(m - 1) /\ m # 0
        OBVIOUS
      <4> QED BY <2>3, <3>1, <4>1
    <3>2. CASE n # m /\ n # 0
      <4>1. n \in 0..(m - 1) /\ n - 1 \in 0..(m - 1)
        BY <3>2
      <4> QED BY <2>3, <2>4, <3>2, <4>1
    <3>3. CASE n = 0
      <4>1. 0 \in 0..(m - 1)
        OBVIOUS
      <4> QED BY <2>3, <2>4, <3>3, <4>1
    <3> QED BY <3>1, <3>2, <3>3
  <2>6. Runs(m, h)
    BY <2>3, <2>5
  <2> QED BY <2>6
<1>4. N \in T
  <2> HIDE DEF T
  <2>1. \A n \in 1..N : n - 1 \in T => n \in T
    BY <1>3
  <2>2. \A n \in 0..N : n \in T
    BY <1>2, <2>1, NumberInduction
  <2> QED BY <2>2
<1>5. PICK g : g = CHOOSE f : Runs(N, f)
  OBVIOUS
<1>6. Runs(N, g)
  BY <1>4, <1>5
<1>7. CancelAgainst(unmatched, amount) = g[N]
  BY <1>1, <1>5 DEF CancelAgainst
<1> QED BY <1>1, <1>6, <1>7

(* The loop with the stack and what is left of the amount: their difference*)
(* stays v, and until the amount is used up each of the k iterations that  *)
(* remain finds an element on the stack.                                   *)
Cancelling(s, k, v) ==
  /\ s.left \in Nat /\ s.stack \in Seq(Amounts)
  /\ SumFunction(s.stack) - s.left = v
  /\ s.left = 0 \/ Len(s.stack) = k

LEMMA CancelTopKeeps ==
  ASSUME NEW s, NEW k \in Nat \ {0}, NEW v \in Int, Cancelling(s, k, v)
  PROVE  Cancelling(CancelTop(s), k - 1, v)
<1>1. /\ s.left \in Nat /\ s.stack \in Seq(Amounts)
      /\ SumFunction(s.stack) - s.left = v
      /\ s.left = 0 \/ Len(s.stack) = k
  BY DEF Cancelling
<1>2. CASE s.left = 0
  <2>1. CancelTop(s) = s
    BY <1>2 DEF CancelTop
  <2> QED BY <1>1, <1>2, <2>1 DEF Cancelling
<1>3. CASE s.left # 0
  <2>1. s.stack # <<>> /\ Len(s.stack) = k
    BY <1>1, <1>3
  <2>2. PICK f : f = Front(s.stack)
    OBVIOUS
  <2>3. PICK top : top = Last(s.stack)
    OBVIOUS
  <2>4. /\ f \in Seq(Amounts) /\ Len(f) = k - 1 /\ top \in Amounts
        /\ SumFunction(s.stack) = SumFunction(f) + top
    BY <1>1, <2>1, <2>2, <2>3, SumOfFront
  <2>5. PICK sum \in Nat : sum = SumFunction(f)
    BY <2>4, SumOfAmounts
  <2>6. PICK r : r = CancelTop(s)
    OBVIOUS
  <2>7. CASE top > s.left
    <3>1. PICK d : d = top - s.left
      OBVIOUS
    <3>2. d \in Amounts /\ d \in Int
      BY <1>1, <2>4, <2>7, <3>1 DEF Amounts
    <3>3. PICK t : t = Append(f, d)
      OBVIOUS
    <3>4. r = [left |-> 0, stack |-> t]
      BY <1>3, <2>2, <2>3, <2>6, <2>7, <3>1, <3>3, Zenon DEF CancelTop
    <3>5. t \in Seq(Amounts)
      BY <2>4, <3>2, <3>3
    <3>6. SumFunction(t) = sum + d
      <4>1. f \in Seq(Int)
        BY <2>4 DEF Amounts
      <4> QED BY <2>5, <3>2, <3>3, <4>1, SumOfAppended
    <3>7. sum + d = v
      BY <1>1, <2>4, <2>5, <3>1 DEF Amounts
    <3>8. r.left = 0 /\ r.stack = t
      BY <3>4
    <3>9. SumFunction(r.stack) - r.left = v
      BY <2>5, <3>2, <3>6, <3>7, <3>8
    <3> QED BY <2>6, <3>5, <3>8, <3>9 DEF Cancelling
  <2>8. CASE ~(top > s.left)
    <3>1. PICK d : d = s.left - top
      OBVIOUS
    <3>2. d \in Nat
      BY <1>1, <2>4, <2>8, <3>1 DEF Amounts
    <3>3. r = [left |-> d, stack |-> f]
      BY <1>3, <2>2, <2>3, <2>6, <2>8, <3>1, Zenon DEF CancelTop
    <3>4. sum - d = v
      BY <1>1, <2>4, <2>5, <3>1 DEF Amounts
    <3> QED BY <2>4, <2>5, <2>6, <3>2, <3>3, <3>4 DEF Cancelling
  <2> QED BY <2>7, <2>8
<1> QED BY <1>2, <1>3

(* What the loop leaves.                                                   *)
LEMMA Cancelled ==
  ASSUME NEW unmatched \in Seq(Amounts), NEW amount \in Amounts,
         NEW rest, rest = CancelAgainst(unmatched, amount)
  PROVE  /\ rest.left \in Nat /\ rest.stack \in Seq(Amounts)
         /\ SumFunction(rest.stack) - rest.left = SumFunction(unmatched) - amount
         /\ rest.left = 0 \/ rest.stack = <<>>
<1>1. PICK N \in Nat : N = Len(unmatched)
  OBVIOUS
<1>2. PICK sum \in Nat : sum = SumFunction(unmatched)
  BY SumOfAmounts
<1>3. PICK v \in Int : v = sum - amount
  BY <1>2 DEF Amounts
<1>4. PICK g : /\ rest = g[N]
               /\ g[0] = [left |-> amount, stack |-> unmatched]
               /\ \A n \in 1..N : g[n] = CancelTop(g[n - 1])
  BY <1>1, CancelRuns
<1>5. PICK T : T = {n \in 0..N : Cancelling(g[n], N - n, v)}
  OBVIOUS
<1>6. 0 \in T
  <2>1. Cancelling(g[0], N - 0, v)
    BY <1>1, <1>2, <1>3, <1>4 DEF Cancelling, Amounts
  <2> QED BY <1>5, <2>1
<1>7. \A n \in 1..N : n - 1 \in T => n \in T
  <2> SUFFICES ASSUME NEW n \in 1..N, n - 1 \in T PROVE n \in T
    OBVIOUS
  <2>1. PICK k \in Nat \ {0} : k = N - (n - 1)
    OBVIOUS
  <2>2. Cancelling(g[n - 1], k, v)
    BY <1>5, <2>1
  <2>3. Cancelling(g[n], k - 1, v)
    BY <1>4, <2>2, CancelTopKeeps
  <2>4. k - 1 = N - n /\ n \in 0..N
    BY <2>1
  <2> QED BY <1>5, <2>3, <2>4
<1>8. N \in T
  <2>1. \A n \in 0..N : n \in T
    BY <1>6, <1>7, NumberInduction
  <2> QED BY <2>1
<1>9. Cancelling(rest, N - N, v)
  BY <1>4, <1>5, <1>8
<1>10. rest.left = 0 \/ Len(rest.stack) = 0
  BY <1>9 DEF Cancelling
<1>11. rest.stack \in Seq(Amounts)
  BY <1>9 DEF Cancelling
<1>12. rest.left = 0 \/ rest.stack = <<>>
  BY <1>10, <1>11
<1>13. rest.left \in Nat /\ SumFunction(rest.stack) - rest.left = sum - amount
  BY <1>3, <1>9 DEF Cancelling
<1> QED BY <1>2, <1>11, <1>12, <1>13

(* The accumulator stands for the signed net v.                            *)
Exact(net, v) ==
  /\ v \in Int
  /\ net.direction \in {"None", "Incoming", "Outgoing"}
  /\ net.unmatched \in Seq(Amounts)
  /\ net.direction = "None" <=> net.unmatched = <<>>
  /\ net.direction = "Incoming" => v = Magnitude(net)
  /\ net.direction = "Outgoing" => v = -Magnitude(net)
  /\ net.direction = "None" => v = 0

(* What a cashflow and a trade add to the signed net of a bucket.          *)
FlowTo(key, flow) ==
  IF flow.key # key THEN 0
  ELSE IF flow.direction = "Incoming" THEN flow.amount ELSE -flow.amount

Moves(key, trade) ==
  FlowTo(key, Cashflows(trade)[1]) + FlowTo(key, Cashflows(trade)[2])

LEMMA NothingIsExact == Exact(NoCashflow, 0)
BY DEF Exact, NoCashflow, Amounts

LEMMA MagnitudeIs ==
  ASSUME NEW net, net.unmatched \in Seq(Amounts)
  PROVE  /\ Magnitude(net) \in Nat
         /\ net.unmatched = <<>> <=> Magnitude(net) = 0
<1>1. PICK s \in Seq(Amounts) : s = net.unmatched
  OBVIOUS
<1>2. PICK v : v = SumFunction(s)
  OBVIOUS
<1>3. v \in Nat /\ (s = <<>> <=> v = 0)
  BY <1>2, SumOfAmounts
<1> QED BY <1>1, <1>2, <1>3 DEF Magnitude

(* An arriving cashflow of the same direction.                             *)
LEMMA SameDirectionIsExact ==
  ASSUME NEW net, NEW v, Exact(net, v), NEW flow, flow.amount \in Amounts,
         flow.direction \in Directions, net.direction \in {"None", flow.direction},
         NEW signed, signed = IF flow.direction = "Incoming" THEN flow.amount
                              ELSE -flow.amount
  PROVE  Exact(AddCashflow(net, flow), v + signed)
<1>1. PICK stack : stack = Append(net.unmatched, flow.amount)
  OBVIOUS
<1>2. PICK r : r = [direction |-> flow.direction, unmatched |-> stack]
  OBVIOUS
<1>3. AddCashflow(net, flow) = r
  BY <1>1, <1>2 DEF AddCashflow
<1>4. PICK m \in Nat : m = SumFunction(net.unmatched)
  BY MagnitudeIs DEF Exact, Magnitude
<1>5. /\ v \in Int
      /\ flow.direction = "Incoming" => v = m
      /\ flow.direction = "Outgoing" => v = -m
  <2>1. net.direction = "None" => m = 0 /\ v = 0
    BY <1>4, SumOfEmpty DEF Exact
  <2> QED BY <1>4, <2>1 DEF Exact, Magnitude
<1>6. stack \in Seq(Amounts) /\ stack # <<>>
  BY <1>1 DEF Exact
<1>7. SumFunction(stack) = m + flow.amount
  <2>1. net.unmatched \in Seq(Int) /\ flow.amount \in Int
    BY DEF Exact, Amounts
  <2> QED BY <1>1, <1>4, <2>1, SumOfAppended
<1>8. /\ flow.direction = "Incoming" => v + signed = m + flow.amount
      /\ flow.direction = "Outgoing" => v + signed = -(m + flow.amount)
      /\ v + signed \in Int
  BY <1>5 DEF Amounts, Directions
<1>9. flow.direction \in {"Incoming", "Outgoing"}
  BY DEF Directions
<1> QED BY <1>2, <1>3, <1>6, <1>7, <1>8, <1>9 DEF Exact, Magnitude

(* One of the other direction.                                             *)
LEMMA OtherDirectionIsExact ==
  ASSUME NEW net, NEW v, Exact(net, v), NEW flow, flow.amount \in Amounts,
         flow.direction \in Directions, net.direction \notin {"None", flow.direction},
         NEW signed, signed = IF flow.direction = "Incoming" THEN flow.amount
                              ELSE -flow.amount
  PROVE  Exact(AddCashflow(net, flow), v + signed)
<1>1. PICK rest : rest = CancelAgainst(net.unmatched, flow.amount)
  OBVIOUS
<1>2. net.unmatched \in Seq(Amounts)
  BY DEF Exact
<1>3. PICK m \in Nat : m = SumFunction(net.unmatched)
  BY <1>2, SumOfAmounts
<1>4. /\ rest.left \in Nat /\ rest.stack \in Seq(Amounts)
      /\ SumFunction(rest.stack) - rest.left = m - flow.amount
      /\ rest.left = 0 \/ rest.stack = <<>>
  BY <1>1, <1>2, <1>3, Cancelled
<1>5. PICK sum \in Nat : sum = SumFunction(rest.stack)
  BY <1>4, SumOfAmounts
<1>6. sum - rest.left = m - flow.amount
  BY <1>4, <1>5
<1>7. /\ v \in Int /\ flow.amount \in Amounts
      /\ \/ flow.direction = "Incoming" /\ net.direction = "Outgoing" /\ v = -m
            /\ signed = flow.amount
         \/ flow.direction = "Outgoing" /\ net.direction = "Incoming" /\ v = m
            /\ signed = -flow.amount
  BY <1>3 DEF Exact, Directions, Magnitude
<1>8. v + signed \in Int
  BY <1>7 DEF Amounts
<1>9. CASE rest.left > 0
  <2>1. rest.stack = <<>> /\ sum = 0
    BY <1>4, <1>5, <1>9, SumOfEmpty
  <2>2. PICK stack : stack = Append(rest.stack, rest.left)
    OBVIOUS
  <2>3. PICK r : r = [direction |-> flow.direction, unmatched |-> stack]
    OBVIOUS
  <2>4. AddCashflow(net, flow) = r
    BY <1>1, <1>9, <2>2, <2>3 DEF AddCashflow
  <2>5. rest.left \in Amounts
    BY <1>4, <1>9 DEF Amounts
  <2>6. stack \in Seq(Amounts) /\ stack # <<>>
    BY <1>4, <2>2, <2>5
  <2>7. SumFunction(stack) = sum + rest.left
    <3>1. rest.stack \in Seq(Int) /\ rest.left \in Int
      BY <1>4 DEF Amounts
    <3> QED BY <1>5, <2>2, <3>1, SumOfAppended
  <2>8. SumFunction(stack) = rest.left
    BY <1>4, <2>1, <2>7
  <2>9. /\ flow.direction = "Incoming" => v + signed = rest.left
        /\ flow.direction = "Outgoing" => v + signed = -rest.left
    BY <1>4, <1>6, <1>7, <2>1 DEF Amounts
  <2>10. flow.direction \in {"Incoming", "Outgoing"}
    BY DEF Directions
  <2> QED BY <1>8, <2>3, <2>4, <2>6, <2>8, <2>9, <2>10 DEF Exact, Magnitude
<1>10. CASE rest.left = 0
  <2>1. PICK d : d = IF rest.stack = <<>> THEN "None" ELSE net.direction
    OBVIOUS
  <2>2. PICK r : r = [direction |-> d, unmatched |-> rest.stack]
    OBVIOUS
  <2>3. AddCashflow(net, flow) = r
    <3>1. ~(rest.left > 0)
      BY <1>10
    <3> QED BY <1>1, <2>1, <2>2, <3>1 DEF AddCashflow
  <2>4. /\ net.direction = "Incoming" => v + signed = sum
        /\ net.direction = "Outgoing" => v + signed = -sum
        /\ sum = 0 => v + signed = 0
    BY <1>6, <1>7, <1>10 DEF Amounts
  <2>5. rest.stack = <<>> => sum = 0
    BY <1>5, SumOfEmpty
  <2>6. /\ d \in {"None", "Incoming", "Outgoing"}
        /\ d = "None" <=> rest.stack = <<>>
        /\ d # "None" => d = net.direction
    BY <1>7, <2>1
  <2> QED BY <1>4, <1>5, <1>8, <2>2, <2>3, <2>4, <2>5, <2>6 DEF Exact, Magnitude
<1> QED BY <1>4, <1>9, <1>10

(* A trade of which both legs are known.                                   *)
LEMMA TradeIsExact ==
  ASSUME NEW net, NEW v, Exact(net, v), NEW trade \in Trades, NEW key
  PROVE  /\ Moves(key, trade) \in Int
         /\ Exact(AddTrade(key, net, trade), v + Moves(key, trade))
<1>1. \A flow : flow.amount \in Amounts /\ flow.direction \in Directions =>
        /\ FlowTo(key, flow) \in Int
        /\ \A n, u : Exact(n, u) => Exact(AddTo(key, n, flow), u + FlowTo(key, flow))
  <2> SUFFICES ASSUME NEW flow, flow.amount \in Amounts,
                      flow.direction \in Directions
               PROVE  /\ FlowTo(key, flow) \in Int
                      /\ \A n, u : Exact(n, u) =>
                           Exact(AddTo(key, n, flow), u + FlowTo(key, flow))
    OBVIOUS
  <2>1. PICK signed : signed = IF flow.direction = "Incoming" THEN flow.amount
                               ELSE -flow.amount
    OBVIOUS
  <2>2. signed \in Int
    BY <2>1 DEF Amounts
  <2>3. FlowTo(key, flow) \in Int
    BY <2>1, <2>2 DEF FlowTo
  <2>4. ASSUME NEW n, NEW u, Exact(n, u)
        PROVE  Exact(AddTo(key, n, flow), u + FlowTo(key, flow))
    <3>1. CASE flow.key # key
      <4>1. AddTo(key, n, flow) = n /\ u + FlowTo(key, flow) = u
        BY <2>4, <3>1 DEF AddTo, FlowTo, Exact
      <4> QED BY <2>4, <4>1
    <3>2. CASE flow.key = key
      <4>1. AddTo(key, n, flow) = AddCashflow(n, flow) /\ FlowTo(key, flow) = signed
        BY <2>1, <3>2 DEF AddTo, FlowTo
      <4>2. Exact(AddCashflow(n, flow), u + signed)
        <5>1. CASE n.direction \in {"None", flow.direction}
          BY <2>1, <2>4, <5>1, SameDirectionIsExact
        <5>2. CASE n.direction \notin {"None", flow.direction}
          BY <2>1, <2>4, <5>2, OtherDirectionIsExact
        <5> QED BY <5>1, <5>2
      <4> QED BY <4>1, <4>2
    <3> QED BY <3>1, <3>2
  <2> QED BY <2>3, <2>4
<1>2. PICK pay : pay = Cashflows(trade)[1]
  OBVIOUS
<1>3. PICK receive : receive = Cashflows(trade)[2]
  OBVIOUS
<1>4. /\ pay.amount \in Amounts /\ pay.direction \in Directions
      /\ receive.amount \in Amounts /\ receive.direction \in Directions
  <2>1. trade.terms.pay.amount \in 1..MaxMinor /\ trade.terms.receive.amount \in 1..MaxMinor
    BY DEF Trades, FxTerms, Money
  <2>2. /\ pay = Cashflow(trade, trade.terms.pay, "Outgoing")
        /\ receive = Cashflow(trade, trade.terms.receive, "Incoming")
    BY <1>2, <1>3 DEF Cashflows
  <2> QED BY <2>1, <2>2, WidthsArePositive DEF Cashflow, Directions, Amounts
<1>5. FlowTo(key, pay) \in Int /\ FlowTo(key, receive) \in Int
  BY <1>1, <1>4
<1>6. Moves(key, trade) = FlowTo(key, pay) + FlowTo(key, receive)
  BY <1>2, <1>3 DEF Moves
<1>7. Exact(AddTo(key, net, pay), v + FlowTo(key, pay))
  BY <1>1, <1>4
<1>8. Exact(AddTo(key, AddTo(key, net, pay), receive),
            v + FlowTo(key, pay) + FlowTo(key, receive))
  BY <1>1, <1>4, <1>7
<1>9. v + FlowTo(key, pay) + FlowTo(key, receive) = v + Moves(key, trade)
  BY <1>5, <1>6 DEF Exact
<1>10. AddTrade(key, net, trade) = AddTo(key, AddTo(key, net, pay), receive)
  BY <1>2, <1>3 DEF AddTrade
<1> QED BY <1>5, <1>6, <1>8, <1>9, <1>10

(* The loop over the trades.                                               *)
LEMMA NettingRuns ==
  ASSUME NEW trades, NEW key, NEW N \in Nat, N = Len(trades)
  PROVE  \E g : /\ NetOf(trades, key) = g[N]
                /\ g[0] = NoCashflow
                /\ \A n \in 1..N : g[n] = AddTrade(key, g[n - 1], trades[n])
<1> DEFINE Runs(m, g) ==
      g = [n \in 0..m |-> IF n = 0 THEN NoCashflow
                          ELSE AddTrade(key, g[n - 1], trades[n])]
           T == {m \in 0..N : \E g : Runs(m, g)}
<1>1. 0 \in T
  <2>1. PICK g : g = [n \in 0..0 |-> NoCashflow]
    OBVIOUS
  <2>2. \A n \in 0..0 : NoCashflow = IF n = 0 THEN NoCashflow
                                     ELSE AddTrade(key, g[n - 1], trades[n])
    OBVIOUS
  <2>3. Runs(0, g)
    BY <2>1, <2>2
  <2> QED BY <2>3
<1>2. ASSUME NEW m \in 1..N, m - 1 \in T PROVE m \in T
  <2>1. PICK g : Runs(m - 1, g)
    BY <1>2
  <2>2. PICK h : h = [n \in 0..m |-> IF n = m THEN AddTrade(key, g[m - 1], trades[m])
                                     ELSE g[n]]
    OBVIOUS
  <2>3. /\ \A n \in 0..(m - 1) : h[n] = g[n]
        /\ h[m] = AddTrade(key, g[m - 1], trades[m])
        /\ DOMAIN h = 0..m /\ h = [n \in 0..m |-> h[n]]
    BY <2>2
  <2>4. \A n \in 0..(m - 1) : g[n] = IF n = 0 THEN NoCashflow
                                     ELSE AddTrade(key, g[n - 1], trades[n])
    BY <2>1
  <2>5. \A n \in 0..m : h[n] = IF n = 0 THEN NoCashflow
                               ELSE AddTrade(key, h[n - 1], trades[n])
    <3> TAKE n \in 0..m
    <3>1. CASE n = m
      <4>1. m - 1 \in 0..(m - 1) /\ m # 0
        OBVIOUS
      <4> QED BY <2>3, <3>1, <4>1
    <3>2. CASE n # m /\ n # 0
      <4>1. n \in 0..(m - 1) /\ n - 1 \in 0..(m - 1)
        BY <3>2
      <4> QED BY <2>3, <2>4, <3>2, <4>1
    <3>3. CASE n = 0
      <4>1. 0 \in 0..(m - 1)
        OBVIOUS
      <4> QED BY <2>3, <2>4, <3>3, <4>1
    <3> QED BY <3>1, <3>2, <3>3
  <2>6. Runs(m, h)
    BY <2>3, <2>5
  <2> QED BY <2>6
<1>3. N \in T
  <2> HIDE DEF T
  <2>1. \A n \in 1..N : n - 1 \in T => n \in T
    BY <1>2
  <2>2. \A n \in 0..N : n \in T
    BY <1>1, <2>1, NumberInduction
  <2> QED BY <2>2
<1>4. PICK g : g = CHOOSE f : Runs(N, f)
  OBVIOUS
<1>5. Runs(N, g)
  BY <1>3, <1>4
<1>6. NetOf(trades, key) = g[N]
  BY <1>4 DEF NetOf
<1> QED BY <1>5, <1>6

(* The signed net of a bucket over a sequence of trades.                   *)
NetMoves(trades, key) ==
  SumFunction([i \in DOMAIN trades |-> Moves(key, trades[i])])

(* The code computes it, in any order of arrival.                          *)
LEMMA NetOfIsExact ==
  ASSUME NEW trades \in Seq(Trades), NEW key
  PROVE  /\ NetMoves(trades, key) \in Int
         /\ Exact(NetOf(trades, key), NetMoves(trades, key))
<1>1. PICK N \in Nat : N = Len(trades) /\ DOMAIN trades = 1..N
  OBVIOUS
<1>2. \A n \in 1..N : trades[n] \in Trades
  BY <1>1
<1>3. PICK g : /\ NetOf(trades, key) = g[N]
               /\ g[0] = NoCashflow
               /\ \A n \in 1..N : g[n] = AddTrade(key, g[n - 1], trades[n])
  BY <1>1, NettingRuns
<1>4. PICK f : f = [i \in 1..N |-> Moves(key, trades[i])]
  OBVIOUS
<1>5. NetMoves(trades, key) = SumFunctionOnSet(f, 1..N)
  <2>1. NetMoves(trades, key) = SumFunction(f)
    BY <1>1, <1>4 DEF NetMoves
  <2>2. DOMAIN f = 1..N
    BY <1>4
  <2> QED BY <2>1, <2>2, Zenon DEF SumFunction
<1>6. \A n \in 1..N : f[n] \in Int /\ f[n] = Moves(key, trades[n])
  BY <1>2, <1>4, TradeIsExact, NothingIsExact
<1>7. PICK T : T = {n \in 0..N : Exact(g[n], SumFunctionOnSet(f, 1..n))}
  OBVIOUS
<1>8. 0 \in T
  <2>1. 1..0 = {}
    OBVIOUS
  <2>2. SumFunctionOnSet(f, 1..0) = 0
    BY <2>1, SumEmpty, Zenon
  <2> QED BY <1>3, <1>7, <2>2, NothingIsExact
<1>9. \A n \in 1..N : n - 1 \in T => n \in T
  <2> SUFFICES ASSUME NEW n \in 1..N, n - 1 \in T PROVE n \in T
    OBVIOUS
  <2>1. PICK k \in Nat : k = n - 1
    OBVIOUS
  <2>2. Exact(g[k], SumFunctionOnSet(f, 1..k))
    BY <1>7, <2>1
  <2>3. Exact(g[n], SumFunctionOnSet(f, 1..k) + f[n])
    <3>1. g[n] = AddTrade(key, g[k], trades[n])
      BY <1>3, <2>1
    <3> QED BY <1>2, <1>6, <2>2, <3>1, TradeIsExact
  <2>4. SumFunctionOnSet(f, (1..k) \cup {n}) = SumFunctionOnSet(f, 1..k) + f[n]
    <3>1. IsFiniteSet(1..k)
      BY FS_Interval
    <3>2. n \notin 1..k /\ \A y \in (1..k) \cup {n} : f[y] \in Int
      BY <1>6, <2>1
    <3> QED BY <3>1, <3>2, SumAdds
  <2>5. (1..k) \cup {n} = 1..n /\ n \in 0..N
    BY <2>1
  <2>6. SumFunctionOnSet(f, 1..n) = SumFunctionOnSet(f, 1..k) + f[n]
    BY <2>4, <2>5, Zenon
  <2> QED BY <1>7, <2>3, <2>5, <2>6
<1>10. N \in T
  <2>1. \A n \in 0..N : n \in T
    BY <1>8, <1>9, NumberInduction
  <2> QED BY <2>1
<1>11. Exact(NetOf(trades, key), NetMoves(trades, key))
  BY <1>3, <1>5, <1>7, <1>10
<1> QED BY <1>11 DEF Exact

(* A bucket that no trade names has no net, and the buckets are finitely   *)
(* many.                                                                   *)
LEMMA OtherBucketsAreEmpty ==
  ASSUME NEW trades \in Seq(Trades), NEW key, key \notin KeysOf(trades)
  PROVE  NetMoves(trades, key) = 0
<1>1. PICK N \in Nat : N = Len(trades) /\ DOMAIN trades = 1..N
  OBVIOUS
<1>2. PICK f : f = [i \in 1..N |-> Moves(key, trades[i])]
  OBVIOUS
<1>3. \A i \in 1..N : f[i] = 0
  <2> TAKE i \in 1..N
  <2>1. \A leg \in 1..2 : Cashflows(trades[i])[leg].key # key
    BY <1>1 DEF KeysOf
  <2>2. Moves(key, trades[i]) = 0
    BY <2>1 DEF Moves, FlowTo
  <2> QED BY <1>2, <2>2
<1>4. SumFunctionOnSet(f, 1..N) = 0
  <2>1. IsFiniteSet(1..N)
    BY FS_Interval
  <2> QED BY <1>3, <2>1, SumZero
<1>5. NetMoves(trades, key) = SumFunction(f) /\ DOMAIN f = 1..N
  BY <1>1, <1>2 DEF NetMoves
<1> QED BY <1>4, <1>5, Zenon DEF SumFunction

LEMMA BucketsAreFinite ==
  ASSUME NEW trades \in Seq(Trades)
  PROVE  KeysOf(trades) \subseteq SettlementKeys /\ IsFiniteSet(KeysOf(trades))
<1>1. PICK N \in Nat : N = Len(trades) /\ DOMAIN trades = 1..N
  OBVIOUS
<1>2. \A t \in Trades : \A leg \in 1..2 : Cashflows(t)[leg].key \in SettlementKeys
  <2> TAKE t \in Trades
  <2>1. /\ t.path \in LimitPath /\ t.terms.valueDate \in Dates
        /\ t.terms.pay.currency \in Currencies /\ t.terms.receive.currency \in Currencies
    BY DEF Trades, FxTerms, Money
  <2>2. /\ Cashflow(t, t.terms.pay, "Outgoing").key \in SettlementKeys
        /\ Cashflow(t, t.terms.receive, "Incoming").key \in SettlementKeys
    BY <2>1 DEF Cashflow, SettlementKeys, LimitPath
  <2> QED BY <2>2 DEF Cashflows
<1>3. KeysOf(trades) \subseteq SettlementKeys
  BY <1>1, <1>2 DEF KeysOf
<1>4. PICK P : P = (1..N) \X (1..2)
  OBVIOUS
<1>5. IsFiniteSet(P)
  <2>1. IsFiniteSet(1..N)
    BY FS_Interval
  <2>2. IsFiniteSet(1..2)
    <3>1. 1 \in Int /\ 2 \in Int
      OBVIOUS
    <3> QED BY <3>1, FS_Interval
  <2> QED BY <1>4, <2>1, <2>2, FS_Product
<1>6. PICK f : f = [p \in P |-> Cashflows(trades[p[1]])[p[2]].key]
  OBVIOUS
<1>7. f \in Surjection(P, KeysOf(trades))
  <2>1. \A p \in P : f[p] \in KeysOf(trades)
    BY <1>1, <1>4, <1>6 DEF KeysOf
  <2>2. \A k \in KeysOf(trades) : \E p \in P : f[p] = k
    <3> TAKE k \in KeysOf(trades)
    <3>1. PICK i \in 1..N, leg \in 1..2 : k = Cashflows(trades[i])[leg].key
      BY <1>1 DEF KeysOf
    <3>2. <<i, leg>> \in P /\ f[<<i, leg>>] = k
      BY <1>4, <1>6, <3>1
    <3> QED BY <3>2
  <2>3. f \in [P -> KeysOf(trades)]
    BY <1>6, <2>1
  <2> QED BY <2>2, <2>3 DEF Surjection
<1>8. IsFiniteSet(KeysOf(trades))
  BY <1>5, <1>7, FS_Surjection
<1> QED BY <1>3, <1>8

(* The obligation that a signed net of a bucket makes.                     *)
ObligationOf(bucket, net) ==
  [key |-> bucket,
   direction |-> IF net > 0 THEN "Incoming" ELSE "Outgoing",
   amount |-> IF net > 0 THEN net ELSE -net]

OpenBuckets(trades) == {key \in SettlementKeys : NetMoves(trades, key) # 0}

LEMMA NonZeroKeysAreOpen ==
  ASSUME NEW trades \in Seq(Trades)
  PROVE  /\ NonZeroKeys(trades) = OpenBuckets(trades)
         /\ IsFiniteSet(OpenBuckets(trades))
<1>1. ASSUME NEW key \in NonZeroKeys(trades) PROVE key \in OpenBuckets(trades)
  <2>1. key \in SettlementKeys /\ NetOf(trades, key).direction \in Directions
    BY <1>1, BucketsAreFinite DEF NonZeroKeys
  <2>2. PICK net : net = NetOf(trades, key)
    OBVIOUS
  <2>3. PICK v \in Int : v = NetMoves(trades, key)
    BY NetOfIsExact
  <2>4. Exact(net, v)
    BY <2>2, <2>3, NetOfIsExact
  <2>5. net.unmatched \in Seq(Amounts) /\ net.unmatched # <<>>
    BY <2>1, <2>2, <2>4 DEF Exact, Directions
  <2>6. Magnitude(net) \in Nat /\ Magnitude(net) # 0
    BY <2>5, MagnitudeIs
  <2>7. v # 0
    BY <2>1, <2>2, <2>4, <2>6 DEF Exact, Directions
  <2> QED BY <2>1, <2>3, <2>7 DEF OpenBuckets
<1>2. ASSUME NEW key \in OpenBuckets(trades) PROVE key \in NonZeroKeys(trades)
  <2>1. key \in SettlementKeys /\ NetMoves(trades, key) # 0
    BY <1>2 DEF OpenBuckets
  <2>2. key \in KeysOf(trades)
    BY <2>1, OtherBucketsAreEmpty
  <2>3. NetOf(trades, key).direction \in Directions
    BY <2>1, NetOfIsExact DEF Exact, Directions
  <2> QED BY <2>2, <2>3 DEF NonZeroKeys
<1>3. NonZeroKeys(trades) \subseteq KeysOf(trades)
  BY DEF NonZeroKeys
<1>4. NonZeroKeys(trades) = OpenBuckets(trades)
  BY <1>1, <1>2
<1>5. IsFiniteSet(OpenBuckets(trades))
  BY <1>3, <1>4, BucketsAreFinite, FS_Subset
<1> QED BY <1>4, <1>5

(* Direction and amount of what is derived for an open bucket.             *)
LEMMA OpenBucketIsExact ==
  ASSUME NEW trades \in Seq(Trades), NEW key \in OpenBuckets(trades)
  PROVE  /\ NetMoves(trades, key) \in Int
         /\ [key |-> key, direction |-> NetOf(trades, key).direction,
             amount |-> Magnitude(NetOf(trades, key))]
              = ObligationOf(key, NetMoves(trades, key))
         /\ Magnitude(NetOf(trades, key)) \in 0..MaxMinor
              <=> NetMoves(trades, key) \in (-MaxMinor)..MaxMinor
<1>1. PICK net : net = NetOf(trades, key)
  OBVIOUS
<1>2. PICK v \in Int : v = NetMoves(trades, key)
  BY NetOfIsExact
<1>3. Exact(net, v) /\ v # 0
  BY <1>1, <1>2, NetOfIsExact DEF OpenBuckets
<1>4. PICK m \in Nat : m = Magnitude(net)
  BY <1>3, MagnitudeIs DEF Exact
<1>5. \/ net.direction = "Incoming" /\ v = m
      \/ net.direction = "Outgoing" /\ v = -m
  BY <1>3, <1>4 DEF Exact
<1>6. /\ m = IF v > 0 THEN v ELSE -v
      /\ net.direction = IF v > 0 THEN "Incoming" ELSE "Outgoing"
  BY <1>3, <1>5
<1>7. MaxMinor \in Nat
  BY WidthsArePositive
<1>8. m \in 0..MaxMinor <=> v \in (-MaxMinor)..MaxMinor
  BY <1>6, <1>7
<1> QED BY <1>1, <1>2, <1>4, <1>6, <1>8 DEF ObligationOf

(* What an end of day derives is exact, and it fails only when a net is    *)
(* too wide.                                                               *)
LEMMA DerivationIsExact ==
  ASSUME NEW trades \in Seq(Trades)
  PROVE  /\ DeriveSettlements(trades)
              = {ObligationOf(key, NetMoves(trades, key)) : key \in OpenBuckets(trades)}
         /\ SettlementError(trades) = Ok <=>
              \A key \in SettlementKeys :
                NetMoves(trades, key) \in (-MaxMinor)..MaxMinor
<1>1. NonZeroKeys(trades) = OpenBuckets(trades)
  BY NonZeroKeysAreOpen
<1>2. DeriveSettlements(trades)
        = {[key |-> key, direction |-> NetOf(trades, key).direction,
            amount |-> Magnitude(NetOf(trades, key))] : key \in OpenBuckets(trades)}
  BY <1>1 DEF DeriveSettlements
<1>3. DeriveSettlements(trades)
        = {ObligationOf(key, NetMoves(trades, key)) : key \in OpenBuckets(trades)}
  BY <1>2, OpenBucketIsExact
<1>4. SettlementError(trades) = Ok <=>
        \A key \in OpenBuckets(trades) :
          Magnitude(NetOf(trades, key)) \in 0..MaxMinor
  BY <1>1 DEF SettlementError, Fail, Ok
<1>5. SettlementError(trades) = Ok <=>
        \A key \in OpenBuckets(trades) :
          NetMoves(trades, key) \in (-MaxMinor)..MaxMinor
  BY <1>4, OpenBucketIsExact
<1>6. \A key \in SettlementKeys : key \notin OpenBuckets(trades) =>
        NetMoves(trades, key) \in (-MaxMinor)..MaxMinor
  BY WidthsArePositive DEF OpenBuckets
<1>7. OpenBuckets(trades) \subseteq SettlementKeys
  BY DEF OpenBuckets
<1> QED BY <1>3, <1>5, <1>6, <1>7

(* One obligation per open bucket.                                         *)
LEMMA ObligationsAreCounted ==
  ASSUME NEW trades \in Seq(Trades)
  PROVE  /\ {o.key : o \in DeriveSettlements(trades)} = OpenBuckets(trades)
         /\ Cardinality(DeriveSettlements(trades)) = Cardinality(OpenBuckets(trades))
<1>1. PICK S : S = OpenBuckets(trades)
  OBVIOUS
<1>2. PICK T : T = DeriveSettlements(trades)
  OBVIOUS
<1>3. T = {ObligationOf(key, NetMoves(trades, key)) : key \in S}
  BY <1>1, <1>2, DerivationIsExact
<1>4. PICK f : f = [key \in S |-> ObligationOf(key, NetMoves(trades, key))]
  OBVIOUS
<1>5. f \in [S -> T] /\ \A key \in S : f[key].key = key
  BY <1>3, <1>4 DEF ObligationOf
<1>6. \A o \in T : \E key \in S : f[key] = o
  BY <1>3, <1>4
<1>7. f \in Bijection(S, T)
  <2>1. f \in Injection(S, T)
    BY <1>5 DEF Injection, IsInjective
  <2>2. f \in Surjection(S, T)
    BY <1>5, <1>6 DEF Surjection
  <2> QED BY <2>1, <2>2 DEF Bijection
<1>8. IsFiniteSet(S) /\ ExistsBijection(S, T)
  BY <1>1, <1>7, NonZeroKeysAreOpen DEF ExistsBijection
<1>9. Cardinality(T) = Cardinality(S)
  BY <1>8, FS_Bijection
<1>10. {o.key : o \in T} = S
  BY <1>5, <1>6
<1> QED BY <1>1, <1>2, <1>9, <1>10

=============================================================================
