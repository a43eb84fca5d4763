--------------------------- MODULE BackbookProofs ---------------------------
(***************************************************************************)
(* Theorems about Backbook, for every value of its constants.  The work is *)
(* done in the lemmas about the operations; these assemble them, action by *)
(* action.                                                                 *)
(***************************************************************************)
EXTENDS Backbook, DomainProofs

-----------------------------------------------------------------------------
(* The settlements of a state are the nets of its settled versions.        *)

SettledKeys(trades) == {k \in DOMAIN trades : trades[k].state = "Settled"}

(* The signed net of a bucket over the settled versions of a map.          *)
BucketNet(trades, bucket) ==
  SumFunction([k \in SettledKeys(trades) |-> Moves(bucket, trades[k])])

Netted(trades, settlements) ==
  settlements = {ObligationOf(b, BucketNet(trades, b)) :
                   b \in {k \in SettlementKeys : BucketNet(trades, k) # 0}}

(* new and old have the same settled versions.                             *)
SameSettled(new, old) ==
  /\ SettledKeys(new) = SettledKeys(old)
  /\ \A k \in SettledKeys(old) : new[k] = old[k]

LEMMA NettedStays ==
  ASSUME NEW new, NEW old, SameSettled(new, old),
         NEW settlements, Netted(old, settlements)
  PROVE  Netted(new, settlements)
<1>1. PICK keys : keys = SettledKeys(old)
  OBVIOUS
<1>2. keys = SettledKeys(new) /\ \A k \in keys : new[k] = old[k]
  BY <1>1 DEF SameSettled
<1>3. ASSUME NEW b PROVE BucketNet(new, b) = BucketNet(old, b)
  <2>1. [k \in keys |-> Moves(b, new[k])] = [k \in keys |-> Moves(b, old[k])]
    BY <1>2
  <2> QED BY <1>1, <1>2, <2>1 DEF BucketNet
<1> QED BY <1>3 DEF Netted

(* A change of one version from and to other states than Settled.          *)
LEMMA SettledUntouched ==
  ASSUME NEW new, NEW old, NEW key, NEW trade, Sets(new, old, key, trade),
         trade.state # "Settled",
         key \in DOMAIN old => old[key].state # "Settled"
  PROVE  SameSettled(new, old)
BY DEF Sets, SameSettled, SettledKeys

LEMMA BookNets ==
  ASSUME NEW s, DomainInv(s), Netted(s.trades, s.settlements),
         NEW c, BookTradeError(s, c) = Ok,
         c.tradeId \in TradeIds, c.path \in LimitPath, c.terms \in FxTerms,
         NEW r, r = BookTradeResult(s, c)
  PROVE  Netted(r.trades, r.settlements)
<1>1. PICK key : key = <<c.tradeId, 1>>
  OBVIOUS
<1>2. PICK trade : trade = Capture(c.tradeId, c.path, c.terms)
  OBVIOUS
<1>3. PICK trades : trades = Emplace(s.trades, key, trade)
  OBVIOUS
<1>4. PICK current : current = Emplace(s.currentVersions, c.tradeId, 1)
  OBVIOUS
<1>5. Is(r, s.version + 1, trades, current, s.ledgerEntries,
         s.confirmationEntries, s.postingIds, s.ledgerTotals, s.limits,
         s.settlements)
  BY <1>1, <1>2, <1>3, <1>4, BookTradeFields DEF DomainInv
<1>6. key \notin DOMAIN s.trades
  BY <1>1, BookAccepted DEF DomainInv, Chained
<1>7. trade \in Trades /\ trade.state # "Settled"
  BY <1>2, CaptureType DEF Capture
<1>8. Sets(trades, s.trades, key, trade)
  <2>1. IsMap(s.trades, Trades)
    BY DEF DomainInv
  <2> QED BY <1>3, <1>6, <1>7, <2>1, EmplaceMap
<1>9. SameSettled(trades, s.trades)
  BY <1>6, <1>7, <1>8, SettledUntouched
<1> QED BY <1>5, <1>9, NettedStays DEF Is

LEMMA ConfirmNets ==
  ASSUME NEW s, DomainInv(s), Netted(s.trades, s.settlements),
         NEW c, ConfirmTradeError(s, c) = Ok,
         NEW r, r = ConfirmTradeResult(s, c)
  PROVE  Netted(r.trades, r.settlements)
<1>1. PICK key : key = <<c.tradeId, c.expectedVersion>>
  OBVIOUS
<1>2. PICK current : current = s.trades[key]
  OBVIOUS
<1>3. PICK confirmed : confirmed = Apply(current, "ConfirmTrade")
  OBVIOUS
<1>4. PICK entry : entry = ConfirmationEntry(confirmed, c.postingIds)
  OBVIOUS
<1>5. /\ c.tradeId \in DOMAIN s.currentVersions
      /\ s.currentVersions[c.tradeId] = c.expectedVersion
      /\ current.state = "Captured"
  BY <1>1, <1>2, <1>3, <1>4, CurrentKnown, ConfirmAccepted
<1>6. key \in DOMAIN s.trades /\ current \in Trades
  BY <1>1, <1>2, <1>5, CommandKey
<1>7. confirmed \in Trades /\ confirmed.state = "Confirmed"
  <2>1. Transition(current.state, "ConfirmTrade") = "Confirmed"
    BY <1>5 DEF Transition
  <2>2. "Confirmed" \in TradeStates
    BY DEF TradeStates
  <2> QED BY <1>3, <1>6, <2>1, <2>2, ApplyKeeps
<1>8. PICK trades : trades = Put(s.trades, key, confirmed)
  OBVIOUS
<1>9. Sets(trades, s.trades, key, confirmed)
  BY <1>7, <1>8, PutMap DEF DomainInv
<1>10. SameSettled(trades, s.trades)
  BY <1>2, <1>5, <1>7, <1>9, SettledUntouched
<1>11. PICK n : n = Len(s.ledgerEntries) + 1
  OBVIOUS
<1>12. PICK confirming : confirming = Emplace(s.confirmationEntries, key, n)
  OBVIOUS
<1>13. Is(r, s.version + 1, trades, s.currentVersions,
          Append(s.ledgerEntries, entry), confirming,
          s.postingIds \cup EntryIds(entry), TotalsWith(s.ledgerTotals, entry),
          Reserve(s.limits, current.path, current.terms.pay), s.settlements)
  BY <1>1, <1>2, <1>3, <1>4, <1>8, <1>11, <1>12, ConfirmTradeFields DEF DomainInv
<1> QED BY <1>10, <1>13, NettedStays DEF Is

LEMMA CancelNets ==
  ASSUME NEW s, DomainInv(s), Netted(s.trades, s.settlements),
         NEW c, CancelTradeError(s, c) = Ok,
         NEW r, r = CancelTradeResult(s, c)
  PROVE  Netted(r.trades, r.settlements)
<1>1. PICK key : key = <<c.tradeId, c.expectedVersion>>
  OBVIOUS
<1>2. PICK current : current = s.trades[key]
  OBVIOUS
<1>3. PICK cancelled : cancelled = Apply(current, "CancelTrade")
  OBVIOUS
<1>4. PICK reversal :
        reversal = ReversalEntry(s.ledgerEntries[s.confirmationEntries[key]],
                                 c.reversalIds)
  OBVIOUS
<1>5. /\ c.tradeId \in DOMAIN s.currentVersions
      /\ s.currentVersions[c.tradeId] = c.expectedVersion
      /\ current.state \in {"Captured", "Confirmed"}
  BY <1>1, <1>2, <1>4, CurrentKnown, CancelAccepted
<1>6. key \in DOMAIN s.trades /\ current \in Trades
  BY <1>1, <1>2, <1>5, CommandKey
<1>7. cancelled \in Trades /\ cancelled.state = "Cancelled"
  <2>1. Transition(current.state, "CancelTrade") = "Cancelled"
    BY <1>5 DEF Transition
  <2>2. "Cancelled" \in TradeStates
    BY DEF TradeStates
  <2> QED BY <1>3, <1>6, <2>1, <2>2, ApplyKeeps
<1>8. PICK trades : trades = Put(s.trades, key, cancelled)
  OBVIOUS
<1>9. Sets(trades, s.trades, key, cancelled)
  BY <1>7, <1>8, PutMap DEF DomainInv
<1>10. SameSettled(trades, s.trades)
  BY <1>2, <1>5, <1>7, <1>9, SettledUntouched
<1>11. r.trades = trades /\ r.settlements = s.settlements
  BY <1>1, <1>2, <1>3, <1>4, <1>8, CancelTradeFields DEF DomainInv, Is
<1> QED BY <1>10, <1>11, NettedStays

LEMMA AmendNets ==
  ASSUME NEW s, DomainInv(s), Netted(s.trades, s.settlements),
         NEW c, AmendTradeError(s, c) = Ok, c.terms \in FxTerms,
         NEW r, r = AmendTradeResult(s, c)
  PROVE  Netted(r.trades, r.settlements)
<1>1. PICK key : key = <<c.tradeId, c.expectedVersion>>
  OBVIOUS
<1>2. PICK current : current = s.trades[key]
  OBVIOUS
<1>3. PICK replacement : replacement = Replacement(current, c.terms)
  OBVIOUS
<1>4. PICK reversal :
        reversal = ReversalEntry(s.ledgerEntries[s.confirmationEntries[key]],
                                 c.reversalIds)
  OBVIOUS
<1>5. PICK entry : entry = ConfirmationEntry(replacement, c.postingIds)
  OBVIOUS
<1>6. PICK appended : appended = AppendEntry(s, reversal)
  OBVIOUS
<1>7. /\ c.tradeId \in DOMAIN s.currentVersions
      /\ s.currentVersions[c.tradeId] = c.expectedVersion
      /\ current.state = "Confirmed"
      /\ current.version # MaxTradeVersion
  BY <1>1, <1>2, <1>3, <1>4, <1>5, <1>6, CurrentKnown, AmendAccepted
<1>8. /\ key \in DOMAIN s.trades /\ current \in Trades
      /\ current.version = c.expectedVersion
      /\ <<c.tradeId, c.expectedVersion + 1>> \notin DOMAIN s.trades
  BY <1>1, <1>2, <1>7, CommandKey
<1>9. /\ replacement \in Trades /\ replacement.state = "Confirmed"
      /\ replacement.version = c.expectedVersion + 1
  BY <1>3, <1>7, <1>8, ReplacementType
<1>10. PICK old : old = Superseded(current)
  OBVIOUS
<1>11. old \in Trades /\ old.state = "Superseded"
  BY <1>7, <1>8, <1>10, SupersededType
<1>12. PICK newKey : newKey = <<c.tradeId, replacement.version>>
  OBVIOUS
<1>13. PICK replaced : replaced = Put(s.trades, key, old)
  OBVIOUS
<1>14. Sets(replaced, s.trades, key, old) /\ IsMap(replaced, Trades)
  BY <1>11, <1>13, PutMap DEF DomainInv
<1>15. newKey \notin DOMAIN replaced
  BY <1>8, <1>9, <1>12, <1>14 DEF Sets
<1>16. PICK trades : trades = Emplace(replaced, newKey, replacement)
  OBVIOUS
<1>17. Sets(trades, replaced, newKey, replacement)
  BY <1>9, <1>14, <1>15, <1>16, EmplaceMap
<1>18. SameSettled(trades, s.trades)
  <2>1. SameSettled(replaced, s.trades)
    BY <1>2, <1>7, <1>11, <1>14, SettledUntouched
  <2>2. SameSettled(trades, replaced)
    BY <1>9, <1>15, <1>17, SettledUntouched
  <2> QED BY <2>1, <2>2 DEF SameSettled
<1>19. r.trades = trades /\ r.settlements = s.settlements
  BY <1>1, <1>2, <1>3, <1>4, <1>5, <1>10, <1>12, <1>13, <1>16, AmendTradeFields
     DEF DomainInv, Is
<1> QED BY <1>18, <1>19, NettedStays

(* Every element of S is one of the first n elements of q.                 *)
Covers(q, n, S) == \A x \in S : \E i \in 1..n : q[i] = x

(* A sum does not depend on the order of its summands.                     *)
LEMMA SumReorders ==
  ASSUME NEW N \in Nat, NEW S, NEW q \in [1..N -> S], IsInjective(q),
         Covers(q, N, S),
         NEW f, \A x \in S : f[x] \in Int,
         NEW g, \A i \in 1..N : g[i] = f[q[i]]
  PROVE  SumFunctionOnSet(g, 1..N) = SumFunctionOnSet(f, S)
<1>1. PICK U : U = [n \in 0..N |-> {q[i] : i \in 1..n}]
  OBVIOUS
<1>2. PICK T : T = {n \in 0..N : /\ IsFiniteSet(U[n])
                                 /\ SumFunctionOnSet(g, 1..n) = SumFunctionOnSet(f, U[n])}
  OBVIOUS
<1>3. 0 \in T
  <2>1. 1..0 = {} /\ U[0] = {}
    BY <1>1
  <2>2. /\ SumFunctionOnSet(g, 1..0) = 0 /\ SumFunctionOnSet(f, U[0]) = 0
    BY <2>1, SumEmpty, Zenon
  <2>3. IsFiniteSet(U[0])
    BY <2>1, FS_EmptySet
  <2> QED BY <1>2, <2>2, <2>3
<1>4. \A n \in 1..N : n - 1 \in T => n \in T
  <2> SUFFICES ASSUME NEW n \in 1..N, n - 1 \in T PROVE n \in T
    OBVIOUS
  <2>1. PICK k \in Nat : k = n - 1
    OBVIOUS
  <2>2. /\ IsFiniteSet(U[k])
        /\ SumFunctionOnSet(g, 1..k) = SumFunctionOnSet(f, U[k])
    BY <1>2, <2>1
  <2>3. (1..k) \cup {n} = 1..n /\ n \notin 1..k /\ k \in 0..N /\ n \in 0..N
    BY <2>1
  <2>4. \A m \in {k, n} : \A x : x \in U[m] <=> \E i \in 1..m : q[i] = x
    <3> SUFFICES ASSUME NEW m \in {k, n}, NEW x
                 PROVE  x \in U[m] <=> \E i \in 1..m : q[i] = x
      OBVIOUS
    <3>1. U[m] = {q[i] : i \in 1..m}
      BY <1>1, <2>3
    <3> QED BY <3>1
  <2>5. U[n] = U[k] \cup {q[n]}
    <3>1. \A i : i \in 1..n <=> i \in 1..k \/ i = n
      BY <2>3
    <3>2. ASSUME NEW x \in U[n] PROVE x \in U[k] \/ x = q[n]
      BY <2>4, <3>1
    <3>3. ASSUME NEW x \in U[k] PROVE x \in U[n]
      BY <2>4, <3>1
    <3>4. q[n] \in U[n]
      BY <2>4, <3>1
    <3> QED BY <3>2, <3>3, <3>4
  <2>6. q[n] \notin U[k] /\ U[k] \cup {q[n]} \subseteq S
    <3>1. \A i \in 1..k : i \in 1..N /\ i # n
      BY <2>1
    <3>2. \A i \in 1..k : q[i] # q[n]
      BY <3>1 DEF IsInjective
    <3>3. \A i \in 1..N : q[i] \in S
      OBVIOUS
    <3>4. ASSUME NEW x \in U[k] PROVE x \in S /\ x # q[n]
      <4>1. PICK i \in 1..k : q[i] = x
        BY <2>4
      <4> QED BY <3>1, <3>2, <3>3, <4>1
    <3>5. q[n] \in S
      OBVIOUS
    <3> QED BY <3>4, <3>5
  <2>7. IsFiniteSet(U[n])
    <3>1. PICK V : V = U[k]
      OBVIOUS
    <3>2. PICK y : y = q[n]
      OBVIOUS
    <3>3. IsFiniteSet(V \cup {y})
      BY <2>2, <3>1, FS_AddElement
    <3> QED BY <2>5, <3>1, <3>2, <3>3
  <2>8. SumFunctionOnSet(f, U[k] \cup {q[n]}) = SumFunctionOnSet(f, U[k]) + f[q[n]]
    <3>1. \A y \in U[k] \cup {q[n]} : f[y] \in Int
      BY <2>6
    <3> QED BY <2>2, <2>6, <3>1, SumAdds
  <2>9. SumFunctionOnSet(g, (1..k) \cup {n}) = SumFunctionOnSet(g, 1..k) + g[n]
    <3>1. IsFiniteSet(1..k)
      BY FS_Interval
    <3>2. \A y \in (1..k) \cup {n} : g[y] \in Int
      <4>1. \A y \in (1..k) \cup {n} : y \in 1..N
        BY <2>1
      <4>2. \A i \in 1..N : q[i] \in S
        OBVIOUS
      <4>3. \A i \in 1..N : g[i] \in Int
        BY <4>2
      <4> QED BY <4>1, <4>3
    <3> QED BY <2>3, <3>1, <3>2, SumAdds
  <2>10. SumFunctionOnSet(g, 1..n) = SumFunctionOnSet(g, 1..k) + g[n]
    BY <2>3, <2>9, Zenon
  <2>11. SumFunctionOnSet(f, U[n]) = SumFunctionOnSet(f, U[k]) + f[q[n]]
    BY <2>5, <2>8, Zenon
  <2> QED BY <1>2, <2>2, <2>3, <2>7, <2>10, <2>11
<1>5. N \in T
  <2>1. \A n \in 0..N : n \in T
    BY <1>3, <1>4, NumberInduction
  <2> QED BY <2>1
<1>6. U[N] = S
  <2>1. U[N] = {q[i] : i \in 1..N}
    BY <1>1
  <2> QED BY <2>1 DEF Covers
<1>7. SumFunctionOnSet(g, 1..N) = SumFunctionOnSet(f, U[N])
  BY <1>2, <1>5
<1> QED BY <1>6, <1>7, Zenon

(* The sequence of a finite set has every element once.                    *)
LEMMA SetToSeqIsOnto ==
  ASSUME NEW S, IsFiniteSet(S), NEW q, q = SetToSeq(S),
         NEW n, n = Cardinality(S)
  PROVE  /\ n \in Nat /\ q \in [1..n -> S] /\ IsInjective(q)
         /\ Covers(q, n, S)
<1>1. n \in Nat /\ ExistsBijection(1..n, S)
  BY FS_CardinalityType
<1>2. \E f \in [1..n -> S] : IsInjective(f)
  BY <1>1 DEF ExistsBijection, Bijection, Injection
<1>3. q \in [1..n -> S] /\ IsInjective(q)
  BY <1>2 DEF SetToSeq
<1>4. q \in Injection(1..n, S)
  BY <1>3 DEF Injection
<1>5. Cardinality(1..n) = n
  <2>1. 1 \in Int /\ n \in Int
    BY <1>1
  <2>2. Cardinality(1..n) = IF 1 > n THEN 0 ELSE n - 1 + 1
    BY <2>1, FS_Interval
  <2> QED BY <1>1, <2>2
<1>6. q \in Surjection(1..n, S)
  BY <1>4, <1>5, FS_Injection
<1> QED BY <1>1, <1>3, <1>6 DEF Surjection, Covers

(* What end of day nets is what is settled.                                *)
LEMMA NetMovesIsBucketNet ==
  ASSUME NEW trades, IsMap(trades, Trades), IsFiniteSet(DOMAIN trades),
         NEW settled, settled = SettledTrades(trades)
  PROVE  /\ settled \in Seq(Trades)
         /\ \A bucket : NetMoves(settled, bucket) = BucketNet(trades, bucket)
<1>1. PICK keys : keys = SettledKeys(trades)
  OBVIOUS
<1>2. keys \subseteq DOMAIN trades /\ IsFiniteSet(keys)
  BY <1>1, FS_Subset DEF SettledKeys
<1>3. PICK q : q = SetToSeq(keys)
  OBVIOUS
<1>4. PICK n \in Nat :
        /\ q \in [1..n -> keys] /\ IsInjective(q)
        /\ Covers(q, n, keys)
  <2>1. PICK m : m = Cardinality(keys)
    OBVIOUS
  <2>2. /\ m \in Nat /\ q \in [1..m -> keys] /\ IsInjective(q)
        /\ Covers(q, m, keys)
    BY <1>2, <1>3, <2>1, SetToSeqIsOnto
  <2> QED BY <2>2
<1>5. settled = [i \in 1..n |-> trades[q[i]]]
  <2>1. settled = [i \in DOMAIN q |-> trades[q[i]]]
    BY <1>1, <1>3 DEF SettledTrades, SettledKeys
  <2> QED BY <1>4, <2>1
<1>6. \A k \in keys : trades[k] \in Trades
  BY <1>2 DEF IsMap
<1>7. settled \in Seq(Trades)
  <2>1. settled \in [1..n -> Trades]
    BY <1>4, <1>5, <1>6
  <2> QED BY <2>1
<1>8. ASSUME NEW bucket
      PROVE  NetMoves(settled, bucket) = BucketNet(trades, bucket)
  <2>1. PICK f : f = [k \in keys |-> Moves(bucket, trades[k])]
    OBVIOUS
  <2>2. PICK g : g = [i \in 1..n |-> Moves(bucket, settled[i])]
    OBVIOUS
  <2>3. \A k \in keys : f[k] \in Int
    BY <1>6, <2>1, TradeIsExact, NothingIsExact
  <2>4. \A i \in 1..n : g[i] = f[q[i]]
    BY <1>4, <1>5, <2>1, <2>2
  <2>5. SumFunctionOnSet(g, 1..n) = SumFunctionOnSet(f, keys)
    BY <1>4, <2>3, <2>4, SumReorders
  <2>6. BucketNet(trades, bucket) = SumFunctionOnSet(f, keys)
    <3>1. BucketNet(trades, bucket) = SumFunction(f) /\ DOMAIN f = keys
      BY <1>1, <2>1 DEF BucketNet
    <3> QED BY <3>1, Zenon DEF SumFunction
  <2>7. NetMoves(settled, bucket) = SumFunctionOnSet(g, 1..n)
    <3>1. DOMAIN settled = 1..n
      BY <1>5
    <3>2. NetMoves(settled, bucket) = SumFunction(g) /\ DOMAIN g = 1..n
      BY <2>2, <3>1 DEF NetMoves
    <3> QED BY <3>2, Zenon DEF SumFunction
  <2> QED BY <2>5, <2>6, <2>7
<1> QED BY <1>7, <1>8

LEMMA EodNets ==
  ASSUME NEW s, DomainInv(s), Netted(s.trades, s.settlements),
         NEW c, RunEodError(s, c) = Ok,
         NEW r, r = RunEodResult(s, c)
  PROVE  Netted(r.trades, r.settlements)
<1>1. PICK keys : keys = Eligible(s, c.asOf)
  OBVIOUS
<1>2. CASE keys = {}
  BY <1>1, <1>2 DEF RunEodResult
<1>3. CASE keys # {}
  <2>1. PICK trades : trades = SettleAll(s, keys)
    OBVIOUS
  <2>2. PICK settled : settled = SettledTrades(trades)
    OBVIOUS
  <2>3. r.trades = trades /\ r.settlements = DeriveSettlements(settled)
    <3>1. PICK limits : limits = ReleaseAll(s, keys)
      OBVIOUS
    <3>2. PICK settlements : settlements = DeriveSettlements(settled)
      OBVIOUS
    <3>3. HasFields(s)
      BY DEF DomainInv
    <3>4. Is(r, s.version + 1, trades, s.currentVersions, s.ledgerEntries,
             s.confirmationEntries, s.postingIds, s.ledgerTotals, limits,
             settlements)
      BY <1>1, <1>3, <2>1, <2>2, <3>1, <3>2, <3>3, RunEodFields
    <3> QED BY <3>2, <3>4 DEF Is
  <2>4. IsMap(trades, Trades) /\ IsFiniteSet(DOMAIN trades)
    BY <1>1, <2>1, SettleAllType DEF DomainInv
  <2>5. /\ settled \in Seq(Trades)
        /\ \A bucket : NetMoves(settled, bucket) = BucketNet(trades, bucket)
    BY <2>2, <2>4, NetMovesIsBucketNet
  <2>6. DeriveSettlements(settled)
          = {ObligationOf(b, NetMoves(settled, b)) : b \in OpenBuckets(settled)}
    BY <2>5, DerivationIsExact
  <2>7. OpenBuckets(settled) = {k \in SettlementKeys : BucketNet(trades, k) # 0}
    BY <2>5 DEF OpenBuckets
  <2> QED BY <2>3, <2>5, <2>6, <2>7 DEF Netted
<1> QED BY <1>2, <1>3

LEMMA EmptyNets == Netted(InitialState.trades, InitialState.settlements)
<1>1. PICK s : s = InitialState
  OBVIOUS
<1>2. s.trades = EmptyMap /\ s.settlements = {}
  BY <1>1 DEF InitialState
<1>3. SettledKeys(s.trades) = {}
  BY <1>2 DEF SettledKeys, EmptyMap
<1>4. ASSUME NEW b PROVE BucketNet(s.trades, b) = 0
  <2>1. PICK f : f = [k \in SettledKeys(s.trades) |-> Moves(b, s.trades[k])]
    OBVIOUS
  <2>2. DOMAIN f = {}
    BY <1>3, <2>1
  <2>3. SumFunctionOnSet(f, DOMAIN f) = 0
    BY <2>2, SumEmpty
  <2> QED BY <2>1, <2>3 DEF BucketNet, SumFunction
<1> QED BY <1>1, <1>2, <1>4 DEF Netted

(* The sum of the cashflows of the settled versions of a bucket, pay legs  *)
(* out and receive legs in, is its net.                                    *)
LEMMA BucketNetMeaning ==
  ASSUME NEW s, IsMap(s.trades, Trades), IsFiniteSet(DOMAIN s.trades),
         NEW bucket \in SettlementKeys, NEW inBucket,
         inBucket = {key \in KeysIn(s, {"Settled"}) :
                       /\ s.trades[key].path.counterparty = bucket.counterparty
                       /\ s.trades[key].path.nettingSet = bucket.nettingSet
                       /\ s.trades[key].terms.valueDate = bucket.valueDate},
         NEW g, DOMAIN g = inBucket,
         \A key \in inBucket :
           g[key] = AmountIn(s.trades[key].terms.receive, bucket.currency)
                    - AmountIn(s.trades[key].terms.pay, bucket.currency)
  PROVE  SumFunction(g) = BucketNet(s.trades, bucket)
<1>1. PICK trades : trades = s.trades
  OBVIOUS
<1>2. PICK keys : keys = SettledKeys(trades)
  OBVIOUS
<1>3. keys = KeysIn(s, {"Settled"}) /\ keys \subseteq DOMAIN trades
  BY <1>1, <1>2 DEF KeysIn, SettledKeys
<1>4. IsFiniteSet(keys) /\ \A k \in keys : trades[k] \in Trades
  BY <1>1, <1>3, FS_Subset DEF IsMap
<1>5. PICK f : f = [k \in keys |-> Moves(bucket, trades[k])]
  OBVIOUS
<1>6. \A k \in keys : f[k] \in Int
  BY <1>4, <1>5, TradeIsExact, NothingIsExact
<1>7. \A t \in Trades :
        Moves(bucket, t) =
          IF /\ t.path.counterparty = bucket.counterparty
             /\ t.path.nettingSet = bucket.nettingSet
             /\ t.terms.valueDate = bucket.valueDate
          THEN AmountIn(t.terms.receive, bucket.currency)
               - AmountIn(t.terms.pay, bucket.currency)
          ELSE 0
  <2> SUFFICES ASSUME NEW t \in Trades
               PROVE  Moves(bucket, t) =
                        IF /\ t.path.counterparty = bucket.counterparty
                           /\ t.path.nettingSet = bucket.nettingSet
                           /\ t.terms.valueDate = bucket.valueDate
                        THEN AmountIn(t.terms.receive, bucket.currency)
                             - AmountIn(t.terms.pay, bucket.currency)
                        ELSE 0
    OBVIOUS
  <2>1. t.terms.pay.amount \in Int /\ t.terms.receive.amount \in Int
    BY WidthsArePositive DEF Trades, FxTerms, Money
  <2>2. PICK here : here = (/\ t.path.counterparty = bucket.counterparty
                            /\ t.path.nettingSet = bucket.nettingSet
                            /\ t.terms.valueDate = bucket.valueDate)
    OBVIOUS
  <2>3. ASSUME NEW money, NEW direction
        PROVE  Cashflow(t, money, direction).key = bucket
                 <=> here /\ money.currency = bucket.currency
    BY <2>2 DEF Cashflow, SettlementKeys
  <2>4. FlowTo(bucket, Cashflow(t, t.terms.pay, "Outgoing"))
          = IF here THEN -AmountIn(t.terms.pay, bucket.currency) ELSE 0
    <3>1. /\ Cashflow(t, t.terms.pay, "Outgoing").direction = "Outgoing"
          /\ Cashflow(t, t.terms.pay, "Outgoing").amount = t.terms.pay.amount
      BY DEF Cashflow
    <3> QED BY <2>1, <2>3, <3>1 DEF FlowTo, AmountIn
  <2>5. FlowTo(bucket, Cashflow(t, t.terms.receive, "Incoming"))
          = IF here THEN AmountIn(t.terms.receive, bucket.currency) ELSE 0
    <3>1. /\ Cashflow(t, t.terms.receive, "Incoming").direction = "Incoming"
          /\ Cashflow(t, t.terms.receive, "Incoming").amount = t.terms.receive.amount
      BY DEF Cashflow
    <3> QED BY <2>1, <2>3, <3>1 DEF FlowTo, AmountIn
  <2>6. PICK pay \in Int : pay = AmountIn(t.terms.pay, bucket.currency)
    BY <2>1 DEF AmountIn
  <2>7. PICK receive \in Int : receive = AmountIn(t.terms.receive, bucket.currency)
    BY <2>1 DEF AmountIn
  <2>8. Moves(bucket, t) = IF here THEN -pay + receive ELSE 0
    BY <2>4, <2>5, <2>6, <2>7 DEF Moves, Cashflows
  <2>9. Moves(bucket, t) = IF here THEN receive - pay ELSE 0
    BY <2>6, <2>7, <2>8
  <2> QED BY <2>2, <2>6, <2>7, <2>9
<1>8. inBucket \in SUBSET keys
  BY <1>1, <1>3
<1>9. \A k \in inBucket : g[k] = f[k]
  BY <1>1, <1>3, <1>4, <1>5, <1>7
<1>10. \A k \in keys \ inBucket : f[k] = 0
  BY <1>1, <1>3, <1>4, <1>5, <1>7
<1>11. SumFunctionOnSet(g, inBucket) = SumFunctionOnSet(f, keys)
  BY <1>4, <1>6, <1>8, <1>9, <1>10, SumFilters
<1>12. SumFunction(g) = SumFunctionOnSet(g, inBucket)
  BY Zenon DEF SumFunction
<1>13. BucketNet(s.trades, bucket) = SumFunctionOnSet(f, keys)
  <2>1. BucketNet(s.trades, bucket) = SumFunction(f) /\ DOMAIN f = keys
    BY <1>1, <1>2, <1>5 DEF BucketNet
  <2> QED BY <2>1, Zenon DEF SumFunction
<1> QED BY <1>11, <1>12, <1>13

-----------------------------------------------------------------------------
(* Steps.                                                                  *)

LEMMA StepKeeps ==
  DomainInv(state) /\ [Next]_state
    => DomainInv(state') /\ (state' = state \/ HistoryKept(state, state'))
<1> SUFFICES ASSUME DomainInv(state), [Next]_state
             PROVE  DomainInv(state') /\ (state' = state \/ HistoryKept(state, state'))
  OBVIOUS
<1>1. CASE BookTrade
  <2>1. PICK c \in BookTradeCommands :
          BookTradeError(state, c) = Ok /\ state' = BookTradeResult(state, c)
    BY <1>1 DEF BookTrade
  <2>2. c.tradeId \in TradeIds /\ c.path \in LimitPath /\ c.terms \in FxTerms
    BY ClientInputs DEF BookTradeCommands
  <2> QED BY <2>1, <2>2, BookKeeps
<1>2. CASE ConfirmTrade
  <2>1. PICK c \in ConfirmTradeCommands :
          ConfirmTradeError(state, c) = Ok /\ state' = ConfirmTradeResult(state, c)
    BY <1>2 DEF ConfirmTrade
  <2>2. c.postingIds \in IdTuples
    BY ClientInputs DEF ConfirmTradeCommands
  <2> QED BY <2>1, <2>2, ConfirmKeeps
<1>3. CASE AmendTrade
  <2>1. PICK c \in AmendTradeCommands :
          AmendTradeError(state, c) = Ok /\ state' = AmendTradeResult(state, c)
    BY <1>3 DEF AmendTrade
  <2>2. /\ c.terms \in FxTerms
        /\ c.reversalIds \in IdTuples /\ c.postingIds \in IdTuples
    BY ClientInputs DEF AmendTradeCommands
  <2> QED BY <2>1, <2>2, AmendKeeps
<1>4. CASE CancelTrade
  <2>1. PICK c \in CancelTradeCommands :
          CancelTradeError(state, c) = Ok /\ state' = CancelTradeResult(state, c)
    BY <1>4 DEF CancelTrade
  <2>2. c.reversalIds \in IdTuples \cup {NoReversalIds}
    BY ClientInputs DEF CancelTradeCommands
  <2> QED BY <2>1, <2>2, CancelKeeps
<1>5. CASE RunEod
  <2>1. PICK c \in RunEodCommands :
          RunEodError(state, c) = Ok /\ state' = RunEodResult(state, c)
    BY <1>5 DEF RunEod
  <2> QED BY <2>1, EodKeeps
<1>6. CASE UNCHANGED state
  BY <1>6
<1> QED BY <1>1, <1>2, <1>3, <1>4, <1>5, <1>6 DEF Next

(* See StepKeeps, for the books.                                           *)
LEMMA StepKeepsBooks == BooksInv(state) /\ [Next]_state => BooksInv(state')
<1> SUFFICES ASSUME BooksInv(state), [Next]_state
             PROVE  BooksHold(state') /\ state'.ledgerTotals = ZeroTotals
  BY StepKeeps DEF BooksInv
<1>1. CASE BookTrade
  <2>1. PICK c \in BookTradeCommands :
          BookTradeError(state, c) = Ok /\ state' = BookTradeResult(state, c)
    BY <1>1 DEF BookTrade
  <2>2. c.tradeId \in TradeIds /\ c.path \in LimitPath /\ c.terms \in FxTerms
    BY ClientInputs DEF BookTradeCommands
  <2> QED BY <2>1, <2>2, BookBooks
<1>2. CASE ConfirmTrade
  <2>1. PICK c \in ConfirmTradeCommands :
          ConfirmTradeError(state, c) = Ok /\ state' = ConfirmTradeResult(state, c)
    BY <1>2 DEF ConfirmTrade
  <2>2. c.postingIds \in IdTuples
    BY ClientInputs DEF ConfirmTradeCommands
  <2> QED BY <2>1, <2>2, ConfirmBooks
<1>3. CASE AmendTrade
  <2>1. PICK c \in AmendTradeCommands :
          AmendTradeError(state, c) = Ok /\ state' = AmendTradeResult(state, c)
    BY <1>3 DEF AmendTrade
  <2>2. /\ c.terms \in FxTerms
        /\ c.reversalIds \in IdTuples /\ c.postingIds \in IdTuples
    BY ClientInputs DEF AmendTradeCommands
  <2> QED BY <2>1, <2>2, AmendBooks
<1>4. CASE CancelTrade
  <2>1. PICK c \in CancelTradeCommands :
          CancelTradeError(state, c) = Ok /\ state' = CancelTradeResult(state, c)
    BY <1>4 DEF CancelTrade
  <2>2. c.reversalIds \in IdTuples \cup {NoReversalIds}
    BY ClientInputs DEF CancelTradeCommands
  <2> QED BY <2>1, <2>2, CancelBooks
<1>5. CASE RunEod
  <2>1. PICK c \in RunEodCommands :
          RunEodError(state, c) = Ok /\ state' = RunEodResult(state, c)
    BY <1>5 DEF RunEod
  <2> QED BY <2>1, EodBooks
<1>6. CASE UNCHANGED state
  BY <1>6 DEF BooksInv
<1> QED BY <1>1, <1>2, <1>3, <1>4, <1>5, <1>6 DEF Next

(* See StepKeeps, for the settlements.                                     *)
NetsInv == DomainInv(state) /\ Netted(state.trades, state.settlements)

LEMMA StepKeepsNets == NetsInv /\ [Next]_state => NetsInv'
<1> SUFFICES ASSUME DomainInv(state), Netted(state.trades, state.settlements),
                    [Next]_state
             PROVE  Netted(state'.trades, state'.settlements)
  BY StepKeeps DEF NetsInv
<1>1. CASE BookTrade
  <2>1. PICK c \in BookTradeCommands :
          BookTradeError(state, c) = Ok /\ state' = BookTradeResult(state, c)
    BY <1>1 DEF BookTrade
  <2>2. c.tradeId \in TradeIds /\ c.path \in LimitPath /\ c.terms \in FxTerms
    BY ClientInputs DEF BookTradeCommands
  <2> QED BY <2>1, <2>2, BookNets
<1>2. CASE ConfirmTrade
  <2>1. PICK c \in ConfirmTradeCommands :
          ConfirmTradeError(state, c) = Ok /\ state' = ConfirmTradeResult(state, c)
    BY <1>2 DEF ConfirmTrade
  <2> QED BY <2>1, ConfirmNets
<1>3. CASE AmendTrade
  <2>1. PICK c \in AmendTradeCommands :
          AmendTradeError(state, c) = Ok /\ state' = AmendTradeResult(state, c)
    BY <1>3 DEF AmendTrade
  <2>2. c.terms \in FxTerms
    BY ClientInputs DEF AmendTradeCommands
  <2> QED BY <2>1, <2>2, AmendNets
<1>4. CASE CancelTrade
  <2>1. PICK c \in CancelTradeCommands :
          CancelTradeError(state, c) = Ok /\ state' = CancelTradeResult(state, c)
    BY <1>4 DEF CancelTrade
  <2> QED BY <2>1, CancelNets
<1>5. CASE RunEod
  <2>1. PICK c \in RunEodCommands :
          RunEodError(state, c) = Ok /\ state' = RunEodResult(state, c)
    BY <1>5 DEF RunEod
  <2> QED BY <2>1, EodNets
<1>6. CASE UNCHANGED state
  BY <1>6
<1> QED BY <1>1, <1>2, <1>3, <1>4, <1>5, <1>6 DEF Next

-----------------------------------------------------------------------------
(* The theorems.                                                           *)

Inv == DomainInv(state)

(* The inductive invariant holds in every reachable state.                 *)
THEOREM DomainInvariant == Spec => []Inv
<1>1. Init => Inv
  BY EmptyHolds DEF Init, Inv
<1>2. Inv /\ [Next]_state => Inv'
  BY StepKeeps DEF Inv
<1> QED BY <1>1, <1>2, PTL DEF Spec

(* Every field of the state keeps its type: no version, amount or index    *)
(* leaves its range, whatever the commands.                                *)
THEOREM TypeCorrect == Spec => []TypeOK
<1>1. Inv => TypeOK
  BY Meaning DEF Inv, TypeOK
<1> QED BY <1>1, DomainInvariant, PTL

(* The versions of every trade form one chain, whose last version is the   *)
(* one current_trade returns and the only one not superseded.              *)
THEOREM ChainsAreSound == Spec => []VersionChain
<1>1. Inv => VersionChain
  BY Meaning DEF Inv, VersionChain
<1> QED BY <1>1, DomainInvariant, PTL

(* No reserved amount is ever negative or above its capacity: the half of  *)
(* invariants_hold that is about limits never fails.                       *)
THEOREM LimitsHold == Spec => []BalancesHold(state)
<1>1. Inv => BalancesHold(state)
  BY Meaning DEF Inv
<1> QED BY <1>1, DomainInvariant, PTL

(* No posting identifier is ever used twice, and the index of identifiers  *)
(* is exactly the set of those in the ledger.                              *)
THEOREM PostingsAreIdentified == Spec => []PostingIdsAreUnique
<1>1. Inv => PostingIdsAreUnique
  BY Meaning DEF Inv, PostingIdsAreUnique
<1> QED BY <1>1, DomainInvariant, PTL

(* Every version that was ever confirmed leads to the entry that the       *)
(* posting policy prescribes for it, however long the ledger has grown.    *)
THEOREM ConfirmationsAreFound == Spec => []ConfirmationsAreIndexed
<1>1. Inv => ConfirmationsAreIndexed
  BY Meaning DEF Inv, ConfirmationsAreIndexed
<1> QED BY <1>1, DomainInvariant, PTL

(* No step rewrites history: the ledger only grows, no version disappears  *)
(* or loses its terms, a final state is final, and the state version       *)
(* counts the changes one by one.                                          *)
THEOREM HistoryPreserved == Spec => HistoryIsKept
<1>1. Inv /\ [Next]_state => [HistoryKept(state, state')]_state
  BY StepKeeps DEF Inv
<1> QED BY <1>1, DomainInvariant, PTL DEF Spec, HistoryIsKept

(* The books hold in every reachable state.                                *)
THEOREM BooksInvariant == Spec => []BooksInv(state)
<1>1. Init => BooksInv(state)
  BY EmptyBooks DEF Init
<1>2. BooksInv(state) /\ [Next]_state => BooksInv(state)'
  BY StepKeepsBooks
<1> QED BY <1>1, <1>2, PTL DEF Spec

(* Every reserved amount is exactly the sum of the pay legs of the         *)
(* confirmed versions below that limit: confirm, amend, cancel and end of  *)
(* day reserve and release once each what they should.                     *)
THEOREM ReservationsAreExact == Spec => []ReservedIsConfirmedPay
<1>1. BooksInv(state) => ReservedIsConfirmedPay
  BY BooksReserve DEF ReservedIsConfirmedPay
<1> QED BY <1>1, BooksInvariant, PTL

(* invariants_hold never refuses a state that the domain hands it: no      *)
(* command is ever answered with InvariantViolation.                       *)
THEOREM EvaluatorAlwaysPasses == Spec => []EvaluatorChecksPass
<1>1. BooksInv(state) => EvaluatorChecksPass
  BY BooksBalance DEF EvaluatorChecksPass
<1> QED BY <1>1, BooksInvariant, PTL

(* The confirmation entry of a version is reversed once if the version was *)
(* superseded or cancelled, never otherwise, and there are no other        *)
(* entries than confirmations and reversals of earlier ones.               *)
THEOREM ReversalsAreExact == Spec => []ReversedExactlyOnce
<1>1. BooksInv(state) => ReversedExactlyOnce
  BY BooksMatch DEF ReversedExactlyOnce
<1> QED BY <1>1, BooksInvariant, PTL

(* The net of all postings on an account is what the live versions put     *)
(* there: superseded and cancelled versions leave no trace in a balance.   *)
THEOREM LedgerIsTheBlotter == Spec => []LedgerMirrorsBlotter
<1>1. BooksInv(state) => LedgerMirrorsBlotter
  BY BooksMirror DEF LedgerMirrorsBlotter
<1> QED BY <1>1, BooksInvariant, PTL

(* A confirmed trade can always be cancelled with unused identifiers, and  *)
(* end of day never fails but for an overflow: none of the errors that     *)
(* report a damaged state is ever met.                                     *)
THEOREM NothingIsStranded == Spec => []ConfirmedTradesAreNeverStranded
<1>1. ASSUME BooksInv(state) PROVE ConfirmedTradeCanBeCancelled
  <2>1. SUFFICES ASSUME NEW key \in KeysIn(state, {"Confirmed"}), NEW ids \in ClientIds,
                        \A i, j \in Lines : ids[i] = ids[j] => i = j,
                        \A i \in Lines : ids[i] \notin state.postingIds,
                        NEW c, c = [tradeId |-> key[1], expectedVersion |-> key[2],
                                    reversalIds |-> ids]
                 PROVE  CancelTradeError(state, c) \in {Ok, "StateVersionOverflow"}
    BY DEF ConfirmedTradeCanBeCancelled
  <2>2. key \in DOMAIN state.trades /\ state.trades[key].state = "Confirmed"
    BY DEF KeysIn
  <2>3. ids \in IdTuples
    BY ClientInputs
  <2>4. c.tradeId = key[1] /\ c.expectedVersion = key[2] /\ c.reversalIds = ids
    BY <2>1
  <2> QED BY <1>1, <2>1, <2>2, <2>3, <2>4, CancelIsAccepted
<1>2. ASSUME BooksInv(state) PROVE EodFailsOnlyOnOverflow
  BY <1>2, EodIsAccepted DEF EodFailsOnlyOnOverflow
<1>3. BooksInv(state) => ConfirmedTradesAreNeverStranded
  BY <1>1, <1>2 DEF ConfirmedTradesAreNeverStranded
<1> QED BY <1>3, BooksInvariant, PTL

(* The published obligations are, after any number of end of day runs and  *)
(* of commands between them, the signed nets of all settled versions:      *)
(* none is missing, none is stale and none stands for a net of zero.       *)
THEOREM SettlementsAreExact == Spec => []SettlementsAreNets
<1>1. Init => NetsInv
  BY EmptyHolds, EmptyNets DEF Init, NetsInv
<1>2. NetsInv => SettlementsAreNets
  <2> SUFFICES ASSUME NetsInv PROVE SettlementsAreNets
    OBVIOUS
  <2> DEFINE InBucket(key, bucket) ==
               /\ TradeAt(key).path.counterparty = bucket.counterparty
               /\ TradeAt(key).path.nettingSet = bucket.nettingSet
               /\ TradeAt(key).terms.valueDate = bucket.valueDate
             Of(bucket) == {key \in KeysIn(state, {"Settled"}) : InBucket(key, bucket)}
             Flow(key, currency) == AmountIn(TradeAt(key).terms.receive, currency)
                                    - AmountIn(TradeAt(key).terms.pay, currency)
             Net(bucket) ==
               SumFunction([key \in Of(bucket) |-> Flow(key, bucket.currency)])
  <2>1. IsMap(state.trades, Trades) /\ IsFiniteSet(DOMAIN state.trades)
    BY DEF NetsInv, DomainInv
  <2>2. ASSUME NEW bucket \in SettlementKeys
        PROVE  Net(bucket) = BucketNet(state.trades, bucket)
    <3>1. PICK keys : keys = Of(bucket)
      OBVIOUS
    <3>2. PICK g : g = [key \in keys |-> Flow(key, bucket.currency)]
      OBVIOUS
    <3>3. keys = {key \in KeysIn(state, {"Settled"}) :
                    /\ state.trades[key].path.counterparty = bucket.counterparty
                    /\ state.trades[key].path.nettingSet = bucket.nettingSet
                    /\ state.trades[key].terms.valueDate = bucket.valueDate}
      BY <3>1 DEF TradeAt
    <3>4. /\ DOMAIN g = keys
          /\ \A key \in keys :
               g[key] = AmountIn(state.trades[key].terms.receive, bucket.currency)
                        - AmountIn(state.trades[key].terms.pay, bucket.currency)
      BY <3>2 DEF TradeAt
    <3>5. SumFunction(g) = BucketNet(state.trades, bucket)
      BY <2>1, <3>3, <3>4, BucketNetMeaning
    <3> QED BY <3>1, <3>2, <3>5
  <2>3. SettlementsAreNets <=>
          state.settlements =
            {ObligationOf(bucket, Net(bucket)) :
               bucket \in {b \in SettlementKeys : Net(b) # 0}}
    BY DEF SettlementsAreNets, ObligationOf
  <2> HIDE DEF Net
  <2>4. {b \in SettlementKeys : Net(b) # 0}
          = {b \in SettlementKeys : BucketNet(state.trades, b) # 0}
    BY <2>2
  <2> QED BY <2>2, <2>3, <2>4 DEF NetsInv, Netted
<1> QED BY <1>1, <1>2, StepKeepsNets, PTL DEF Spec

=============================================================================
