---------------------------- MODULE NettingProofs ----------------------------
(***************************************************************************)
(* Theorems about the netting loop: after any sequence of settled trades   *)
(* every accumulator stands for the exact signed net of its bucket, and    *)
(* what is derived from them is exact, for any trades, amounts and width.  *)
(***************************************************************************)
EXTENDS Netting, DomainProofs

(* The trades seen are settled ones, and the accumulators are exact.       *)
NettingInv ==
  /\ fed \in Seq(Trades)
  /\ DOMAIN nets = SettlementKeys
  /\ \A key \in SettlementKeys : Exact(nets[key], NetMoves(fed, key))

(* One more trade adds what it moves.                                      *)
LEMMA MovesAdd ==
  ASSUME NEW trades \in Seq(Trades), NEW trade \in Trades, NEW key,
         NEW more, more = Append(trades, trade)
  PROVE  /\ more \in Seq(Trades)
         /\ NetMoves(more, key) = NetMoves(trades, key) + Moves(key, trade)
<1>1. PICK n \in Nat : n = Len(trades) /\ DOMAIN trades = 1..n
  OBVIOUS
<1>2. /\ more \in Seq(Trades) /\ DOMAIN more = 1..(n + 1) /\ Len(more) = n + 1
      /\ \A i \in 1..n : more[i] = trades[i]
      /\ more[n + 1] = trade
  BY <1>1
<1>3. PICK f : f = [i \in 1..n |-> Moves(key, trades[i])]
  OBVIOUS
<1>4. PICK m : m = Moves(key, trade)
  OBVIOUS
<1>5. \A t \in Trades : Moves(key, t) \in Int
  BY TradeIsExact, NothingIsExact
<1>6. f \in Seq(Int) /\ Len(f) = n /\ m \in Int
  <2>1. \A i \in 1..n : trades[i] \in Trades
    BY <1>1
  <2>2. f \in [1..n -> Int]
    BY <1>3, <1>5, <2>1
  <2> QED BY <1>4, <1>5, <2>2
<1>7. PICK g : g = Append(f, m)
  OBVIOUS
<1>8. /\ DOMAIN g = 1..(n + 1) /\ g = [i \in 1..(n + 1) |-> g[i]]
      /\ \A i \in 1..n : g[i] = f[i]
      /\ g[n + 1] = m
  <2>1. IsSeq(f)
    BY <1>6 DEF IsSeq
  <2>2. Grown(g, f, m)
    BY <1>7, <2>1, Appended
  <2>3. /\ IsSeq(g) /\ Len(g) = n + 1 /\ DOMAIN g = 1..(n + 1)
        /\ \A i \in 1..n : g[i] = f[i]
        /\ g[n + 1] = m
    BY <1>6, <2>2 DEF Grown
  <2>4. g = [i \in 1..Len(g) |-> g[i]]
    BY <2>3, SeqFacts
  <2> QED BY <2>3, <2>4
<1>9. \A i \in 1..(n + 1) : g[i] = Moves(key, more[i])
  <2>1. \A i \in 1..(n + 1) : i \in 1..n \/ i = n + 1
    BY <1>1
  <2> QED BY <1>2, <1>3, <1>4, <1>8, <2>1
<1>10. NetMoves(more, key) = SumFunction(g)
  <2>1. [i \in DOMAIN more |-> Moves(key, more[i])] = g
    BY <1>2, <1>8, <1>9
  <2> QED BY <2>1 DEF NetMoves
<1>11. NetMoves(trades, key) = SumFunction(f)
  BY <1>1, <1>3 DEF NetMoves
<1> QED BY <1>2, <1>4, <1>6, <1>7, <1>10, <1>11, SumOfAppended

LEMMA SettledTradeType ==
  ASSUME NEW terms \in SettledTerms
  PROVE  SettledTrade(terms) \in Trades
<1>1. terms \in FxTerms /\ SettledPath \in LimitPath /\ AnyTrade \in TradeIds
  BY NettingInputs
<1>2. 1 \in Versions
  BY WidthsArePositive DEF Versions
<1> QED BY <1>1, <1>2 DEF SettledTrade, Capture, Trades, TradeStates, NoVersion

(* The inductive invariant of the loop.                                    *)
THEOREM NettingInvariant == Spec => []NettingInv
<1>1. Init => NettingInv
  <2> SUFFICES ASSUME Init PROVE NettingInv
    OBVIOUS
  <2>1. fed = <<>> /\ nets = [key \in SettlementKeys |-> NoCashflow]
    BY DEF Init
  <2>2. fed \in Seq(Trades)
    BY <2>1
  <2>3. \A key : NetMoves(fed, key) = 0
    <3> TAKE key
    <3>1. KeysOf(fed) = {}
      BY <2>1 DEF KeysOf
    <3> QED BY <2>2, <3>1, OtherBucketsAreEmpty
  <2> QED BY <2>1, <2>2, <2>3, NothingIsExact DEF NettingInv
<1>2. NettingInv /\ [Next]_vars => NettingInv'
  <2> SUFFICES ASSUME NettingInv, [Next]_vars PROVE NettingInv'
    OBVIOUS
  <2>1. CASE Next
    <3>1. PICK terms \in SettledTerms :
            /\ fed' = Append(fed, SettledTrade(terms))
            /\ nets' = [key \in SettlementKeys |->
                          AddTrade(key, nets[key], SettledTrade(terms))]
      BY <2>1 DEF Next, TakeTrade
    <3>2. PICK trade \in Trades : trade = SettledTrade(terms)
      BY SettledTradeType
    <3>3. fed' \in Seq(Trades)
      BY <3>1, <3>2 DEF NettingInv
    <3>4. ASSUME NEW key \in SettlementKeys
          PROVE  Exact(nets'[key], NetMoves(fed', key))
      <4>1. nets'[key] = AddTrade(key, nets[key], trade)
        BY <3>1, <3>2
      <4>2. NetMoves(fed', key) = NetMoves(fed, key) + Moves(key, trade)
        BY <3>1, <3>2, MovesAdd DEF NettingInv
      <4>3. Exact(nets[key], NetMoves(fed, key))
        BY DEF NettingInv
      <4> QED BY <4>1, <4>2, <4>3, TradeIsExact
    <3>5. DOMAIN nets' = SettlementKeys
      BY <3>1
    <3>6. \A key \in SettlementKeys : Exact(nets'[key], NetMoves(fed', key))
      BY <3>4
    <3>7. NettingInv' = (/\ fed' \in Seq(Trades)
                         /\ DOMAIN nets' = SettlementKeys
                         /\ \A key \in SettlementKeys :
                              Exact(nets'[key], NetMoves(fed', key)))
      BY DEF NettingInv, Exact, NetMoves, Magnitude, Moves, FlowTo, Cashflows,
             Cashflow
    <3> QED BY <3>3, <3>5, <3>6, <3>7
  <2>2. CASE UNCHANGED vars
    BY <2>2 DEF vars, NettingInv, NetMoves
  <2> QED BY <2>1, <2>2
<1> QED BY <1>1, <1>2, PTL DEF Spec

(* The signed net of the properties is the one of the lemmas.              *)
LEMMA SignedNetIs == \A key : SignedNet(key) = NetMoves(fed, key)
<1> TAKE key
<1>1. \A i \in DOMAIN fed :
        /\ Cashflows(fed[i])[1].direction \in {"Incoming", "Outgoing"}
        /\ Cashflows(fed[i])[2].direction \in {"Incoming", "Outgoing"}
  BY DEF Cashflows, Cashflow
<1> QED BY <1>1 DEF SignedNet, NetMoves, Moves, FlowTo

(* What an end of day publishes is the exact net of every bucket, whatever *)
(* the order in which the cashflows came.                                  *)
THEOREM NettingIsExact == Spec => []ObligationsAreExact
<1>1. NettingInv => ObligationsAreExact
  <2> SUFFICES ASSUME NettingInv PROVE ObligationsAreExact
    OBVIOUS
  <2>1. fed \in Seq(Trades)
    BY DEF NettingInv
  <2>2. NetIsExact
    <3> SUFFICES ASSUME NEW key \in SettlementKeys
        PROVE  /\ nets[key].direction = "None" <=> nets[key].unmatched = <<>>
               /\ \A i \in DOMAIN nets[key].unmatched : nets[key].unmatched[i] > 0
               /\ SignedNet(key) =
                    CASE nets[key].direction = "Incoming" -> Magnitude(nets[key])
                      [] nets[key].direction = "Outgoing" -> -Magnitude(nets[key])
                      [] OTHER -> 0
      BY Zenon DEF NetIsExact
    <3>1. PICK net : net = nets[key]
      OBVIOUS
    <3>2. PICK v : v = SignedNet(key)
      OBVIOUS
    <3>3. Exact(net, v)
      BY <3>1, <3>2, SignedNetIs DEF NettingInv
    <3>4. \A i \in DOMAIN net.unmatched : net.unmatched[i] > 0
      BY <3>3 DEF Exact, Amounts
    <3>5. net.direction = "None" <=> net.unmatched = <<>>
      BY <3>3 DEF Exact
    <3>6. v = CASE net.direction = "Incoming" -> Magnitude(net)
                [] net.direction = "Outgoing" -> -Magnitude(net)
                [] OTHER -> 0
      BY <3>3 DEF Exact
    <3> QED BY <3>1, <3>2, <3>4, <3>5, <3>6
  <2>3. OneObligationPerOpenBucket
    <3>1. {key \in SettlementKeys : SignedNet(key) # 0} = OpenBuckets(fed)
      BY SignedNetIs DEF OpenBuckets
    <3>2. SettlementError(fed) = Ok =>
            \A o \in DeriveSettlements(fed) : o.amount \in 1..MaxMinor
      <4> SUFFICES ASSUME SettlementError(fed) = Ok, NEW o \in DeriveSettlements(fed)
                   PROVE  o.amount \in 1..MaxMinor
        OBVIOUS
      <4>1. PICK key \in OpenBuckets(fed) : o = ObligationOf(key, NetMoves(fed, key))
        BY <2>1, DerivationIsExact
      <4>2. PICK v \in Int : v = NetMoves(fed, key)
        BY <2>1, NetOfIsExact
      <4>3. v \in (-MaxMinor)..MaxMinor /\ v # 0
        BY <2>1, <4>2, DerivationIsExact DEF OpenBuckets
      <4>4. MaxMinor \in Nat
        BY WidthsArePositive
      <4>5. o.amount = IF v > 0 THEN v ELSE -v
        BY <4>1, <4>2 DEF ObligationOf
      <4> QED BY <4>3, <4>4, <4>5
    <3> QED BY <2>1, <3>1, <3>2, ObligationsAreCounted
            DEF OneObligationPerOpenBucket
  <2> QED BY <2>2, <2>3 DEF ObligationsAreExact
<1> QED BY <1>1, NettingInvariant, PTL

(* A sum on the way never refuses an end of day, only a final net does.    *)
THEOREM OnlyFinalNetsOverflow == Spec => []OverflowOnlyOfFinalNet
<1>1. NettingInv => OverflowOnlyOfFinalNet
  BY DerivationIsExact, SignedNetIs DEF NettingInv, OverflowOnlyOfFinalNet
<1> QED BY <1>1, NettingInvariant, PTL

=============================================================================
