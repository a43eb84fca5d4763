------------------------------ MODULE Backbook ------------------------------
(***************************************************************************)
(* The domain as a state machine: any sequence of the commands a client    *)
(* may send.  A command the domain rejects leaves the state as it is, so   *)
(* the actions are the accepted commands.                                  *)
(*                                                                         *)
(* The clients draw trade paths, terms and posting identifiers from three  *)
(* constant sets, and expected versions from every version there can be.   *)
(***************************************************************************)
EXTENDS Domain

CONSTANTS ClientPaths, ClientTerms, ClientIds

ASSUME ClientInputs == /\ ClientPaths \subseteq LimitPath
                       /\ ClientTerms \subseteq FxTerms
                       /\ ClientIds \subseteq IdTuples

VARIABLE state

BookTradeCommands == [tradeId : TradeIds, path : ClientPaths, terms : ClientTerms]

ConfirmTradeCommands ==
  [tradeId : TradeIds, expectedVersion : Versions, postingIds : ClientIds]

AmendTradeCommands ==
  [tradeId : TradeIds, expectedVersion : Versions, terms : ClientTerms,
   reversalIds : ClientIds, postingIds : ClientIds]

CancelTradeCommands ==
  [tradeId : TradeIds, expectedVersion : Versions,
   reversalIds : ClientIds \cup {NoReversalIds}]

RunEodCommands == [asOf : Dates]

-----------------------------------------------------------------------------
Init == state = InitialState

BookTrade == \E c \in BookTradeCommands :
  /\ BookTradeError(state, c) = Ok
  /\ state' = BookTradeResult(state, c)

ConfirmTrade == \E c \in ConfirmTradeCommands :
  /\ ConfirmTradeError(state, c) = Ok
  /\ state' = ConfirmTradeResult(state, c)

AmendTrade == \E c \in AmendTradeCommands :
  /\ AmendTradeError(state, c) = Ok
  /\ state' = AmendTradeResult(state, c)

CancelTrade == \E c \in CancelTradeCommands :
  /\ CancelTradeError(state, c) = Ok
  /\ state' = CancelTradeResult(state, c)

RunEod == \E c \in RunEodCommands :
  /\ RunEodError(state, c) = Ok
  /\ state' = RunEodResult(state, c)

Next == BookTrade \/ ConfirmTrade \/ AmendTrade \/ CancelTrade \/ RunEod

Spec == Init /\ [][Next]_state

-----------------------------------------------------------------------------
(* Every field of the state has the type the code gives it.                *)
TypeOK == StateOK(state)

-----------------------------------------------------------------------------
TradeAt(key) == state.trades[key]

(* The versions of a trade are 1, 2, ..., current, all on the path it was  *)
(* booked on.  Each older one is Superseded and linked to its successor,   *)
(* and the current one is not superseded: confirm, amend, cancel and eod   *)
(* between them keep the chain that find_trade and current_trade read.     *)
VersionChain == ChainHolds(state)

(* At every limit key the reserved amount is the sum of the pay legs of    *)
(* the Confirmed versions below that node: what confirm reserves, amend    *)
(* exchanges, and cancel and eod give back, never twice and never less.    *)
ReservedIsConfirmedPay == ReservationsHold(state)

(* The evaluator's own check of a prospective state: the running totals    *)
(* are those of a fresh sum over the ledger and every reserved amount is   *)
(* within its capacity.  The domain never hands it a state it rejects, so  *)
(* InvariantViolation is never a reply.                                    *)
EvaluatorChecksPass == InvariantsHold(state)

(* Every posting identifier in the ledger occurs once, and posting_ids is  *)
(* exactly the set of them: no entry slips past the duplicate check, even  *)
(* the second of the two that an amendment appends.                        *)
PostingIdsAreUnique == IdsAreUnique(state)

(* confirmation_entries leads from a version to the entry that confirmed   *)
(* it, line by line what the posting policy prescribes for that version;   *)
(* versions that were never confirmed have none.                           *)
ConfirmationsAreIndexed == EntriesAreIndexed(state)

(* A confirmation entry is reversed exactly once if its version was        *)
(* superseded or cancelled, and never otherwise; an entry that confirms no *)
(* version reverses an earlier one that does.                              *)
ReversedExactlyOnce == ReversalsMatch(state)

(* Account by account the ledger shows the live positions: the net of all  *)
(* postings on an account is what the Confirmed and Settled versions put   *)
(* there, as if superseded and cancelled ones had never been posted.       *)
LedgerMirrorsBlotter == LedgerMirrors(state)

(* The published obligations are the signed nets of all settled versions,  *)
(* bucket by bucket, zero nets left out, whatever number of eod runs and   *)
(* amendments led there.                                                   *)
SettlementsAreNets ==
  LET InBucket(key, bucket) ==
        LET t == TradeAt(key)
        IN  /\ t.path.counterparty = bucket.counterparty
            /\ t.path.nettingSet = bucket.nettingSet
            /\ t.terms.valueDate = bucket.valueDate
      Flow(key, currency) == AmountIn(TradeAt(key).terms.receive, currency)
                             - AmountIn(TradeAt(key).terms.pay, currency)
      Net(bucket) ==
        LET settled == {key \in KeysIn(state, {"Settled"}) :
                          InBucket(key, bucket)}
        IN  SumFunction([key \in settled |-> Flow(key, bucket.currency)])
      Obligation(bucket, net) ==
        [key |-> bucket,
         direction |-> IF net > 0 THEN "Incoming" ELSE "Outgoing",
         amount |-> IF net > 0 THEN net ELSE -net]
  IN  state.settlements =
        {Obligation(bucket, Net(bucket)) :
           bucket \in {b \in SettlementKeys : Net(b) # 0}}

(* A cancel of a confirmed version with four unused identifiers is         *)
(* accepted: the failures that cancel shares with amend (no confirmation   *)
(* entry, an entry of the wrong shape, a release above the reservation)    *)
(* never happen.                                                           *)
ConfirmedTradeCanBeCancelled ==
  \A key \in KeysIn(state, {"Confirmed"}), ids \in ClientIds :
    LET cancel == [tradeId |-> key[1], expectedVersion |-> key[2],
                   reversalIds |-> ids]
        unused == /\ \A i, j \in Lines : ids[i] = ids[j] => i = j
                  /\ \A i \in Lines : ids[i] \notin state.postingIds
    IN  unused => CancelTradeError(state, cancel) \in {Ok, "StateVersionOverflow"}

(* End of day can fail only on a net beyond the width of an amount (or of  *)
(* the state version): its releases and lifecycle steps always succeed.    *)
EodFailsOnlyOnOverflow ==
  \A asOf \in Dates :
    RunEodError(state, [asOf |-> asOf])
      \in {Ok, "ArithmeticOverflow", "StateVersionOverflow"}

(* A confirmed trade is never stranded by the state the domain itself left *)
(* behind: it can be cancelled, and it can be settled.                     *)
ConfirmedTradesAreNeverStranded ==
  ConfirmedTradeCanBeCancelled /\ EodFailsOnlyOnOverflow

(* A step adds to history and rewrites none of it: the ledger grows at its *)
(* end, no version disappears or changes its path, terms or origin, a      *)
(* version in a final state stays as it is, and whenever anything changes  *)
(* the state version goes up by one, as readers that compare versions      *)
(* (App.tsx, use-backbook.ts) rely on.                                     *)
HistoryIsKept == [][HistoryKept(state, state')]_state

=============================================================================
