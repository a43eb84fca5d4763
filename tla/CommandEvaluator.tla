-------------------------- MODULE CommandEvaluator --------------------------
(***************************************************************************)
(* From a command to an event and a result                                 *)
(* (src/service/command_evaluator.cpp), and back from the event to the     *)
(* state it leads to and the result it must have had                       *)
(* (src/journal/replay.cpp).                                               *)
(*                                                                         *)
(* A command, an event and a result are variants: records that carry their *)
(* alternative in the field kind.  The alternatives of the three variants  *)
(* stand in the same order, so one set of kinds serves them all; they are  *)
(* listed by Kinds.                                                        *)
(***************************************************************************)
EXTENDS Domain

Kinds == {"TradeBooked", "TradeConfirmed", "TradeAmended", "TradeCancelled",
          "EodRun"}

Commands ==
  [kind : {"TradeBooked"}, tradeId : TradeIds, path : LimitPath, terms : FxTerms]
  \cup
  [kind : {"TradeConfirmed"}, tradeId : TradeIds, expectedVersion : Versions,
   postingIds : IdTuples]
  \cup
  [kind : {"TradeAmended"}, tradeId : TradeIds, expectedVersion : Versions,
   terms : FxTerms, reversalIds : IdTuples, postingIds : IdTuples]
  \cup
  [kind : {"TradeCancelled"}, tradeId : TradeIds, expectedVersion : Versions,
   reversalIds : IdTuples \cup {NoReversalIds}]
  \cup
  [kind : {"EodRun"}, asOf : Dates]

(* The domain operation of a command: its error, and the prospective state.*)
CommandError(s, c) ==
  CASE c.kind = "TradeBooked"    -> BookTradeError(s, c)
    [] c.kind = "TradeConfirmed" -> ConfirmTradeError(s, c)
    [] c.kind = "TradeAmended"   -> AmendTradeError(s, c)
    [] c.kind = "TradeCancelled" -> CancelTradeError(s, c)
    [] c.kind = "EodRun"         -> RunEodError(s, c)

Prospective(s, c) ==
  CASE c.kind = "TradeBooked"    -> BookTradeResult(s, c)
    [] c.kind = "TradeConfirmed" -> ConfirmTradeResult(s, c)
    [] c.kind = "TradeAmended"   -> AmendTradeResult(s, c)
    [] c.kind = "TradeCancelled" -> CancelTradeResult(s, c)
    [] c.kind = "EodRun"         -> RunEodResult(s, c)

SettledCount(s) ==
  Cardinality({key \in DOMAIN s.trades : s.trades[key].state = "Settled"})

(* What the client is told.                                                *)
ResultOf(before, c, after) ==
  CASE c.kind = "TradeBooked" ->
         [kind |-> c.kind, tradeId |-> c.tradeId, version |-> 1,
          stateVersion |-> after.version]
    [] c.kind \in {"TradeConfirmed", "TradeCancelled"} ->
         [kind |-> c.kind, tradeId |-> c.tradeId,
          version |-> c.expectedVersion, stateVersion |-> after.version]
    [] c.kind = "TradeAmended" ->
         [kind |-> c.kind, tradeId |-> c.tradeId,
          supersededVersion |-> c.expectedVersion,
          replacementVersion |-> c.expectedVersion + 1,
          stateVersion |-> after.version]
    [] c.kind = "EodRun" ->
         [kind |-> c.kind, asOf |-> c.asOf,
          settledCount |-> SettledCount(after) - SettledCount(before),
          stateVersion |-> after.version]

(* evaluate_command.  A domain error is reported as such; a prospective    *)
(* state that breaks an invariant, or a version or a count that does not   *)
(* fit the result, as InvariantViolation.                                  *)
EvaluationError(s, c) ==
     Fail(CommandError(s, c) # Ok, "DomainRejected")
  ?? Fail(~InvariantsHold(Prospective(s, c)), "InvariantViolation")
  ?? Fail(c.kind = "TradeAmended" /\ c.expectedVersion = MaxTradeVersion,
          "InvariantViolation")
  ?? Fail(c.kind = "EodRun" /\ SettledCount(Prospective(s, c)) < SettledCount(s),
          "InvariantViolation")

-----------------------------------------------------------------------------
(* Replay.  An event holds the fields of the accepted command, and         *)
(* apply_event hands them to the same domain operation.                    *)
ApplyEventError(s, e) == CommandError(s, e)

ApplyEvent(s, e) == Prospective(s, e)

(* find_trade(id, version) finds a trade in that state.                    *)
FindsTrade(s, id, version, tradeState) ==
  /\ <<id, version>> \in DOMAIN s.trades
  /\ s.trades[<<id, version>>].state = tradeState

(* result_matches: the stored answer describes the event just applied.     *)
ResultMatches(result, e, before, after) ==
  /\ result.stateVersion = after.version
  /\ result.kind = e.kind
  /\ CASE result.kind = "TradeBooked" ->
            /\ result.tradeId = e.tradeId
            /\ result.version = 1
            /\ FindsTrade(after, result.tradeId, result.version, "Captured")
       [] result.kind = "TradeConfirmed" ->
            /\ result.tradeId = e.tradeId
            /\ result.version = e.expectedVersion
            /\ FindsTrade(after, result.tradeId, result.version, "Confirmed")
       [] result.kind = "TradeAmended" ->
            /\ result.tradeId = e.tradeId
            /\ result.supersededVersion = e.expectedVersion
            /\ result.replacementVersion = e.expectedVersion + 1
            /\ FindsTrade(after, result.tradeId, result.supersededVersion,
                          "Superseded")
            /\ FindsTrade(after, result.tradeId, result.replacementVersion,
                          "Confirmed")
       [] result.kind = "TradeCancelled" ->
            /\ result.tradeId = e.tradeId
            /\ result.version = e.expectedVersion
            /\ FindsTrade(after, result.tradeId, result.version, "Cancelled")
       [] result.kind = "EodRun" ->
            /\ result.asOf = e.asOf
            /\ result.settledCount = SettledCount(after) - SettledCount(before)

=============================================================================
