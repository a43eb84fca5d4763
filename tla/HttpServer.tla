----------------------------- MODULE HttpServer -----------------------------
(***************************************************************************)
(* The HTTP boundary (src/server/http_server.cpp): what a request must be  *)
(* to reach the command service, and what its answers and errors become on *)
(* the way back (src/server/json_codec.cpp).                               *)
(*                                                                         *)
(* A JSON object is a function from the names of its members; Bad stands   *)
(* for any value that the parser of its member refuses.  Each thread of    *)
(* the library's pool has one request at a time.                           *)
(***************************************************************************)
EXTENDS CommandService

CONSTANTS Bad, TooLarge, Malformed,
          Requests        \* the POST requests clients send

ASSUME RequestsArePosts ==
  \A r \in Requests : DOMAIN r = {"contentType", "body"}

TermsFields == {"kind", "tradeDate", "valueDate", "pay", "receive"}
MoneyFields == {"currency", "minorUnits"}
ConfirmationFields ==
  <<"payControlDebit", "payPayableCredit",
    "receiveReceivableDebit", "receiveControlCredit">>
ReversalFields ==
  <<"payControlCredit", "payPayableDebit",
    "receiveReceivableCredit", "receiveControlDebit">>

(* The values of a member that its parser accepts: identifiers, dates and  *)
(* currencies of the domain, a version from 1, an amount of either sign.   *)
Parses(name, value) ==
  /\ value # Bad
  /\ name = "tradeId" => value \in TradeIds
  /\ name = "bookId" => value \in Books
  /\ name = "counterpartyId" => value \in Counterparties
  /\ name = "nettingSetId" => value \in NettingSets
  /\ name = "expectedVersion" => value \in Versions
  /\ name = "currency" => value \in Currencies
  /\ name = "minorUnits" => value \in MinorUnits
  /\ name \in {"tradeDate", "valueDate", "asOfDate"} => value \in Dates
  /\ name = "kind" => value \in {"FX_SPOT", "FX_FORWARD"}
  /\ (\E i \in Lines : name \in {ConfirmationFields[i], ReversalFields[i]})
       => value \in PostingIds

(* Nothing is wrong with the members of an object on its own level.        *)
Fits(object, required, optional) ==
  /\ object # Bad
  /\ required \subseteq DOMAIN object
  /\ DOMAIN object \subseteq required \cup optional
  /\ \A name \in DOMAIN object : Parses(name, object[name])

(* parse_terms; FxTerms::create has the last word on amounts.              *)
TermsFit(terms) ==
  /\ Fits(terms, TermsFields, {})
  /\ Fits(terms.pay, MoneyFields, {}) /\ Fits(terms.receive, MoneyFields, {})
  /\ terms.pay.minorUnits > 0 /\ terms.receive.minorUnits > 0
  /\ terms.pay.currency # terms.receive.currency

IdsFit(ids, fields) == Fits(ids, {fields[i] : i \in Lines}, {})

TradeTypes == {"CONFIRM_TRADE", "AMEND_TRADE", "CANCEL_TRADE"}

PayloadFits(type, payload) ==
  CASE type = "BOOK_TRADE" ->
         /\ Fits(payload, {"tradeId", "bookId", "counterpartyId",
                           "nettingSetId", "terms"}, {})
         /\ TermsFit(payload.terms)
    [] type = "CONFIRM_TRADE" ->
         /\ Fits(payload, {"tradeId", "postingIds"}, {})
         /\ IdsFit(payload.postingIds, ConfirmationFields)
    [] type = "AMEND_TRADE" ->
         /\ Fits(payload, {"tradeId", "replacementTerms", "reversalPostingIds",
                           "replacementPostingIds"}, {})
         /\ TermsFit(payload.replacementTerms)
         /\ IdsFit(payload.reversalPostingIds, ReversalFields)
         /\ IdsFit(payload.replacementPostingIds, ConfirmationFields)
    [] type = "CANCEL_TRADE" ->
         /\ Fits(payload, {"tradeId"}, {"reversalPostingIds"})
         /\ "reversalPostingIds" \in DOMAIN payload =>
              IdsFit(payload.reversalPostingIds, ReversalFields)
    [] type = "RUN_EOD" -> Fits(payload, {"asOfDate"}, {})
    [] OTHER -> FALSE

(* A command on a trade names the version it expects, the others must not. *)
DocumentFits(body) ==
  /\ Fits(body, {"commandId", "type", "payload"}, {"expectedVersion"})
  /\ PayloadFits(body.type, body.payload)
  /\ "expectedVersion" \in DOMAIN body <=> body.type \in TradeTypes

(* The checks of the POST route and of decode_command_request; the library *)
(* refuses a large body before it calls the route.                         *)
DecodeError(r) ==
     Fail(r.body = TooLarge, "TooLarge")
  ?? Fail(r.contentType # "application/json", "UnsupportedMediaType")
  ?? Fail(r.body = Malformed, "MalformedJson")
  ?? Fail(~DocumentFits(r.body), "ValidationFailed")

DecodeStatus == [TooLarge |-> 413, UnsupportedMediaType |-> 415,
                  MalformedJson |-> 400, ValidationFailed |-> 422]

Cash(money) == [currency |-> money.currency, amount |-> money.minorUnits]
TermsOf(terms) == [pay |-> Cash(terms.pay), receive |-> Cash(terms.receive),
                   valueDate |-> terms.valueDate]
IdsOf(ids, fields) == [i \in Lines |-> ids[fields[i]]]

CommandOf(body) ==
  LET p == body.payload
  IN  CASE body.type = "BOOK_TRADE" ->
             [kind |-> "TradeBooked", tradeId |-> p.tradeId,
              path |-> [counterparty |-> p.counterpartyId,
                        nettingSet |-> p.nettingSetId, book |-> p.bookId],
              terms |-> TermsOf(p.terms)]
        [] body.type = "CONFIRM_TRADE" ->
             [kind |-> "TradeConfirmed", tradeId |-> p.tradeId,
              expectedVersion |-> body.expectedVersion,
              postingIds |-> IdsOf(p.postingIds, ConfirmationFields)]
        [] body.type = "AMEND_TRADE" ->
             [kind |-> "TradeAmended", tradeId |-> p.tradeId,
              expectedVersion |-> body.expectedVersion,
              terms |-> TermsOf(p.replacementTerms),
              reversalIds |-> IdsOf(p.reversalPostingIds, ReversalFields),
              postingIds |-> IdsOf(p.replacementPostingIds, ConfirmationFields)]
        [] body.type = "CANCEL_TRADE" ->
             [kind |-> "TradeCancelled", tradeId |-> p.tradeId,
              expectedVersion |-> body.expectedVersion,
              reversalIds |-> IF "reversalPostingIds" \in DOMAIN p
                              THEN IdsOf(p.reversalPostingIds, ReversalFields)
                              ELSE NoReversalIds]
        [] body.type = "RUN_EOD" -> [kind |-> "EodRun", asOf |-> p.asOfDate]

EnvelopeOf(body) == [commandId |-> body.commandId, command |-> CommandOf(body)]

(* The clients of the service are the threads of this server.              *)
ASSUME AcceptedAreSent ==
  \A r \in Requests : DecodeError(r) = Ok => EnvelopeOf(r.body) \in Envelopes

-----------------------------------------------------------------------------
(* Problem details: a status and a code.                                   *)
Problem(status, code) == [status |-> status, code |-> code]

InternalErrors ==
  {"LedgerTotalsFailure", "ArithmeticOverflow", "StateVersionOverflow"}

StateProblem(error) ==
  CASE error = "TradeNotFound"    -> Problem(404, "NOT_FOUND")
    [] error = "VersionConflict"  -> Problem(409, "VERSION_CONFLICT")
    [] error \in {Illegal, "DuplicateTradeId"} -> Problem(409, "ILLEGAL_TRANSITION")
    [] error = "Breach"           -> Problem(409, "LIMIT_BREACH")
    [] error \in InternalErrors   -> Problem(500, "INTERNAL_ERROR")
    [] OTHER                      -> Problem(422, "VALIDATION_FAILED")

ServiceProblem(code, stateError) ==
  CASE code = "IdempotencyConflict" -> Problem(409, "IDEMPOTENCY_CONFLICT")
    [] code = "JournalUnavailable"  -> Problem(503, "JOURNAL_UNAVAILABLE")
    [] code = "DomainRejected"      -> StateProblem(stateError)
    [] OTHER                        -> Problem(500, "INTERNAL_ERROR")

ResponseTo(answer) ==
  IF answer.code = Ok THEN [status |-> 200, receipt |-> answer.receipt]
  ELSE ServiceProblem(answer.code, answer.stateError)

-----------------------------------------------------------------------------
VARIABLE http        \* what each thread of the pool is doing

httpVars == <<vars, http>>

Free == [status |-> 0]            \* no request
Busy == [status |-> 1]            \* its command is with the service
AllFree == [t \in Threads |-> Free]

HttpInit == Init /\ http = AllFree

Respond(t, response) == http' = [http EXCEPT ![t] = response]

Post(t) == \E r \in Requests :
  /\ phase = "serving" /\ http[t] = Free
  /\ \/ /\ DecodeError(r) # Ok
        /\ Respond(t, Problem(DecodeStatus[DecodeError(r)], "VALIDATION_FAILED"))
        /\ UNCHANGED vars
     \/ /\ DecodeError(r) = Ok
        /\ CallWith(t, EnvelopeOf(r.body))
        /\ http' = [http EXCEPT ![t] = Busy]

Answer(t) ==
  /\ http[t] = Busy
  /\ Return(t)
  /\ Respond(t, ResponseTo(threads[t]))

(* One snapshot serves the whole response.                                 *)
Get(t) ==
  /\ http[t] = Free
  /\ Read
  /\ Respond(t, [status |-> 200, version |-> snapshot.version])

(* The response has left the server; whether it arrives is not its affair. *)
Done(t) ==
  /\ http[t] \notin {Free, Busy}
  /\ Respond(t, Free)
  /\ UNCHANGED vars

Process(t) == (Work(t) /\ UNCHANGED http) \/ Answer(t) \/ Done(t)

Recovering == (ReplayBatch \/ FinishRecovery) /\ UNCHANGED http

HttpNext ==
  \/ \E t \in Threads : Post(t) \/ Get(t) \/ Process(t)
  \/ Create /\ UNCHANGED http
  \/ Recovering
  \/ Crash /\ http' = AllFree

HttpSpec == HttpInit /\ [][HttpNext]_httpVars

(* Threads that have something to do do it, an append returns sooner or    *)
(* later, and a replay goes on.  Nobody has to send a request, the process *)
(* may stay down, and std::mutex prefers no thread to another.             *)
HttpFairness ==
  /\ \A t \in Threads : WF_httpVars(Process(t))
  /\ WF_httpVars(Recovering)

-----------------------------------------------------------------------------
(* What a client may conclude from a status.  200: its own command is in   *)
(* the journal, with the result it is given.  IDEMPOTENCY_CONFLICT: another*)
(* request has its identifier.  503: not known, and no command is taken    *)
(* until a restart.  Any other problem: nothing is journaled under its     *)
(* identifier, which a retry may therefore use again.  And no accepted     *)
(* document is anything but a command of the domain.                       *)
Told(request, response, journal, canWrite) ==
  LET Own == {i \in DOMAIN journal : journal[i].commandId = request.commandId}
      conflict == Problem(409, "IDEMPOTENCY_CONFLICT")
  IN  CASE response.status = 200 ->
             \E i \in Own : /\ journal[i].request = request
                            /\ journal[i].result = response.receipt.result
        [] response.status = 503 -> ~canWrite
        [] response = conflict ->
             Own # {} /\ \A i \in Own : journal[i].request # request
        [] OTHER -> Own = {}

StatusTellsOutcome ==
  [][\A t \in Threads :
       threads[t].pc # "answered" /\ threads'[t].pc = "answered" =>
         /\ threads[t].request.command \in Commands
         /\ Told(threads[t].request, ResponseTo(threads'[t]), Journal', writable')
    ]_threads

(* Every request gets its response, unless the process ends: no thread     *)
(* waits for ever for the mutex, for the store after it failed, or for     *)
(* another one; and a replay ends.  Others may overtake it at the mutex,   *)
(* but hold it over a step only for commands that are journaled, of which  *)
(* there are finitely many here.                                           *)
NoRequestIsForgotten ==
  /\ \A t \in Threads : http[t] = Busy ~> http[t] # Busy
  /\ phase = "recovering" ~> phase # "recovering"

=============================================================================
