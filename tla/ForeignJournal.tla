--------------------------- MODULE ForeignJournal ---------------------------
(***************************************************************************)
(* A server that is started on a journal it need not have written: one of  *)
(* an earlier version, of another program, or one that was edited.         *)
(* create() decides from the file alone whether to serve it                *)
(* (src/service/command_service.cpp, src/journal/replay.cpp): is what it   *)
(* accepts what the service could have written, does it refuse nothing     *)
(* that the service could have written, and does the server keep its       *)
(* promises on a journal it accepted?                                      *)
(***************************************************************************)
EXTENDS HttpServer

CONSTANT Journals        \* the files a server may be started on

(* What decode_result returns: every field of its type, none of them       *)
(* compared with anything yet.                                             *)
TradeVersion == 0..MaxTradeVersion             \* std::uint32_t
StateVersion == 0..MaxStateVersion             \* std::uint64_t

Results ==
  [kind : {"TradeBooked", "TradeConfirmed", "TradeCancelled"},
   tradeId : TradeIds, version : TradeVersion, stateVersion : StateVersion]
  \cup
  [kind : {"TradeAmended"}, tradeId : TradeIds, supersededVersion : TradeVersion,
   replacementVersion : TradeVersion, stateVersion : StateVersion]
  \cup
  [kind : {"EodRun"}, asOf : Dates, settledCount : Nat,
   stateVersion : StateVersion]

(* decode_event makes the values that commands are made of, but takes a    *)
(* version 0, which no command has.                                        *)
IsEvent(e) ==
  \/ e \in Commands
  \/ /\ "expectedVersion" \in DOMAIN e /\ e.expectedVersion = 0
     /\ [e EXCEPT !.expectedVersion = 1] \in Commands

(* The identifier and the kind are all that create() reads of a canonical  *)
(* request once its form is right.                                         *)
IsRequest(r) ==
  /\ DOMAIN r = {"commandId", "command"}
  /\ "kind" \in DOMAIN r.command /\ r.command.kind \in Kinds

IsList(s) == s \in Seq({s[i] : i \in DOMAIN s})

(* decode_payload; CommandBatch::create has the last word.                 *)
IsBatch(b) ==
  /\ DOMAIN b = {"sequence", "commandId", "request", "events", "result"}
  /\ b.sequence \in 1..MaxSequence
  /\ IsRequest(b.request)
  /\ IsList(b.events)
  /\ \A i \in DOMAIN b.events : IsEvent(b.events[i])
  /\ b.result \in Results
  /\ BatchError(b.sequence, b.result) = Ok

(* Any file: each frame decodes, or is short or corrupt.                   *)
ASSUME JournalsAreFrames ==
  \A f \in Journals :
    /\ IsList(f)
    /\ \A i \in DOMAIN f :
         \/ f[i] \in {TornFrame, CorruptFrame}
         \/ f[i] = Frame(f[i].batch) /\ IsBatch(f[i].batch)

-----------------------------------------------------------------------------
(* The state that replay has after a batch, if it gets there; any will do  *)
(* behind a batch that it does not accept.                                 *)
Applies(s, batch) ==
  Len(batch.events) = 1 /\ ApplyEventError(s, batch.events[1]) = Ok

After(s, batch) ==
  IF Applies(s, batch) THEN ApplyEvent(s, batch.events[1]) ELSE s

StatesOf(batches) ==
  LET state[n \in 0..Len(batches)] ==
        IF n = 0 THEN InitialState ELSE After(state[n - 1], batches[n])
  IN  [n \in 1..(Len(batches) + 1) |-> state[n - 1]]

ForeignInit ==
  /\ file \in Journals /\ past = StatesOf(Journal)
  /\ FreshProcess

ForeignSpec == ForeignInit /\ [][Next]_vars

(* The same behind the HTTP server.                                        *)
ForeignHttpInit == ForeignInit /\ http = AllFree

ForeignHttpSpec ==
  ForeignHttpInit /\ [][HttpNext]_httpVars /\ HttpFairness

-----------------------------------------------------------------------------
(* Commands, numbered and each under an identifier of its own, were        *)
(* executed one after the other and answered with these results; and each  *)
(* request belongs to its command as far as create() looks into it.        *)
ExecutedInOrder ==
  \A i \in DOMAIN Journal :
    LET c == Journal[i].events[1]
    IN  /\ Len(Journal[i].events) = 1
        /\ c \in Commands
        /\ EvaluationError(past[i], c) = Ok
        /\ past[i + 1] = Prospective(past[i], c)
        /\ Journal[i].result = ResultOf(past[i], c, past[i + 1])

(* What a scan reads of the file could be the service's own journal.  A    *)
(* start cuts off what is behind it: code-tour.md has it that this is only *)
(* a last frame cut short, and a file with a length raised beyond its end  *)
(* loses whole frames (OnlyFinalFrameIsCut of JournalFrames).              *)
CouldBeOwn ==
  /\ ScanError(file) = Ok
  /\ CommandsAreJournaledOnce
  /\ ExecutedInOrder
  /\ RequestError(Journal) = Ok

(* Recovery is exact: what is served is a journal of executed commands,    *)
(* answers and identifiers included, and what is refused, for any reason   *)
(* but the store's, is not, or has a corrupt frame where a scan gets to.   *)
(* Replay only looks at what a batch says of itself and looks up trades    *)
(* where execution computes answers.                                       *)
AcceptanceIsExact ==
  /\ phase = "serving" => CouldBeOwn
  /\ startError \notin {Ok, "StoreFailure"} => ~CouldBeOwn

(* From the moment a journal is served everything holds that holds of the  *)
(* service's own: also what a crash leaves of it is recovered, and batches *)
(* of either origin are answered, published and replayed alike.            *)
Trusted ==
  /\ CouldBeOwn
  /\ OwnJournalRecovers
  /\ AcceptedIsJournaled
  /\ PublishedIsCommitted
  /\ ReplayReproduces

AcceptedIsTrusted == [](phase = "serving" => []Trusted)

(* Behind a frame that ends behind the end of the file there is no whole   *)
(* one, as after a torn append: the condition on which no start on a       *)
(* foreign journal removes a whole frame (JournalOnlyGrows).               *)
NothingWholeIsCut ==
  IsTorn(file) => \A i \in DOMAIN file : file[i].complete => i \in Readable(file)

=============================================================================
