--------------------------- MODULE CommandService ---------------------------
(***************************************************************************)
(* The command service (src/service/command_service.cpp): the threads of   *)
(* the HTTP server execute commands under one mutex and read snapshots     *)
(* without it; an accepted command is a frame in the journal before        *)
(* anything of it is published; a restart replays the journal.             *)
(*                                                                         *)
(* The volatile state is gone when the process ends, which it may at any   *)
(* step.  The journal stays, with whatever the last append left in it.     *)
(***************************************************************************)
EXTENDS CommandEvaluator, JournalStore

CONSTANTS Threads,          \* the threads that execute commands
          Envelopes         \* the requests clients send

(* Commands travel with the identifier their client chose.  Their canonical*)
(* bytes are injective, so an envelope stands for its own bytes.           *)
ASSUME EnvelopesAreCommands ==
  \A e \in Envelopes : /\ DOMAIN e = {"commandId", "command"}
                       /\ e.command \in Commands

MaxSequence == MaxStateVersion       \* both are std::uint64_t
Exhausted == 0                       \* next_sequence_ after the largest one

VARIABLES
  file,           \* the journal
  phase,          \* "down", "recovering" or "serving"
  startError,     \* why the last start ended, or Ok
  recovered,      \* what create() is replaying: batches, position, state
  writable,       \* JournalStore::writable
  snapshot,       \* the published state
  idempotency,    \* command id -> request and result
  nextSequence,
  threads,        \* what each thread is doing
  seen,           \* the last snapshot some reader loaded
  past            \* auxiliary: the states after 0, 1, 2, ... journaled batches

service == <<writable, snapshot, idempotency, nextSequence>>
vars == <<file, phase, startError, recovered, service, threads, seen, past>>

Idle == [pc |-> "idle"]
AllIdle == [t \in Threads |-> Idle]

NothingRecovered == [batches |-> <<>>, position |-> 0, state |-> InitialState]

(* Before the process starts there is only the journal.                    *)
FreshProcess ==
  /\ phase = "down" /\ startError = Ok
  /\ recovered = NothingRecovered
  /\ writable = FALSE /\ snapshot = InitialState
  /\ idempotency = EmptyMap /\ nextSequence = 1
  /\ threads = AllIdle /\ seen = InitialState

Init == file = <<>> /\ past = <<InitialState>> /\ FreshProcess

-----------------------------------------------------------------------------
(* execute().  A thread holds command_mutex_ from its append to its answer;*)
(* the checks before that read only what the mutex protects.               *)

(* Mutants of MutexIsFree: there is no mutex; after a failed append        *)
(* everybody waits for the store.                                          *)
Unguarded == TRUE
WaitsForStore ==
  writable /\ \A t \in Threads : threads[t].pc \notin {"appending", "publishing"}
MutexIsFree == \A t \in Threads : threads[t].pc \notin {"appending", "publishing"}

CallWith(t, e) ==
  /\ phase = "serving" /\ threads[t] = Idle
  /\ threads' = [threads EXCEPT ![t] = [pc |-> "waiting", request |-> e]]
  /\ UNCHANGED <<file, phase, startError, recovered, service, seen, past>>

Call(t) == \E e \in Envelopes : CallWith(t, e)

Receipt(result, replay) == [result |-> result, idempotentReplay |-> replay]

(* Outcome<CommandReceipt, CommandServiceError>: a receipt, or a code with *)
(* the domain's error behind it, if it is one.                             *)
Answered(t, receipt) ==
  [threads EXCEPT ![t] = [pc |-> "answered", request |-> threads[t].request,
                          code |-> Ok, receipt |-> receipt]]

Failed(t, code, stateError) ==
  [threads EXCEPT ![t] = [pc |-> "answered", request |-> threads[t].request,
                          code |-> code, stateError |-> stateError]]

(* Mutant of IsKnown: identifiers are never recognised.                    *)
IsNeverKnown(request) == FALSE
IsKnown(request) == request.commandId \in DOMAIN idempotency

AnyRequest(record, request) == TRUE                \* mutant of SameRequest
SameRequest(record, request) == record.request = request

(* A known identifier gets its first answer again, or a conflict; neither  *)
(* needs the store.                                                        *)
AnswerAgain(t) ==
  LET request == threads[t].request
      record == idempotency[request.commandId]
  IN  /\ threads[t].pc = "waiting" /\ MutexIsFree /\ IsKnown(request)
      /\ threads' = IF SameRequest(record, request)
                    THEN Answered(t, Receipt(record.result, TRUE))
                    ELSE Failed(t, "IdempotencyConflict", Ok)
      /\ UNCHANGED <<file, phase, startError, recovered, service, seen, past>>

(* CommandBatch::create                                                    *)
BatchError(sequence, result) ==
  Fail(sequence = 0 \/ result.stateVersion > sequence, "InvariantViolation")

ExecuteError(c) ==
     Fail(~writable, "JournalUnavailable")
  ?? Fail(nextSequence = Exhausted, "SequenceExhausted")
  ?? EvaluationError(snapshot, c)
  ?? BatchError(nextSequence, ResultOf(snapshot, c, Prospective(snapshot, c)))

StateErrorOf(error, c) ==
  IF error = "DomainRejected" THEN CommandError(snapshot, c) ELSE Ok

Refuse(t) ==
  LET request == threads[t].request
      error == ExecuteError(request.command)
  IN  /\ threads[t].pc = "waiting" /\ MutexIsFree /\ ~IsKnown(request)
      /\ error # Ok
      /\ threads' = Failed(t, error, StateErrorOf(error, request.command))
      /\ UNCHANGED <<file, phase, startError, recovered, service, seen, past>>

BatchOf(request, after) ==
  [sequence |-> nextSequence, commandId |-> request.commandId,
   request |-> request, events |-> <<request.command>>,
   result |-> ResultOf(snapshot, request.command, after)]

BeginAppend(t) ==
  LET request == threads[t].request
      after == Prospective(snapshot, request.command)
  IN  /\ threads[t].pc = "waiting" /\ MutexIsFree /\ ~IsKnown(request)
      /\ ExecuteError(request.command) = Ok
      /\ threads' = [threads EXCEPT ![t] =
                       [pc |-> "appending", request |-> request,
                        batch |-> BatchOf(request, after), after |-> after]]
      /\ UNCHANGED <<file, phase, startError, recovered, service, seen, past>>

(* append_and_flush succeeds: the commit point.                            *)
AppendSucceeds(t) ==
  /\ threads[t].pc = "appending"
  /\ file' = Append(file, Frame(threads[t].batch))
  /\ past' = Append(past, threads[t].after)
  /\ threads' = [threads EXCEPT ![t].pc = "publishing"]
  /\ UNCHANGED <<phase, startError, recovered, service, seen>>

(* What an append that did not succeed leaves behind.                      *)
LeaveBehind(t) == \E left \in Leftovers(file, threads[t].batch) :
  /\ file' = left
  /\ past' = IF left = Append(file, Frame(threads[t].batch))
             THEN Append(past, threads[t].after) ELSE past

StillWritable == writable              \* mutant of WritableAfterFailure
WritableAfterFailure == FALSE

AppendFailure(t) == Failed(t, "JournalUnavailable", Ok)

AppendFails(t) ==
  /\ threads[t].pc = "appending"
  /\ LeaveBehind(t)
  /\ writable' = WritableAfterFailure
  /\ threads' = AppendFailure(t)
  /\ UNCHANGED <<phase, startError, recovered, snapshot, idempotency,
                 nextSequence, seen>>

RecordOf(batch) == [request |-> batch.request, result |-> batch.result]

(* Mutant of Following: the counter passes its width.                      *)
FollowingUnchecked(sequence) == sequence + 1
Following(sequence) == IF sequence = MaxSequence THEN Exhausted ELSE sequence + 1

Publish(t) ==
  LET batch == threads[t].batch
  IN  /\ threads[t].pc = "publishing"
      /\ idempotency' = Emplace(idempotency, batch.commandId, RecordOf(batch))
      /\ nextSequence' = Following(nextSequence)
      /\ snapshot' = threads[t].after
      /\ threads' = Answered(t, Receipt(batch.result, FALSE))
      /\ UNCHANGED <<file, phase, startError, recovered, writable, seen, past>>

(* The answer goes to the client, or is lost on its way.                   *)
Return(t) ==
  /\ threads[t].pc = "answered"
  /\ threads' = [threads EXCEPT ![t] = Idle]
  /\ UNCHANGED <<file, phase, startError, recovered, service, seen, past>>

(* snapshot(): a reader loads the published state, whoever has the mutex.  *)
Read ==
  /\ phase = "serving"
  /\ seen' = snapshot
  /\ UNCHANGED <<file, phase, startError, recovered, service, threads, past>>

-----------------------------------------------------------------------------
(* The end of the process, and create().                                   *)

Stop(error) ==
  /\ phase' = "down" /\ startError' = error
  /\ recovered' = NothingRecovered
  /\ writable' = FALSE /\ snapshot' = InitialState
  /\ idempotency' = EmptyMap /\ nextSequence' = 1
  /\ threads' = AllIdle
  /\ UNCHANGED seen

Crash ==
  /\ phase # "down"
  /\ Stop(Ok)
  /\ IF \E t \in Threads : threads[t].pc = "appending"
     THEN \E t \in Threads : threads[t].pc = "appending" /\ LeaveBehind(t)
     ELSE UNCHANGED <<file, past>>

(* The canonical request of a batch names its command id and its event.    *)
RequestError(batches) ==
  Fail(\E i \in DOMAIN batches :
         LET b == batches[i]
         IN  \/ b.request.commandId # b.commandId
             \/ Len(b.events) = 1 /\ b.request.command.kind # b.events[1].kind,
       "InvalidCanonicalRequest")

Create == \E readable, resizable \in BOOLEAN :
  LET batches == BatchesOf(file)
      recoveryError == RecoveryError(file, readable, resizable)
      error == recoveryError ?? RequestError(batches)
  IN  /\ phase = "down"
      /\ startError' = error
      /\ file' = IF recoveryError = Ok THEN TruncateTail(file) ELSE file
      /\ IF error # Ok
         THEN UNCHANGED <<phase, recovered, service>>
         ELSE /\ phase' = "recovering"
              /\ recovered' = [NothingRecovered EXCEPT !.batches = batches]
              /\ writable' = TRUE
              /\ UNCHANGED <<snapshot, idempotency, nextSequence>>
      /\ UNCHANGED <<threads, seen, past>>

(* replay(), one batch at a time.  Mutant of ReplayError: the stored       *)
(* answers are taken on trust.                                             *)
ReplayErrorOfEvents(batch, expected, before) ==
     Fail(batch.sequence # expected, "SequenceMismatch")
  ?? Fail(Len(batch.events) # 1, "InvalidBatchShape")
  ?? Fail(ApplyEventError(before, batch.events[1]) # Ok, "EventApplicationFailed")
ReplayError(batch, expected, before) ==
     Fail(batch.sequence # expected, "SequenceMismatch")
  ?? Fail(Len(batch.events) # 1, "InvalidBatchShape")
  ?? Fail(ApplyEventError(before, batch.events[1]) # Ok, "EventApplicationFailed")
  ?? Fail(~ResultMatches(batch.result, batch.events[1], before,
                         ApplyEvent(before, batch.events[1])),
          "ResultMismatch")

ReplayBatch ==
  LET position == recovered.position + 1
      batch == recovered.batches[position]
      error == ReplayError(batch, position, recovered.state)
  IN  /\ phase = "recovering" /\ position <= Len(recovered.batches)
      /\ IF error # Ok
         THEN Stop(error)
         ELSE /\ recovered' =
                   [recovered EXCEPT
                      !.position = position,
                      !.state = ApplyEvent(recovered.state, batch.events[1])]
              /\ UNCHANGED <<phase, startError, service, threads, seen>>
      /\ UNCHANGED <<file, past>>

TotalsError(s) ==
  Fail(RecomputedTotals(s) # s.ledgerTotals, "LedgerTotalsMismatch")

DuplicateError(batches) ==
  Fail(\E i, j \in DOMAIN batches :
         i # j /\ batches[i].commandId = batches[j].commandId,
       "DuplicateJournalCommandId")

(* The idempotency index of a journal, one record per batch.               *)
IndexOf(batches) ==
  LET At(id) == CHOOSE i \in DOMAIN batches : batches[i].commandId = id
  IN  [id \in {batches[i].commandId : i \in DOMAIN batches} |->
         RecordOf(batches[At(id)])]

(* Mutant of SequenceAfter: the counter starts again.                      *)
SequenceAgain(batches) == 1
SequenceAfter(batches) ==
  IF batches = <<>> THEN 1 ELSE Following(Last(batches).sequence)

FinishRecovery ==
  LET batches == recovered.batches
      error == TotalsError(recovered.state) ?? DuplicateError(batches)
  IN  /\ phase = "recovering" /\ recovered.position = Len(batches)
      /\ IF error # Ok
         THEN Stop(error)
         ELSE /\ phase' = "serving"
              /\ snapshot' = recovered.state
              /\ idempotency' = IndexOf(batches)
              /\ nextSequence' = SequenceAfter(batches)
              /\ recovered' = NothingRecovered
              /\ UNCHANGED <<startError, writable, threads, seen>>
      /\ UNCHANGED <<file, past>>

-----------------------------------------------------------------------------
Work(t) ==
  \/ AnswerAgain(t) \/ Refuse(t) \/ BeginAppend(t)
  \/ AppendSucceeds(t) \/ AppendFails(t) \/ Publish(t)

Execute(t) == Call(t) \/ Work(t) \/ Return(t)

Next ==
  \/ \E t \in Threads : Execute(t)
  \/ Read \/ Crash \/ Create \/ ReplayBatch \/ FinishRecovery

Spec == Init /\ [][Next]_vars

-----------------------------------------------------------------------------
Journal == BatchesOf(file)
Committed == Last(past)            \* the state of the whole journal

(* The types of the service's variables; volatile state is as a fresh       *)
(* process has it while nothing is served.                                 *)
TypeOK ==
  /\ phase \in {"down", "recovering", "serving"}
  /\ StateOK(snapshot) /\ StateOK(seen) /\ StateOK(recovered.state)
  /\ recovered.position \in 0..Len(recovered.batches)
  /\ nextSequence \in 1..MaxSequence \cup {Exhausted}
  /\ DOMAIN idempotency \subseteq {e.commandId : e \in Envelopes}
  /\ DOMAIN threads = Threads
  /\ phase # "serving" => threads = AllIdle /\ snapshot = InitialState
  /\ phase = "down" => ~writable /\ recovered = NothingRecovered
  /\ Len(past) = Len(Journal) + 1

(* The batch of sequence i in the journal is the i-th one and no command   *)
(* identifier occurs twice, whatever was retried, lost, refused by the     *)
(* store or cut short by a crash: every command takes effect at most once, *)
(* and the journal never becomes one that create() rejects as duplicate.   *)
CommandsAreJournaledOnce ==
  /\ \A i \in DOMAIN Journal : Journal[i].sequence = i
  /\ \A i, j \in DOMAIN Journal :
       Journal[i].commandId = Journal[j].commandId => i = j

(* A success a client hears of is in the journal, with that result, and    *)
(* the request the journal has under its id is the client's own.  As the   *)
(* journal only grows it is still there after any crash and restart.       *)
AcceptedIsJournaled ==
  \A t \in Threads :
    threads[t].pc = "answered" /\ threads[t].code = Ok =>
      \E i \in DOMAIN Journal :
        /\ Journal[i].request = threads[t].request
        /\ Journal[i].result = threads[t].receipt.result

(* What readers and the next command see is the state of the journal, but  *)
(* for one batch: the one just committed and not yet published, or one     *)
(* that a failed append completed on disk all the same, and then the store *)
(* takes no more commands.  Index and sequence agree with the snapshot.    *)
PublishedIsCommitted ==
  phase = "serving" =>
    \E n \in 0..Len(Journal) :
      LET published == SubSeq(Journal, 1, n)
      IN  /\ n >= Len(Journal) - 1
          /\ n < Len(Journal) =>
               \/ \E t \in Threads : threads[t].pc = "publishing"
               \/ ~writable
          /\ snapshot = past[n + 1]
          /\ idempotency = IndexOf(published)
          /\ nextSequence = SequenceAfter(published)

(* A journal this service wrote is one it recovers: whatever a failure or  *)
(* a crash left in it, a start fails only when the store does.             *)
OwnJournalRecovers == startError \in {Ok, "StoreFailure"}

(* Replay rebuilds, batch by batch, exactly the states the commands        *)
(* produced when they were executed.                                       *)
ReplayReproduces ==
  phase = "recovering" => recovered.state = past[recovered.position + 1]

(* No step changes or removes a whole frame, wherever in the file it is:   *)
(* recovery cuts off nothing but what never was one.                       *)
JournalOnlyGrows ==
  [][\A i \in DOMAIN file :
       file[i].complete => i \in DOMAIN file' /\ file'[i] = file[i]]_file

(* Successive reads never go back, not even across a restart: the version  *)
(* rises with the ledger behind it, and one version is always one state,   *)
(* which is how the browser tells that three responses fit together.       *)
ReadsMoveForward ==
  [][/\ seen'.version >= seen.version
     /\ seen'.version = seen.version => seen' = seen
     /\ IsPrefix(seen.ledgerEntries, seen'.ledgerEntries)]_seen

(* The journal's state takes the steps of the domain, as if one client     *)
(* sent the accepted commands one by one: threads, lost answers, failed    *)
(* appends, crashes and recoveries leave no other trace in it.             *)
Sent(kind) == {e \in Envelopes : e.command.kind = kind}

Ledgered == INSTANCE Backbook WITH
  state <- Committed,
  ClientPaths <- {e.command.path : e \in Sent("TradeBooked")},
  ClientTerms <- {e.command.terms :
                    e \in Sent("TradeBooked") \cup Sent("TradeAmended")},
  ClientIds <- {e.command.postingIds :
                  e \in Sent("TradeConfirmed") \cup Sent("TradeAmended")}
               \cup ({e.command.reversalIds :
                        e \in Sent("TradeAmended") \cup Sent("TradeCancelled")}
                     \ {NoReversalIds})

ImplementsDomain == Ledgered!Spec

=============================================================================
