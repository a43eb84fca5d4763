------------------------------ MODULE Console ------------------------------
(***************************************************************************)
(* The browser page (web/src/use-backbook.ts, polling.ts, api-client.ts    *)
(* and the end-of-day button of App.tsx) in front of one service that      *)
(* other clients use as well.                                              *)
(*                                                                         *)
(* A refresh is three reads, answered one by one; refreshes of the poll    *)
(* loop, of the button and of a finished command overlap.  A request ends  *)
(* at the latest with its timeout; the service may still execute it then.  *)
(* The service is reduced to what CommandService promises of it: states    *)
(* with increasing versions, and one effect per command identifier.        *)
(***************************************************************************)
EXTENDS Polling

CONSTANTS
  Trades,          \* the trades other clients confirm
  ValueDate,       \* their value dates
  Endpoints,       \* the three reads
  Buttons,         \* bound on overlapping refreshes of the button
  MaxCommands      \* bound on the command identifiers the page draws

ASSUME ConsoleInputs ==
  /\ ValueDate \in [Trades -> Nat \ {0}]
  /\ {"state"} \subseteq Endpoints
  /\ Buttons \cap {"poll", "command"} = {}
  /\ MaxCommands \in Nat

Origins == {"poll", "command"} \cup Buttons

VARIABLES
  service,         \* the published state
  applied,         \* the commands in the idempotency index
  inbox,           \* requests on their way to the service
  healthy,         \* requests do not fail
  snapshot,        \* what the page shows, or Nothing
  connection,
  refreshes,       \* the running refreshes, by what began them
  latest,          \* whose refresh has the current request sequence
  write,           \* the command execute() is busy with, or Nothing
  pendingEod,      \* the prepared envelope the page keeps, or Nothing
  drawn,           \* the command identifiers drawn so far
  accepted         \* auxiliary: the version answered last, and the identifiers

requests == <<service, applied, inbox, healthy>>
page == <<snapshot, connection, refreshes, latest>>
commands == <<write, pendingEod, drawn, accepted>>
vars == <<polling, requests, page, commands>>

Nothing == [pc |-> "nothing"]
Asked == [answer |-> "pending"]
Answer(state) == [answer |-> "success", state |-> state]
Failure(kind) == [answer |-> kind]

NewRefresh(attempt) == [pc |-> "reading", attempt |-> attempt,
                        reads |-> [e \in Endpoints |-> Asked]]

Init ==
  /\ PollingInit
  /\ service = [version |-> 0, confirmed |-> {}, settled |-> {}]
  /\ applied = {} /\ inbox = {} /\ healthy = TRUE
  /\ snapshot = Nothing /\ connection = "CONNECTING"
  /\ refreshes = [o \in Origins |-> IF o = "poll" /\ visible
                                    THEN NewRefresh(1) ELSE Nothing]
  /\ latest = "poll"
  /\ write = Nothing /\ pendingEod = Nothing /\ drawn = 0
  /\ accepted = [version |-> 0, ids |-> {}]

-----------------------------------------------------------------------------
(* The service and the network.                                            *)

(* Another client confirms a trade.                                        *)
OtherCommand == \E t \in Trades \ (service.confirmed \cup service.settled) :
  /\ service' = [service EXCEPT !.version = @ + 1,
                                !.confirmed = @ \cup {t}]
  /\ UNCHANGED <<polling, applied, inbox, healthy, page, commands>>

Due(state, date) == {t \in state.confirmed : ValueDate[t] <= date}

EodApplied(date) ==
  LET due == Due(service, date)
  IN  IF due = {} THEN service
      ELSE [version |-> service.version + 1,
            confirmed |-> service.confirmed \ due,
            settled |-> service.settled \cup due]

Answered(request, answer) ==
  IF request.awaited THEN [write EXCEPT !.answer = answer] ELSE write

(* The request arrives: it is executed, answered from the index, or        *)
(* refused, whether or not the page still waits for it.                    *)
CommandArrives == \E request \in inbox :
  /\ inbox' = inbox \ {request}
  /\ \/ /\ applied' = applied \cup {request.command}
        /\ service' = IF request.command \in applied THEN service
                      ELSE EodApplied(request.command.date)
        /\ write' = Answered(request, "accepted")
     \/ /\ ~healthy /\ request.command \notin applied
        /\ write' = Answered(request, "problem")
        /\ UNCHANGED <<service, applied>>
  /\ UNCHANGED <<polling, healthy, page, pendingEod, drawn, accepted>>

RequestLost ==
  /\ ~healthy
  /\ \E request \in inbox : inbox' = inbox \ {request}
  /\ UNCHANGED <<polling, service, applied, healthy, page, commands>>

HealthChanges ==
  /\ healthy' = ~healthy
  /\ UNCHANGED <<polling, service, applied, inbox, page, commands>>

IsAsked(o, e) == refreshes[o].pc = "reading" /\ refreshes[o].reads[e] = Asked

Answers(o, e, answer) ==
  /\ IsAsked(o, e)
  /\ refreshes' = [refreshes EXCEPT ![o].reads[e] = answer]
  /\ UNCHANGED <<polling, requests, snapshot, connection, latest, commands>>

(* A read is answered with the state published now.                        *)
ReadAnswered(o, e) == Answers(o, e, Answer(service))

(* It ends in a timeout or a network error, or in anything else that is    *)
(* not a valid answer.                                                     *)
ReadFails(o, e) ==
  /\ ~healthy
  /\ \E kind \in {"transport", "protocol"} : Answers(o, e, Failure(kind))

-----------------------------------------------------------------------------
(* refreshOnce                                                             *)

Begun(o) == [refreshes EXCEPT ![o] = NewRefresh(1)]

BeginRefresh(o, running) ==
  /\ refreshes' = running
  /\ latest' = o
  /\ connection' = IF snapshot = Nothing THEN "CONNECTING" ELSE "REFRESHING"
  /\ UNCHANGED snapshot

(* combineSnapshots compares versions and fingerprints; as a version is    *)
(* one state of the service, the version stands for both.                  *)
LedgerDiffers(reads) == FALSE          \* mutant of VersionsDiffer
VersionsDiffer(reads) ==
  \E e, f \in Endpoints : reads[e].state.version # reads[f].state.version

Loaded(reads) ==
  LET failed == {e \in Endpoints : reads[e].answer # "success"}
  IN  IF "state" \in failed THEN reads["state"].answer
      ELSE IF failed # {} THEN reads[CHOOSE e \in failed : TRUE].answer
      ELSE IF VersionsDiffer(reads) THEN "mismatch"
      ELSE "success"

IsRead(o) == /\ refreshes[o].pc = "reading"
             /\ \A e \in Endpoints : ~IsAsked(o, e)

(* One mismatch is tried again at once, by a superseded refresh as well.   *)
RetryLoad(o) ==
  /\ IsRead(o)
  /\ Loaded(refreshes[o].reads) = "mismatch" /\ refreshes[o].attempt = 1
  /\ refreshes' = [refreshes EXCEPT ![o] = NewRefresh(2)]
  /\ UNCHANGED <<polling, requests, snapshot, connection, latest, commands>>

AlwaysCurrent(o) == TRUE                           \* mutant of IsCurrent
IsCurrent(o) == latest = o

(* Mutant of StatusAfter: only a transport error changes the status.       *)
StatusOffline(loaded) ==
  CASE loaded = "success" -> "LIVE"
    [] loaded = "transport" -> "OFFLINE"
    [] OTHER -> connection
StatusAfter(loaded) ==
  CASE loaded = "success" -> "LIVE"
    [] loaded = "transport" -> "OFFLINE"
    [] OTHER -> "STALE"

(* The rest of refreshOnce, and of whoever awaits it.  Only the refresh    *)
(* begun last may change the page.                                         *)
RefreshEnds(o) ==
  LET loaded == Loaded(refreshes[o].reads)
      succeeded == loaded = "success" /\ IsCurrent(o)
  IN  /\ IsRead(o)
      /\ loaded = "mismatch" => refreshes[o].attempt = 2
      /\ refreshes' = [refreshes EXCEPT ![o] = Nothing]
      /\ snapshot' = IF succeeded
                     THEN [pc |-> "shown",
                           data |-> [e \in Endpoints |-> refreshes[o].reads[e].state]]
                     ELSE snapshot
      /\ connection' = IF IsCurrent(o) THEN StatusAfter(loaded) ELSE connection
      /\ IF o = "poll" THEN AfterRefresh(succeeded) ELSE UNCHANGED polling
      /\ IF o = "command"
         THEN /\ write' = Nothing
              /\ pendingEod' = IF pendingEod = write.prepared THEN Nothing
                               ELSE pendingEod
         ELSE UNCHANGED <<write, pendingEod>>
      /\ UNCHANGED <<requests, latest, drawn, accepted>>

-----------------------------------------------------------------------------
(* What begins a refresh.                                                  *)

PollTimer ==
  /\ TimerFires
  /\ BeginRefresh("poll", Begun("poll"))
  /\ UNCHANGED <<requests, commands>>

PageHidden == Hide /\ UNCHANGED <<requests, page, commands>>

PageShown ==
  /\ \/ Show(TRUE) /\ BeginRefresh("poll", Begun("poll"))
     \/ Show(FALSE) /\ UNCHANGED page
  /\ UNCHANGED <<requests, commands>>

RefreshButton(b) ==
  /\ visible
  /\ connection \notin {"CONNECTING", "REFRESHING"}
  /\ refreshes[b] = Nothing
  /\ BeginRefresh(b, Begun(b))
  /\ UNCHANGED <<polling, requests, commands>>

-----------------------------------------------------------------------------
(* The end-of-day button and execute().                                    *)

Shown == snapshot.data["state"]
EodDate == Max({ValueDate[t] : t \in Shown.confirmed})

(* prepareCommandSubmission keys an envelope by its signature, the date.   *)
SameIdentifier(date) ==                            \* mutant of NewEnvelope
  [pc |-> "prepared", id |-> 1, date |-> date, due |-> Due(Shown, date)]
NewEnvelope(date) == [pc |-> "prepared", id |-> drawn + 1, date |-> date,
                      due |-> Due(Shown, date)]
FreshEnvelope(date) == NewEnvelope(date)           \* mutant of Prepared
Prepared(date) ==
  IF pendingEod # Nothing /\ pendingEod.date = date
  THEN pendingEod ELSE NewEnvelope(date)

Request(prepared) ==
  [command |-> [id |-> prepared.id, date |-> prepared.date], awaited |-> TRUE]

RunEod ==
  /\ visible /\ connection = "LIVE" /\ write = Nothing
  /\ Shown.confirmed # {}
  /\ LET prepared == Prepared(EodDate)
     IN  /\ prepared.id <= MaxCommands
         /\ pendingEod' = prepared
         /\ drawn' = IF prepared.id > drawn THEN prepared.id ELSE drawn
         /\ write' = [pc |-> "posting", prepared |-> prepared,
                      answer |-> "pending", due |-> Due(Shown, prepared.date)]
         /\ inbox' = inbox \cup {Request(prepared)}
  /\ UNCHANGED <<polling, service, applied, healthy, page, accepted>>

(* An accepted command is followed by a refresh of its own.                *)
CommandAccepted ==
  /\ write.pc = "posting" /\ write.answer = "accepted"
  /\ write' = [write EXCEPT !.pc = "refreshing"]
  /\ accepted' = [version |-> service.version,
                  ids |-> accepted.ids \cup {write.prepared.id}]
  /\ BeginRefresh("command", Begun("command"))
  /\ UNCHANGED <<polling, requests, pendingEod, drawn>>

CommandRefused ==
  /\ write.pc = "posting" /\ write.answer = "problem"
  /\ write' = Nothing
  /\ UNCHANGED <<polling, requests, page, pendingEod, drawn, accepted>>

Disconnected == ~healthy                           \* mutant of Unanswered
Unanswered == \/ ~healthy
              \/ write.answer = "pending" /\ \A r \in inbox : ~r.awaited

(* The timeout, or no connection: the answer, if any, is lost.  An answer  *)
(* that cannot be read leaves the connection as it is.                     *)
CommandGivenUp ==
  /\ write.pc = "posting" /\ Unanswered
  /\ write' = Nothing
  /\ inbox' = {[r EXCEPT !.awaited = FALSE] : r \in inbox}
  /\ connection' \in {"OFFLINE", connection}
  /\ UNCHANGED <<polling, service, applied, healthy, snapshot, refreshes,
                 latest, pendingEod, drawn, accepted>>

-----------------------------------------------------------------------------
ReadEnds(o) == \E e \in Endpoints : ReadAnswered(o, e) \/ ReadFails(o, e)

Next ==
  \/ OtherCommand \/ CommandArrives \/ RequestLost \/ HealthChanges
  \/ \E o \in Origins : ReadEnds(o) \/ RetryLoad(o) \/ RefreshEnds(o)
  \/ PollTimer \/ PageHidden \/ PageShown
  \/ \E b \in Buttons : RefreshButton(b)
  \/ RunEod \/ CommandAccepted \/ CommandRefused \/ CommandGivenUp

Spec == Init /\ [][Next]_vars

(* Requests are answered or end with their timeout, promises and timers    *)
(* that are due run; what people, other clients and the network do may     *)
(* never happen.                                                           *)
Fairness ==
  /\ \A o \in Origins : /\ WF_vars(ReadEnds(o))
                       /\ WF_vars(RetryLoad(o)) /\ WF_vars(RefreshEnds(o))
  /\ WF_vars(PollTimer)
  /\ WF_vars(CommandArrives)
  /\ WF_vars(CommandAccepted \/ CommandRefused \/ CommandGivenUp)

FairSpec == Spec /\ Fairness

-----------------------------------------------------------------------------
(* The three parts the page shows are one state of the service, although   *)
(* other clients commit between the reads (loadSnapshot and                *)
(* combineSnapshots).                                                      *)
SnapshotIsCoherent ==
  snapshot # Nothing =>
    \A e \in Endpoints : snapshot.data[e] = Shown

(* The page never goes back to an older state, however the refreshes of    *)
(* the poll, the button and a command overlap and whichever of them is     *)
(* answered last (the request sequence of refreshOnce).                    *)
DashboardMovesForward ==
  [][snapshot # Nothing => Shown'.version >= Shown.version]_snapshot

(* A page that says LIVE shows at least the state that the last accepted   *)
(* command of this page produced: no read begun before the command may     *)
(* undo it on the screen.                                                  *)
ReadYourWrites ==
  connection = "LIVE" => snapshot # Nothing /\ Shown.version >= accepted.version

(* A page that is waiting says so only while the refresh it waits for is   *)
(* running: the buttons, which a refreshing page disables, are never       *)
(* locked for good.                                                        *)
RefreshingMeansRunning ==
  connection = "REFRESHING" => refreshes[latest].pc = "reading"

(* Retrying an end of day that got no answer has no second effect: of two  *)
(* consecutive commands of one date that were both executed, the page was  *)
(* told of the first (prepareCommandSubmission and the idempotency index). *)
RetryHasOneEffect == \A c, d \in applied :
  d.id = c.id + 1 /\ d.date = c.date => c.id \in accepted.ids

(* An end of day reported as done has settled every trade that was on the  *)
(* screen and due when its envelope was made.                              *)
AcknowledgedEodSettlesFirstDue ==
  write.pc = "refreshing" => write.prepared.due \cap service.confirmed = {}

(* The same of the trades due on the screen when the button was pressed:   *)
(* "End-of-day processing settles eligible confirmed versions"             *)
(* (docs/architecture.md:126).  It fails for a kept envelope.              *)
AcknowledgedEodSettles ==
  write.pc = "refreshing" => write.due \cap service.confirmed = {}

(* A command ends, with an answer or without, so that the page accepts the *)
(* next one (writeInFlight).                                               *)
WriteEnds == write # Nothing ~> write = Nothing

(* On a visible page and a network that works the page catches up with     *)
(* the service and stays there once the other clients are quiet, whatever  *)
(* failed before (backoff of the poll loop, one retry of a mismatch), and  *)
(* it is LIVE again and again, so that commands can be given.              *)
CatchesUp ==
  <>[](healthy /\ visible) =>
    /\ <>[](snapshot # Nothing /\ \A e \in Endpoints : snapshot.data[e] = service)
    /\ []<>(connection = "LIVE")

=============================================================================
