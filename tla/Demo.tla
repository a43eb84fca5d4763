-------------------------------- MODULE Demo --------------------------------
(***************************************************************************)
(* The start of the server (src/server/main.cpp) and its demo              *)
(* (src/server/demo.cpp, demo/day1.jsonl): main opens a journal, replays   *)
(* it, and with --demo executes the seed and verifies what came of it      *)
(* before it listens.                                                      *)
(*                                                                         *)
(* Amounts are in units of 125 minor units, of which every amount in the   *)
(* seed and in the limits is a multiple.  Dates are days of July 2026.     *)
(***************************************************************************)
EXTENDS CommandService, TLC

CONSTANT main           \* the thread of main(); the others serve HTTP

ASSUME MainIsAThread == main \in Threads

PathA == [counterparty |-> "CPTY-A", nettingSet |-> "NET-A", book |-> "BOOK-FX-1"]
PathB == [counterparty |-> "CPTY-B", nettingSet |-> "NET-B", book |-> "BOOK-FX-2"]

(* canonical_demo_limits: the value of Capacity.                           *)
GroupLimit(currency, amount) == <<Nodes(PathA)[1], currency>> :> amount

PathLimits(path, currency, counterparty, nettingSet, book) ==
  <<Nodes(path)[2], currency>> :> counterparty @@
  <<Nodes(path)[3], currency>> :> nettingSet @@
  <<Nodes(path)[4], currency>> :> book

DemoCapacity ==
  GroupLimit("USD", 400000) @@ PathLimits(PathA, "USD", 240000, 160000, 120000)
                            @@ PathLimits(PathB, "USD", 240000, 160000, 120000) @@
  GroupLimit("JPY", 40000000) @@ PathLimits(PathA, "JPY", 16000000, 16000000, 16000000)
                              @@ PathLimits(PathB, "JPY", 16000000, 16000000, 16000000) @@
  GroupLimit("KWD", 8000000) @@ PathLimits(PathA, "KWD", 4000000, 4000000, 4000000)
                             @@ PathLimits(PathB, "KWD", 4000000, 4000000, 4000000)

-----------------------------------------------------------------------------
(* demo/day1.jsonl                                                         *)
Cash(currency, amount) == [currency |-> currency, amount |-> amount]
Ids(block) == [line \in 1..4 |-> <<block, line>>]

Line(id, command) == [commandId |-> id, command |-> command]

BookLine(id, trade, path, valueDate, pay, receive) ==
  Line(id, [kind |-> "TradeBooked", tradeId |-> trade, path |-> path,
            terms |-> [pay |-> pay, receive |-> receive, valueDate |-> valueDate]])

ConfirmLine(id, trade, block) ==
  Line(id, [kind |-> "TradeConfirmed", tradeId |-> trade, expectedVersion |-> 1,
            postingIds |-> Ids(block)])

Seed ==
  << BookLine("CMD-BOOK-1001", "TRD-1001", PathA, 29,
              Cash("USD", 80000), Cash("JPY", 120000)),
     ConfirmLine("CMD-CONFIRM-1001-V1", "TRD-1001", "PST-1001-V1"),
     Line("CMD-AMEND-1001-V2",
          [kind |-> "TradeAmended", tradeId |-> "TRD-1001", expectedVersion |-> 1,
           terms |-> [pay |-> Cash("USD", 81000), receive |-> Cash("JPY", 121500),
                      valueDate |-> 29],
           reversalIds |-> Ids("PST-1001-V1-REV"),
           postingIds |-> Ids("PST-1001-V2")]),
     BookLine("CMD-BOOK-1002", "TRD-1002", PathA, 29,
              Cash("USD", 48000), Cash("JPY", 72000)),
     ConfirmLine("CMD-CONFIRM-1002-LIMIT", "TRD-1002", "PST-1002-V1"),
     BookLine("CMD-BOOK-1003", "TRD-1003", PathB, 27,
              Cash("JPY", 16000), Cash("KWD", 286001)),
     ConfirmLine("CMD-CONFIRM-1003-V1", "TRD-1003", "PST-1003-V1"),
     Line("CMD-EOD-2026-07-27", [kind |-> "EodRun", asOf |-> 27]) >>

(* The identifiers of the seed's posting blocks.                           *)
DemoPostingIds ==
  {"PST-1001-V1", "PST-1001-V1-REV", "PST-1001-V2", "PST-1002-V1", "PST-1003-V1"}
  \X (1..4)

-----------------------------------------------------------------------------
VARIABLES
  startup,      \* "off", "opening", "recovering", "seeding" or "listening"
  demo,         \* the option --demo
  report        \* SeedRunReport: an outcome per line

demoVars == <<vars, startup, demo, report>>

DemoInit == Init /\ startup = "off" /\ demo = FALSE /\ report = <<>>

(* The process ends, with startError as its last word.                     *)
Exit == startup' = "off" /\ report' = <<>> /\ UNCHANGED demo

(* --demo takes a journal in a directory of its own, which it creates, so  *)
(* it is empty; without it main opens the journal that is there.           *)
ChooseJournal ==
  /\ startup = "off"
  /\ demo' \in BOOLEAN
  /\ IF demo' THEN file' = <<>> /\ past' = <<InitialState>>
              ELSE UNCHANGED <<file, past>>
  /\ startup' = "opening"
  /\ UNCHANGED <<phase, startError, recovered, service, threads, seen, report>>

Open ==
  /\ startup = "opening"
  /\ Create
  /\ startup' = IF startError' = Ok THEN "recovering" ELSE "off"
  /\ UNCHANGED <<demo, report>>

Recover ==
  /\ startup = "recovering"
  /\ ReplayBatch \/ FinishRecovery
  /\ startup' = CASE phase' = "down"       -> "off"
                  [] phase' = "recovering" -> "recovering"
                  [] phase' = "serving"    -> IF demo THEN "seeding" ELSE "listening"
  /\ UNCHANGED <<demo, report>>

(* run_seed_file executes one line after the other, through execute().     *)
ExecuteLine ==
  /\ startup = "seeding" /\ Len(report) < Len(Seed)
  /\ CallWith(main, Seed[Len(report) + 1])
  /\ UNCHANGED <<startup, demo, report>>

ExecuteStep ==
  /\ startup = "seeding"
  /\ Work(main)
  /\ UNCHANGED <<startup, demo, report>>

(* Mutant of IsRejection: any error counts as a rejection.                 *)
AnyError(code) == code # Ok
IsRejection(code) == code = "DomainRejected"

(* LimitError of a confirmation that fails: the first node, from the root, *)
(* without room, what the trade requires of it and what remains there.     *)
LimitErrorOf(s, c) ==
  LET trade == CurrentTrade(s, c.tradeId)
      pay == trade.terms.pay
      Remaining(key) == Capacity[key] - s.limits[key]
      short == {level \in 1..4 : pay.amount > Remaining(PathKey(trade.path, pay, level))}
      key == PathKey(trade.path, pay, Min(short))
  IN  [code |-> "Breach", key |-> key, required |-> pay.amount,
       remaining |-> Remaining(key)]

(* What the report keeps of a rejection.                                   *)
RejectionOf(s, c, stateError) ==
  IF stateError = "Breach" THEN LimitErrorOf(s, c) ELSE [code |-> stateError]

Accepted == [code |-> Ok]

RecordLine ==
  LET answer == threads[main]
  IN  /\ startup = "seeding" /\ answer.pc = "answered"
      /\ \/ /\ answer.code = Ok
            /\ report' = Append(report, Accepted)
            /\ Return(main) /\ UNCHANGED <<startup, demo>>
         \/ /\ answer.code # Ok /\ IsRejection(answer.code)
            /\ report' = Append(report, RejectionOf(snapshot, answer.request.command,
                                                    answer.stateError))
            /\ Return(main) /\ UNCHANGED <<startup, demo>>
         \/ /\ answer.code # Ok /\ ~IsRejection(answer.code)
            /\ Stop(answer.code) /\ Exit /\ UNCHANGED <<file, past>>

(* The seed file is not found, or cannot be read to its end.               *)
SeedUnreadable ==
  /\ startup = "seeding" /\ threads[main] = Idle
  /\ Stop("ReadFailed") /\ Exit
  /\ UNCHANGED <<file, past>>

-----------------------------------------------------------------------------
(* verify_canonical_demo, but for the fingerprint of the state.            *)
BookNode == <<Nodes(PathA)[4], "USD">>

IsExpectedLimitRejection(outcome) ==
  outcome = [code |-> "Breach", key |-> BookNode, required |-> 48000,
             remaining |-> 39000]

StateMatchesCanonicalDemo(s) ==
  /\ DOMAIN s.trades = {<<"TRD-1001", 1>>, <<"TRD-1001", 2>>,
                        <<"TRD-1002", 1>>, <<"TRD-1003", 1>>}
  /\ LET superseded == s.trades[<<"TRD-1001", 1>>]
         trade == CurrentTrade(s, "TRD-1001")
     IN  /\ trade.version = 2 /\ trade.state = "Confirmed"
         /\ trade.terms.pay.amount = 81000 /\ trade.terms.receive.amount = 121500
         /\ superseded.state = "Superseded" /\ superseded.supersededBy = 2
         /\ trade.supersedes = 1
  /\ CurrentTrade(s, "TRD-1002").state = "Captured"
  /\ CurrentTrade(s, "TRD-1003").state = "Settled"
  /\ Capacity[BookNode] - s.limits[BookNode] = 39000
  /\ s.version = 7
  /\ Len(s.ledgerEntries) = 4 /\ Cardinality(s.postingIds) = 16
  /\ Cardinality(s.settlements) = 2
  /\ {o.direction : o \in s.settlements} = Directions
  /\ RecomputedTotals(s) = s.ledgerTotals

VerificationError ==
  LET rejections == SelectSeq(report, LAMBDA outcome : outcome # Accepted)
  IN     Fail(Len(report) # 8 \/ Len(rejections) # 1, "UnexpectedCommandCounts")
      ?? Fail(~IsExpectedLimitRejection(rejections[1]), "UnexpectedRejection")
      ?? Fail(~StateMatchesCanonicalDemo(snapshot), "UnexpectedState")

Verify ==
  /\ startup = "seeding" /\ Len(report) = Len(Seed)
  /\ IF VerificationError = Ok
     THEN /\ startup' = "listening"
          /\ UNCHANGED <<vars, demo, report>>
     ELSE /\ Stop(VerificationError) /\ Exit
          /\ UNCHANGED <<file, past>>

(* Requests are answered only while the server listens.                    *)
Serve ==
  /\ startup = "listening"
  /\ \E t \in Threads \ {main} : Execute(t)
  /\ UNCHANGED <<startup, demo, report>>

(* The process ends: it is stopped, or cannot bind its listener.           *)
End == Crash /\ Exit

DemoNext ==
  \/ ChooseJournal \/ Open \/ Recover
  \/ ExecuteLine \/ ExecuteStep \/ RecordLine \/ SeedUnreadable \/ Verify
  \/ Serve \/ End

DemoSpec == DemoInit /\ [][DemoNext]_demoVars

-----------------------------------------------------------------------------
(* The demo either starts as it is documented or fails for its resources:  *)
(* the seed, driven through the real rules of limits, ledger and netting,  *)
(* reaches the verified state whatever crashed before, and no other error  *)
(* ends a start.  The journal never has anything of the seed out of order, *)
(* so that the one a failed demo leaves behind replays to a prefix of it.  *)
DemoStartsCanonical ==
  LET requests == [i \in DOMAIN Journal |-> Journal[i].request]
      IsAccepted(line) == line.commandId # "CMD-CONFIRM-1002-LIMIT"
      accepted == SelectSeq(Seed, IsAccepted)
  IN  /\ startError \in {Ok, "StoreFailure", "JournalUnavailable", "ReadFailed"}
      /\ demo /\ startup # "listening" => IsPrefix(requests, accepted)
      /\ demo /\ startup = "listening" => IsPrefix(accepted, requests)

=============================================================================
