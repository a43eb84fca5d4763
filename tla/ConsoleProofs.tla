---------------------------- MODULE ConsoleProofs ----------------------------
(***************************************************************************)
(* Theorems about the browser console: for any trades, value dates, reads  *)
(* per refresh, number of overlapping refreshes and number of commands.    *)
(*                                                                         *)
(* The inductive invariant has three parts that do not depend on each      *)
(* other's details: the poll loop, what the page shows, and the envelopes. *)
(* The second speaks of all states the service ever published, through a   *)
(* function h that has the state of each version.                          *)
(***************************************************************************)
EXTENDS Console, DataLemmas

-----------------------------------------------------------------------------
(* The poll loop.  That a set of numbers has a smallest one gives what the *)
(* recursion of Backoff computes.                                          *)

Doubling(f, n) ==
  f = [k \in 0..n |-> IF k = 0 THEN BasePollingDelay ELSE 2 * f[k - 1]]

LEMMA DoublingExists ==
  ASSUME NEW N \in Nat
  PROVE  \E f : Doubling(f, N)
<1> DEFINE T == {n \in Nat : ~ \E f : Doubling(f, n)}
<1>1. SUFFICES ASSUME T # {} PROVE FALSE
  OBVIOUS
<1>2. PICK n \in T : \A m \in T : n <= m
  <2>1. T \in SUBSET Nat
    OBVIOUS
  <2> HIDE DEF T
  <2> QED BY <1>1, <2>1, SmallestNumber
<1>3. CASE n = 0
  <2>1. Doubling([k \in 0..0 |-> BasePollingDelay], 0)
    BY DEF Doubling
  <2> QED BY <1>2, <1>3, <2>1
<1>4. CASE n # 0
  <2>1. n - 1 \in Nat /\ n - 1 \notin T
    BY <1>2, <1>4
  <2>2. PICK f : Doubling(f, n - 1)
    BY <2>1
  <2> DEFINE g == [k \in 0..n |-> IF k = n THEN 2 * f[n - 1] ELSE f[k]]
  <2>3. \A k \in 0..(n - 1) :
          f[k] = IF k = 0 THEN BasePollingDelay ELSE 2 * f[k - 1]
    BY <2>2 DEF Doubling
  <2>4. ASSUME NEW k \in 0..n
        PROVE  g[k] = IF k = 0 THEN BasePollingDelay ELSE 2 * g[k - 1]
    <3>1. CASE k = n
      BY <1>2, <1>4, <3>1
    <3>2. CASE k # n
      BY <1>2, <1>4, <2>3, <3>2
    <3> QED BY <3>1, <3>2
  <2>5. Doubling(g, n)
    BY <2>4 DEF Doubling
  <2> QED BY <1>2, <2>5
<1> QED BY <1>3, <1>4

LEMMA DelayIsPositive ==
  ASSUME NEW failures \in 0..MaximumExponent
  PROVE  PollingDelay(failures) \in Nat \ {0}
<1>1. MaximumExponent \in Nat /\ BasePollingDelay \in Nat \ {0}
      /\ MaximumPollingDelay \in Nat \ {0}
  BY PollingDelays
<1>2. Doubling(Backoff, MaximumExponent)
  <2>1. Backoff = CHOOSE f : Doubling(f, MaximumExponent)
    BY DEF Backoff, Doubling
  <2> QED BY <1>1, <2>1, DoublingExists
<1>3. \A n \in 0..MaximumExponent :
        Backoff[n] = IF n = 0 THEN BasePollingDelay ELSE 2 * Backoff[n - 1]
  BY <1>2 DEF Doubling
<1> DEFINE T == {n \in 0..MaximumExponent : Backoff[n] \notin Nat \ {0}}
<1>4. T = {}
  <2>1. SUFFICES ASSUME T # {} PROVE FALSE
    OBVIOUS
  <2>2. PICK n \in T : \A m \in T : n <= m
    <3>1. T \in SUBSET Nat
      BY <1>1
    <3> HIDE DEF T
    <3> QED BY <2>1, <3>1, SmallestNumber
  <2>3. CASE n = 0
    BY <1>1, <1>3, <2>2, <2>3
  <2>4. CASE n # 0
    <3>1. n - 1 \in 0..MaximumExponent /\ n - 1 \notin T
      BY <1>1, <2>2, <2>4
    <3>2. Backoff[n - 1] \in Nat \ {0}
      BY <3>1
    <3> QED BY <1>1, <1>3, <2>2, <2>4, <3>2
  <2> QED BY <2>3, <2>4
<1>5. Backoff[failures] \in Nat \ {0}
  BY <1>4
<1>6. PICK a, b : a = Backoff[failures] /\ b = MaximumPollingDelay
  OBVIOUS
<1>7. a \in Nat \ {0} /\ b \in Nat \ {0}
  BY <1>1, <1>5, <1>6
<1>8. Min({a, b}) \in {a, b}
  <2>1. \E x \in {a, b} : \A y \in {a, b} : x <= y
    BY <1>7
  <2> QED BY <2>1 DEF Min
<1> QED BY <1>6, <1>7, <1>8 DEF PollingDelay

PollInv ==
  /\ PollingNeverStalls
  /\ visible \in BOOLEAN /\ refreshInFlight \in BOOLEAN
  /\ consecutiveFailures \in 0..MaximumExponent

LEMMA FailuresStay ==
  ASSUME NEW n \in 0..MaximumExponent
  PROVE  Min({n + 1, MaximumExponent}) \in 0..MaximumExponent
<1>1. MaximumExponent \in Nat
  BY PollingDelays
<1>2. PICK a, b : a = n + 1 /\ b = MaximumExponent
  OBVIOUS
<1>3. a \in Nat /\ b \in Nat
  BY <1>1, <1>2
<1>4. Min({a, b}) \in {a, b} /\ Min({a, b}) <= b
  <2>1. \E x \in {a, b} : \A y \in {a, b} : x <= y
    BY <1>3
  <2> QED BY <2>1 DEF Min
<1> QED BY <1>1, <1>2, <1>3, <1>4

LEMMA AfterRefreshPolls ==
  ASSUME PollInv, NEW succeeded \in BOOLEAN, AfterRefresh(succeeded)
  PROVE  PollInv'
<1> DEFINE failures == IF succeeded THEN 0
                       ELSE Min({consecutiveFailures + 1, MaximumExponent})
<1>1. failures \in 0..MaximumExponent
  BY PollingDelays, FailuresStay DEF PollInv
<1>2. PICK n \in 0..MaximumExponent : n = failures
  BY <1>1
<1> HIDE DEF failures
<1>3. /\ refreshInFlight' = FALSE /\ consecutiveFailures' = n
      /\ visible' = visible
      /\ timer' = IF visible THEN PollingDelay(n) ELSE NoTimer
  BY <1>2 DEF AfterRefresh, failures, Schedule
<1>4. PollingDelay(n) # NoTimer
  BY DelayIsPositive DEF NoTimer
<1> QED BY <1>3, <1>4 DEF PollInv, PollingNeverStalls

LEMMA PollStep ==
  ASSUME PollInv, [Next]_vars
  PROVE  PollInv'
<1>1. CASE UNCHANGED polling
  BY <1>1 DEF polling, PollInv, PollingNeverStalls
<1>2. ASSUME NEW o \in Origins, RefreshEnds(o) PROVE PollInv'
  <2>1. UNCHANGED polling \/ \E b \in BOOLEAN : AfterRefresh(b)
    BY <1>2 DEF RefreshEnds
  <2> QED BY <1>1, <2>1, AfterRefreshPolls
<1>3. CASE PollTimer
  BY <1>3 DEF PollTimer, TimerFires, StartsRefresh, PollInv, PollingNeverStalls
<1>4. CASE PageHidden
  BY <1>4 DEF PageHidden, Hide, PollInv, PollingNeverStalls
<1>5. CASE PageShown
  BY <1>5 DEF PageShown, Show, PollInv, PollingNeverStalls
<1>6. CASE [Next]_vars /\ ~PollTimer /\ ~PageHidden /\ ~PageShown
           /\ ~ \E o \in Origins : RefreshEnds(o)
  <2>1. UNCHANGED polling
    BY <1>6 DEF Next, vars, OtherCommand, CommandArrives, RequestLost,
                HealthChanges, ReadEnds, ReadAnswered, ReadFails, Answers,
                RetryLoad, RefreshButton, RunEod, CommandAccepted,
                CommandRefused, CommandGivenUp
  <2> QED BY <1>1, <2>1
<1> QED BY <1>2, <1>3, <1>4, <1>5, <1>6

-----------------------------------------------------------------------------
(* The page.                                                               *)

(* x is a state the service published: the one of its version.             *)
WasPublished(x, h) ==
  /\ x.version \in 0..service.version
  /\ x = h[x.version]
  /\ x.confirmed \subseteq service.confirmed \cup service.settled

ServiceOK(h) ==
  /\ service = [version |-> service.version, confirmed |-> service.confirmed,
                settled |-> service.settled]
  /\ service.version \in Nat /\ service = h[service.version]
  /\ service.confirmed \cap service.settled = {}

(* The answers of the refresh that was begun last are newer than what is   *)
(* on the screen and than the last accepted command.                       *)
ReadsOK(o, h) ==
  LET reads == refreshes[o].reads
  IN  /\ reads = [e \in Endpoints |-> reads[e]]
      /\ \A e \in Endpoints : reads[e].answer = "success" =>
           /\ WasPublished(reads[e].state, h)
           /\ o = latest => /\ reads[e].state.version >= accepted.version
                            /\ snapshot # Nothing =>
                                 reads[e].state.version >= Shown.version

RefreshesOK(h) ==
  /\ refreshes = [o \in Origins |-> refreshes[o]]
  /\ latest \in Origins
  /\ \A o \in Origins : refreshes[o].pc = "reading" =>
       /\ refreshes[o] = [pc |-> "reading", attempt |-> refreshes[o].attempt,
                          reads |-> refreshes[o].reads]
       /\ ReadsOK(o, h)

SnapshotOK(h) ==
  snapshot # Nothing =>
    /\ snapshot = [pc |-> "shown", data |-> snapshot.data]
    /\ \A e \in Endpoints : snapshot.data[e] = Shown
    /\ WasPublished(Shown, h)

ConnectionOK ==
  /\ connection = "LIVE" => snapshot # Nothing /\ Shown.version >= accepted.version
  /\ connection = "REFRESHING" => refreshes[latest].pc = "reading"
  /\ accepted.version \in 0..service.version

PageInv(h) == ServiceOK(h) /\ RefreshesOK(h) /\ SnapshotOK(h) /\ ConnectionOK

-----------------------------------------------------------------------------
(* The envelopes.                                                          *)

Command(prepared) == [id |-> prepared.id, date |-> prepared.date]

(* The commands the service knows of or may still be sent.                 *)
Pending == {Command(p) : p \in {pendingEod} \ {Nothing}}
Posted == applied \cup {r.command : r \in inbox} \cup Pending

EnvelopeOK ==
  /\ drawn \in Nat
  /\ pendingEod = Nothing => drawn = 0 \/ drawn \in accepted.ids
  /\ pendingEod # Nothing =>
       /\ pendingEod.pc = "prepared"
       /\ pendingEod.id = drawn /\ drawn > 0
       /\ pendingEod.due \subseteq service.confirmed \cup service.settled
       /\ \A t \in pendingEod.due : ValueDate[t] <= pendingEod.date
       /\ Command(pendingEod) \in applied => pendingEod.due \subseteq service.settled

PostedOK ==
  /\ \A c \in Posted :
       /\ c = [id |-> c.id, date |-> c.date]
       /\ c.id \in 1..drawn
       /\ c.id = drawn /\ pendingEod # Nothing => c.date = pendingEod.date
  /\ \A c, d \in Posted : d.id = c.id + 1 /\ d.date = c.date => c.id \in accepted.ids

InboxOK ==
  \A r \in inbox :
    /\ r = [command |-> r.command, awaited |-> r.awaited]
    /\ r.awaited \in BOOLEAN
    /\ r.awaited => /\ write.pc = "posting" /\ write.answer = "pending"
                    /\ r.command = Command(write.prepared)

WriteOK ==
  /\ write # Nothing =>
       /\ write = [pc |-> write.pc, prepared |-> write.prepared,
                   answer |-> write.answer, due |-> write.due]
       /\ write.pc \in {"posting", "refreshing"}
       /\ pendingEod # Nothing /\ write.prepared = pendingEod
       /\ write.answer = "accepted" => Command(write.prepared) \in applied
       /\ write.pc = "refreshing" => /\ write.answer = "accepted"
                                     /\ write.prepared.id \in accepted.ids
  /\ refreshes["command"].pc = "reading" <=> write.pc = "refreshing"

WriteInv == EnvelopeOK /\ PostedOK /\ InboxOK /\ WriteOK

-----------------------------------------------------------------------------
(* What the steps do to the page.                                          *)

LEMMA NothingIsNotShown ==
  /\ Nothing.pc = "nothing"
  /\ Asked.answer = "pending"
  /\ \A n : NewRefresh(n) = [pc |-> "reading", attempt |-> n,
                             reads |-> [e \in Endpoints |-> Asked]]
BY DEF Nothing, Asked, NewRefresh

(* The service goes from one state to the next; the page does not notice.  *)
Advances ==
  /\ service' = [version |-> service.version + 1, confirmed |-> service'.confirmed,
                 settled |-> service'.settled]
  /\ service'.confirmed \cap service'.settled = {}
  /\ service.confirmed \cup service.settled
       \subseteq service'.confirmed \cup service'.settled

LEMMA PageStays ==
  ASSUME NEW h, PageInv(h), UNCHANGED <<service, page, accepted>>
  PROVE  PageInv(h)'
BY DEF page, PageInv, ServiceOK, RefreshesOK, ReadsOK, SnapshotOK, ConnectionOK,
       WasPublished, Shown

LEMMA PageKeepsUp ==
  ASSUME NEW h, PageInv(h), Advances, UNCHANGED <<page, accepted>>
  PROVE  \E g : PageInv(g)'
<1>1. PICK v \in Nat : v = service.version
  BY DEF PageInv, ServiceOK
<1>2. PICK s : s = service' /\ s.version = v + 1
  BY <1>1 DEF Advances
<1> DEFINE g == [n \in 0..(v + 1) |-> IF n = v + 1 THEN s ELSE h[n]]
<1>3. ASSUME NEW x, WasPublished(x, h) PROVE WasPublished(x, g)'
  <2>1. x.version \in 0..v /\ x = h[x.version]
        /\ x.confirmed \subseteq s.confirmed \cup s.settled
    BY <1>1, <1>2, <1>3 DEF WasPublished, Advances
  <2>2. x.version \in 0..(v + 1) /\ x.version # v + 1
    BY <1>1, <2>1
  <2>3. g[x.version] = x
    BY <2>1, <2>2
  <2> HIDE DEF g
  <2> QED BY <1>2, <2>1, <2>2, <2>3 DEF WasPublished
<1>4. g[v + 1] = s
  BY <1>1
<1> HIDE DEF g
<1>5. PICK f : f = g
  OBVIOUS
<1>6. ServiceOK(f)'
  <2>1. service'.version = v + 1 /\ service' = f[service'.version]
    BY <1>2, <1>4, <1>5
  <2> QED BY <1>1, <1>2, <2>1 DEF ServiceOK, Advances
<1>7. ASSUME NEW x, WasPublished(x, h) PROVE WasPublished(x, f)'
  <2>1. WasPublished(x, g)'
    BY <1>3, <1>7
  <2> QED BY <1>5, <2>1 DEF WasPublished
<1>8. /\ refreshes' = refreshes /\ latest' = latest /\ snapshot' = snapshot
      /\ connection' = connection /\ accepted' = accepted
  BY DEF page
<1>9. RefreshesOK(f)'
  <2>1. ASSUME NEW o \in Origins, refreshes[o].pc = "reading" PROVE ReadsOK(o, f)'
    <3>1. ReadsOK(o, h)
      BY <2>1 DEF PageInv, RefreshesOK
    <3> QED BY <1>7, <1>8, <3>1 DEF ReadsOK, Shown
  <2> QED BY <1>8, <2>1 DEF PageInv, RefreshesOK
<1>10. SnapshotOK(f)'
  BY <1>7, <1>8 DEF PageInv, SnapshotOK, Shown
<1>11. ConnectionOK'
  <2>1. accepted.version \in 0..v
    BY <1>1 DEF PageInv, ConnectionOK
  <2>2. accepted.version \in 0..(v + 1)
    BY <1>1, <2>1
  <2> QED BY <1>2, <1>8, <2>2 DEF PageInv, ConnectionOK, Shown
<1> QED BY <1>6, <1>9, <1>10, <1>11 DEF PageInv

LEMMA OtherAdvances ==
  ASSUME NEW h, PageInv(h), OtherCommand
  PROVE  Advances
<1>1. PICK t \in Trades \ (service.confirmed \cup service.settled) :
        service' = [service EXCEPT !.version = @ + 1, !.confirmed = @ \cup {t}]
  BY DEF OtherCommand
<1>2. PICK v, confirmed, settled :
        service = [version |-> v, confirmed |-> confirmed, settled |-> settled]
  BY DEF PageInv, ServiceOK
<1>3. service' = [version |-> v + 1, confirmed |-> confirmed \cup {t},
                  settled |-> settled]
  BY <1>1, <1>2
<1>4. confirmed \cap settled = {} /\ t \notin settled
  BY <1>1, <1>2 DEF PageInv, ServiceOK
<1>5. /\ service'.version = v + 1 /\ service'.confirmed = confirmed \cup {t}
      /\ service'.settled = settled
      /\ service.version = v /\ service.confirmed = confirmed
      /\ service.settled = settled
  BY <1>2, <1>3
<1>6. (confirmed \cup {t}) \cap settled = {}
  BY <1>4
<1> QED BY <1>3, <1>5, <1>6 DEF Advances

LEMMA EodAdvances ==
  ASSUME NEW h, PageInv(h), NEW date, service' = EodApplied(date)
  PROVE  service' = service \/ Advances
<1>1. PICK v, confirmed, settled :
        service = [version |-> v, confirmed |-> confirmed, settled |-> settled]
  BY DEF PageInv, ServiceOK
<1>2. PICK due : due = Due(service, date)
  OBVIOUS
<1>3. due \subseteq confirmed
  BY <1>1, <1>2 DEF Due
<1>4. CASE due = {}
  BY <1>2, <1>4 DEF EodApplied
<1>5. CASE due # {}
  <2>1. service' = [version |-> v + 1, confirmed |-> confirmed \ due,
                    settled |-> settled \cup due]
    BY <1>1, <1>2, <1>5 DEF EodApplied
  <2>2. confirmed \cap settled = {}
    BY <1>1 DEF PageInv, ServiceOK
  <2> QED BY <1>1, <1>3, <2>1, <2>2 DEF Advances
<1> QED BY <1>4, <1>5

LEMMA ServicePage ==
  ASSUME NEW h, PageInv(h), OtherCommand \/ CommandArrives
  PROVE  \E g : PageInv(g)'
<1>1. UNCHANGED <<page, accepted>>
  BY DEF OtherCommand, CommandArrives, commands
<1>2. service' = service \/ Advances
  <2>1. CASE OtherCommand
    BY <2>1, OtherAdvances
  <2>2. CASE CommandArrives
    <3>1. service' = service \/ \E request \in inbox :
            service' = EodApplied(request.command.date)
      BY <2>2 DEF CommandArrives
    <3> QED BY <3>1, EodAdvances
  <2> QED BY <2>1, <2>2
<1> QED BY <1>1, <1>2, PageStays, PageKeepsUp

(* A refresh gets an answer.                                               *)
LEMMA AnswerPage ==
  ASSUME NEW h, PageInv(h), NEW o \in Origins, NEW e \in Endpoints, NEW answer,
         answer = Answer(service) \/ answer.answer # "success",
         Answers(o, e, answer)
  PROVE  PageInv(h)'
<1>1. PICK reads, attempt :
        refreshes[o] = [pc |-> "reading", attempt |-> attempt, reads |-> reads]
  BY DEF PageInv, RefreshesOK, Answers, IsAsked
<1>2. PICK other : other = [reads EXCEPT ![e] = answer]
  OBVIOUS
<1>3. ReadsOK(o, h) /\ refreshes[o].reads = reads
  BY <1>1 DEF PageInv, RefreshesOK
<1>4. reads = [f \in Endpoints |-> reads[f]]
  BY <1>3 DEF ReadsOK
<1>5. /\ other = [f \in Endpoints |-> other[f]]
      /\ other[e] = answer /\ \A f \in Endpoints \ {e} : other[f] = reads[f]
  BY <1>2, <1>4
<1>6. PICK next : next = [pc |-> "reading", attempt |-> attempt, reads |-> other]
  OBVIOUS
<1>7. /\ refreshes' = [o2 \in Origins |-> refreshes'[o2]]
      /\ refreshes'[o] = next
      /\ \A o2 \in Origins \ {o} : refreshes'[o2] = refreshes[o2]
  BY <1>1, <1>2, <1>6 DEF Answers, PageInv, RefreshesOK
<1>8. UNCHANGED <<service, snapshot, connection, latest, accepted>>
  BY DEF Answers, requests, commands
<1>9. ASSUME answer.answer = "success"
      PROVE  /\ answer.state = service /\ WasPublished(service, h)
             /\ service.version >= accepted.version
             /\ snapshot # Nothing => service.version >= Shown.version
  <2>1. answer.state = service
    BY <1>9 DEF Answer
  <2>2. service.version \in Nat
    BY DEF PageInv, ServiceOK
  <2>3. WasPublished(service, h)
    BY <2>2 DEF PageInv, ServiceOK, WasPublished
  <2>4. service.version >= accepted.version
    BY <2>2 DEF PageInv, ConnectionOK
  <2>5. snapshot # Nothing => Shown.version \in 0..service.version
    BY DEF PageInv, SnapshotOK, WasPublished
  <2> QED BY <2>1, <2>2, <2>3, <2>4, <2>5
<1>10. ReadsOK(o, h)'
  <2>1. ASSUME NEW f \in Endpoints, other[f].answer = "success"
        PROVE  /\ WasPublished(other[f].state, h)
               /\ o = latest => /\ other[f].state.version >= accepted.version
                                /\ snapshot # Nothing =>
                                     other[f].state.version >= Shown.version
    <3>1. CASE f = e
      BY <1>5, <1>9, <2>1, <3>1
    <3>2. CASE f # e
      BY <1>3, <1>5, <2>1, <3>2 DEF ReadsOK
    <3> QED BY <3>1, <3>2
  <2>2. refreshes'[o].reads = other
    BY <1>6, <1>7
  <2> QED BY <1>5, <1>8, <2>1, <2>2 DEF ReadsOK, Shown, WasPublished
<1>11. RefreshesOK(h)'
  <2>1. ASSUME NEW o2 \in Origins, refreshes'[o2].pc = "reading"
        PROVE  /\ refreshes'[o2] = [pc |-> "reading", attempt |-> refreshes'[o2].attempt,
                                    reads |-> refreshes'[o2].reads]
               /\ ReadsOK(o2, h)'
    <3>1. CASE o2 = o
      BY <1>6, <1>7, <1>10, <3>1
    <3>2. CASE o2 # o
      BY <1>7, <1>8, <2>1, <3>2 DEF PageInv, RefreshesOK, ReadsOK, Shown, WasPublished
    <3> QED BY <3>1, <3>2
  <2> QED BY <1>7, <1>8, <2>1 DEF PageInv, RefreshesOK
<1>12. ServiceOK(h)' /\ SnapshotOK(h)'
  BY <1>8 DEF PageInv, ServiceOK, SnapshotOK, Shown, WasPublished
<1>13. ConnectionOK'
  <2>1. connection = "REFRESHING" => refreshes'[latest].pc = "reading"
    BY <1>6, <1>7 DEF PageInv, ConnectionOK, RefreshesOK
  <2> QED BY <1>8, <2>1 DEF PageInv, ConnectionOK, Shown
<1> QED BY <1>11, <1>12, <1>13 DEF PageInv

(* A refresh is there from its beginning, with nothing answered.           *)
LEMMA FreshReads ==
  ASSUME NEW h, NEW o \in Origins, NEW n, refreshes'[o] = NewRefresh(n)
  PROVE  /\ refreshes'[o].pc = "reading"
         /\ refreshes'[o] = [pc |-> "reading", attempt |-> refreshes'[o].attempt,
                             reads |-> refreshes'[o].reads]
         /\ ReadsOK(o, h)'
<1>1. PICK reads : reads = [e \in Endpoints |-> Asked]
  OBVIOUS
<1>2. refreshes'[o] = [pc |-> "reading", attempt |-> n, reads |-> reads]
  BY <1>1 DEF NewRefresh
<1>3. \A e \in Endpoints : reads[e].answer # "success"
  BY <1>1 DEF Asked
<1>4. reads = [e \in Endpoints |-> reads[e]]
  BY <1>1
<1>5. ReadsOK(o, h)'
  BY <1>2, <1>3, <1>4 DEF ReadsOK
<1> QED BY <1>2, <1>5

LEMMA RetryPage ==
  ASSUME NEW h, PageInv(h), NEW o \in Origins, RetryLoad(o)
  PROVE  PageInv(h)'
<1>1. UNCHANGED <<service, snapshot, connection, latest, accepted>>
  BY DEF RetryLoad, requests, commands
<1>2. /\ refreshes' = [o2 \in Origins |-> refreshes'[o2]]
      /\ refreshes'[o] = NewRefresh(2)
      /\ \A o2 \in Origins \ {o} : refreshes'[o2] = refreshes[o2]
  BY DEF RetryLoad, PageInv, RefreshesOK
<1>3. RefreshesOK(h)'
  <2>1. ASSUME NEW o2 \in Origins, refreshes'[o2].pc = "reading"
        PROVE  /\ refreshes'[o2] = [pc |-> "reading", attempt |-> refreshes'[o2].attempt,
                                    reads |-> refreshes'[o2].reads]
               /\ ReadsOK(o2, h)'
    <3>1. CASE o2 = o
      BY <1>2, <3>1, FreshReads
    <3>2. CASE o2 # o
      BY <1>1, <1>2, <2>1, <3>2 DEF PageInv, RefreshesOK, ReadsOK, Shown, WasPublished
    <3> QED BY <3>1, <3>2
  <2> QED BY <1>1, <1>2, <2>1 DEF PageInv, RefreshesOK
<1>4. ServiceOK(h)' /\ SnapshotOK(h)'
  BY <1>1 DEF PageInv, ServiceOK, SnapshotOK, Shown, WasPublished
<1>5. ConnectionOK'
  <2>1. connection = "REFRESHING" => refreshes'[latest].pc = "reading"
    BY <1>2, FreshReads DEF PageInv, ConnectionOK, RefreshesOK
  <2> QED BY <1>1, <2>1 DEF PageInv, ConnectionOK, Shown
<1> QED BY <1>3, <1>4, <1>5 DEF PageInv

(* A refresh begins; at that moment nothing newer is known to the page.    *)
LEMMA BeginPage ==
  ASSUME NEW h, PageInv(h), NEW o \in Origins, BeginRefresh(o, Begun(o)),
         service' = service, accepted'.version \in 0..service.version
  PROVE  PageInv(h)'
<1>1. /\ snapshot' = snapshot /\ latest' = o
      /\ connection' \in {"CONNECTING", "REFRESHING"}
  BY DEF BeginRefresh
<1>2. /\ refreshes' = [o2 \in Origins |-> refreshes'[o2]]
      /\ refreshes'[o] = NewRefresh(1)
      /\ \A o2 \in Origins \ {o} : refreshes'[o2] = refreshes[o2]
  BY DEF BeginRefresh, Begun, PageInv, RefreshesOK
<1>3. RefreshesOK(h)'
  <2>1. ASSUME NEW o2 \in Origins, refreshes'[o2].pc = "reading"
        PROVE  /\ refreshes'[o2] = [pc |-> "reading", attempt |-> refreshes'[o2].attempt,
                                    reads |-> refreshes'[o2].reads]
               /\ ReadsOK(o2, h)'
    <3>1. CASE o2 = o
      BY <1>2, <3>1, FreshReads
    <3>2. CASE o2 # o
      BY <1>1, <1>2, <2>1, <3>2 DEF PageInv, RefreshesOK, ReadsOK, Shown, WasPublished
    <3> QED BY <3>1, <3>2
  <2> QED BY <1>1, <1>2, <2>1 DEF PageInv, RefreshesOK
<1>4. ServiceOK(h)' /\ SnapshotOK(h)'
  BY <1>1 DEF PageInv, ServiceOK, SnapshotOK, Shown, WasPublished
<1>5. ConnectionOK'
  BY <1>1, <1>2, FreshReads DEF ConnectionOK
<1> QED BY <1>3, <1>4, <1>5 DEF PageInv

(* A refresh that loaded one state three times.                            *)
LEMMA LoadedOnce ==
  ASSUME NEW h, PageInv(h), NEW o \in Origins, IsRead(o),
         Loaded(refreshes[o].reads) = "success"
  PROVE  \A e \in Endpoints :
           /\ refreshes[o].reads[e].answer = "success"
           /\ refreshes[o].reads[e].state = refreshes[o].reads["state"].state
<1>1. PICK reads : reads = refreshes[o].reads
  OBVIOUS
<1>2. refreshes[o].pc = "reading"
  BY DEF IsRead
<1>3. ReadsOK(o, h)
  BY <1>2 DEF PageInv, RefreshesOK
<1>4. PICK failed : failed = {e \in Endpoints : reads[e].answer # "success"}
  OBVIOUS
<1>5. "state" \in Endpoints
  BY ConsoleInputs
<1>6. failed = {}
  <2>1. CASE "state" \in failed
    BY <1>1, <1>4, <2>1 DEF Loaded
  <2>2. CASE "state" \notin failed /\ failed # {}
    <3>1. PICK e : e = CHOOSE x \in failed : TRUE
      OBVIOUS
    <3>2. e \in failed
      BY <2>2, <3>1
    <3>3. reads[e].answer = "success"
      BY <1>1, <1>4, <2>2, <3>1 DEF Loaded
    <3> QED BY <1>4, <3>2, <3>3
  <2> QED BY <2>1, <2>2
<1>7. ~VersionsDiffer(reads)
  BY <1>1, <1>4, <1>6 DEF Loaded
<1>8. \A e \in Endpoints : reads[e].state.version = reads["state"].state.version
  BY <1>5, <1>7 DEF VersionsDiffer
<1>9. \A e \in Endpoints : reads[e].answer = "success"
                           /\ reads[e].state = h[reads[e].state.version]
  BY <1>1, <1>3, <1>4, <1>6 DEF ReadsOK, WasPublished
<1> QED BY <1>1, <1>5, <1>8, <1>9

LEMMA EndPage ==
  ASSUME NEW h, PageInv(h), NEW o \in Origins, RefreshEnds(o)
  PROVE  /\ PageInv(h)'
         /\ snapshot # Nothing /\ snapshot' # snapshot => Shown'.version >= Shown.version
<1>1. PICK loaded, reads : /\ reads = refreshes[o].reads
                           /\ loaded = Loaded(reads)
  OBVIOUS
<1>2. UNCHANGED <<service, latest, accepted>> /\ IsRead(o)
  BY DEF RefreshEnds, requests
<1>3. /\ refreshes' = [o2 \in Origins |-> refreshes'[o2]]
      /\ refreshes'[o] = Nothing
      /\ \A o2 \in Origins \ {o} : refreshes'[o2] = refreshes[o2]
  BY DEF RefreshEnds, PageInv, RefreshesOK
<1>4. "state" \in Endpoints
  BY ConsoleInputs
<1>5. CASE latest # o
  <2>1. UNCHANGED <<snapshot, connection>>
    BY <1>5 DEF RefreshEnds, IsCurrent
  <2>2. ASSUME NEW o2 \in Origins, refreshes'[o2].pc = "reading"
        PROVE  /\ refreshes'[o2] = [pc |-> "reading", attempt |-> refreshes'[o2].attempt,
                                    reads |-> refreshes'[o2].reads]
               /\ ReadsOK(o2, h)'
    <3>1. o2 # o
      BY <1>3, <2>2, NothingIsNotShown
    <3> QED
      BY <1>2, <1>3, <2>1, <2>2, <3>1
      DEF PageInv, RefreshesOK, ReadsOK, Shown, WasPublished
  <2>3. RefreshesOK(h)'
    BY <1>2, <1>3, <2>2 DEF PageInv, RefreshesOK
  <2>4. ServiceOK(h)' /\ SnapshotOK(h)'
    BY <1>2, <2>1 DEF PageInv, ServiceOK, SnapshotOK, Shown, WasPublished
  <2>5. ConnectionOK'
    <3>1. connection = "REFRESHING" => refreshes'[latest].pc = "reading"
      BY <1>3, <1>5 DEF PageInv, ConnectionOK, RefreshesOK
    <3> QED BY <1>2, <2>1, <3>1 DEF PageInv, ConnectionOK, Shown
  <2> QED BY <2>1, <2>3, <2>4, <2>5 DEF PageInv
<1>6. CASE latest = o
  <2>1. /\ snapshot' = IF loaded = "success"
                       THEN [pc |-> "shown",
                             data |-> [e \in Endpoints |-> reads[e].state]]
                       ELSE snapshot
        /\ connection' = StatusAfter(loaded)
    BY <1>1, <1>6 DEF RefreshEnds, IsCurrent
  <2>2. /\ connection' # "REFRESHING"
        /\ connection' = "LIVE" => loaded = "success"
    BY <2>1 DEF StatusAfter
  <2>3. PICK x : x = reads["state"].state
    OBVIOUS
  <2>4. ASSUME loaded = "success"
        PROVE  /\ snapshot' = [pc |-> "shown", data |-> [e \in Endpoints |-> x]]
               /\ WasPublished(x, h) /\ x.version >= accepted.version
               /\ snapshot # Nothing => x.version >= Shown.version
    <3>1. \A e \in Endpoints : reads[e].answer = "success" /\ reads[e].state = x
      BY <1>1, <1>2, <2>3, <2>4, LoadedOnce
    <3>2. ReadsOK(o, h)
      BY <1>2 DEF IsRead, PageInv, RefreshesOK
    <3>3. snapshot' = [pc |-> "shown", data |-> [e \in Endpoints |-> x]]
      BY <2>1, <2>4, <3>1
    <3> QED BY <1>1, <1>4, <1>6, <3>1, <3>2, <3>3 DEF ReadsOK
  <2>5. ASSUME loaded = "success"
        PROVE  /\ snapshot' # Nothing /\ Shown' = x
               /\ snapshot' = [pc |-> "shown", data |-> snapshot'.data]
               /\ \A e \in Endpoints : snapshot'.data[e] = x
    BY <1>4, <2>4, <2>5, NothingIsNotShown DEF Shown
  <2>6. ASSUME NEW o2 \in Origins, refreshes'[o2].pc = "reading"
        PROVE  /\ refreshes'[o2] = [pc |-> "reading", attempt |-> refreshes'[o2].attempt,
                                    reads |-> refreshes'[o2].reads]
               /\ ReadsOK(o2, h)'
    <3>1. o2 # o
      BY <1>3, <2>6, NothingIsNotShown
    <3> QED
      BY <1>2, <1>3, <1>6, <2>6, <3>1
      DEF PageInv, RefreshesOK, ReadsOK, WasPublished
  <2>7. RefreshesOK(h)'
    BY <1>2, <1>3, <2>6 DEF PageInv, RefreshesOK
  <2>8. ServiceOK(h)'
    BY <1>2 DEF PageInv, ServiceOK
  <2>9. SnapshotOK(h)'
    <3>1. CASE loaded = "success"
      BY <1>2, <2>4, <2>5, <3>1 DEF SnapshotOK, WasPublished
    <3>2. CASE loaded # "success"
      BY <1>2, <2>1, <3>2 DEF PageInv, SnapshotOK, Shown, WasPublished
    <3> QED BY <3>1, <3>2
  <2>10. ConnectionOK'
    BY <1>2, <2>2, <2>4, <2>5 DEF PageInv, ConnectionOK
  <2>11. snapshot # Nothing /\ snapshot' # snapshot => Shown'.version >= Shown.version
    BY <2>1, <2>4, <2>5
  <2> QED BY <2>7, <2>8, <2>9, <2>10, <2>11 DEF PageInv
<1> QED BY <1>5, <1>6

LEMMA GivenUpPage ==
  ASSUME NEW h, PageInv(h), CommandGivenUp
  PROVE  PageInv(h)'
<1>1. /\ UNCHANGED <<service, snapshot, refreshes, latest, accepted>>
      /\ connection' \in {"OFFLINE", connection}
  BY DEF CommandGivenUp
<1> QED BY <1>1 DEF PageInv, ServiceOK, RefreshesOK, ReadsOK, SnapshotOK, ConnectionOK,
                    WasPublished, Shown

(* Every step keeps the page, and shows nothing older than before.         *)
LEMMA PageStep ==
  ASSUME NEW h, PageInv(h), [Next]_vars
  PROVE  /\ \E g : PageInv(g)'
         /\ snapshot # Nothing /\ snapshot' # snapshot => Shown'.version >= Shown.version
<1>1. CASE OtherCommand \/ CommandArrives
  <2>1. snapshot' = snapshot
    BY <1>1 DEF OtherCommand, CommandArrives, page
  <2> QED BY <1>1, <2>1, ServicePage
<1>2. ASSUME NEW o \in Origins, ReadEnds(o)
      PROVE  PageInv(h)' /\ snapshot' = snapshot
  <2>1. PICK e \in Endpoints : ReadAnswered(o, e) \/ ReadFails(o, e)
    BY <1>2 DEF ReadEnds
  <2>2. PICK answer : /\ Answers(o, e, answer)
                      /\ answer = Answer(service) \/ answer.answer # "success"
    <3>1. CASE ReadAnswered(o, e)
      BY <3>1 DEF ReadAnswered
    <3>2. CASE ReadFails(o, e)
      <4>1. PICK kind \in {"transport", "protocol"} : Answers(o, e, Failure(kind))
        BY <3>2 DEF ReadFails
      <4>2. Failure(kind).answer # "success"
        BY DEF Failure
      <4> QED BY <4>1, <4>2
    <3> QED BY <2>1, <3>1, <3>2
  <2>3. snapshot' = snapshot
    BY <2>2 DEF Answers
  <2> QED BY <2>2, <2>3, AnswerPage
<1>3. ASSUME NEW o \in Origins, RetryLoad(o)
      PROVE  PageInv(h)' /\ snapshot' = snapshot
  BY <1>3, RetryPage DEF RetryLoad
<1>4. ASSUME NEW o \in Origins, BeginRefresh(o, Begun(o)), service' = service,
             accepted'.version \in 0..service.version
      PROVE  PageInv(h)' /\ snapshot' = snapshot
  BY <1>4, BeginPage DEF BeginRefresh
<1>5. /\ "poll" \in Origins /\ "command" \in Origins /\ Buttons \subseteq Origins
      /\ accepted.version \in 0..service.version /\ service.version \in Nat
  BY DEF Origins, PageInv, ConnectionOK, ServiceOK
<1>6. CASE PollTimer \/ PageShown \/ \E b \in Buttons : RefreshButton(b)
  <2>1. UNCHANGED <<service, accepted>>
    BY <1>6 DEF PollTimer, PageShown, RefreshButton, requests, commands
  <2>2. UNCHANGED page \/ \E o \in Origins : BeginRefresh(o, Begun(o))
    BY <1>5, <1>6 DEF PollTimer, PageShown, RefreshButton
  <2>3. UNCHANGED page => snapshot' = snapshot
    BY DEF page
  <2> QED BY <1>4, <1>5, <2>1, <2>2, <2>3, PageStays
<1>7. CASE CommandAccepted
  <2>1. BeginRefresh("command", Begun("command")) /\ service' = service
    BY <1>7 DEF CommandAccepted, requests
  <2>2. accepted'.version \in 0..service.version
    BY <1>5, <1>7 DEF CommandAccepted
  <2> QED BY <1>4, <1>5, <2>1, <2>2
<1>8. CASE CommandGivenUp
  BY <1>8, GivenUpPage DEF CommandGivenUp
<1>9. CASE RequestLost \/ HealthChanges \/ PageHidden \/ RunEod \/ CommandRefused
           \/ UNCHANGED vars
  <2>1. UNCHANGED <<service, page, accepted>>
    BY <1>9 DEF RequestLost, HealthChanges, PageHidden, RunEod, CommandRefused, vars,
                requests, commands
  <2>2. snapshot' = snapshot
    BY <2>1 DEF page
  <2> QED BY <2>1, <2>2, PageStays
<1>10. ASSUME NEW o \in Origins, RefreshEnds(o)
       PROVE  /\ PageInv(h)'
              /\ snapshot # Nothing /\ snapshot' # snapshot =>
                   Shown'.version >= Shown.version
  BY <1>10, EndPage
<1> QED
  BY <1>1, <1>2, <1>3, <1>6, <1>7, <1>8, <1>9, <1>10 DEF Next

-----------------------------------------------------------------------------
(* What the steps do to the envelopes.                                     *)

Grows ==
  /\ service.confirmed \cup service.settled
       \subseteq service'.confirmed \cup service'.settled
  /\ service.settled \subseteq service'.settled

LEMMA OtherGrows ==
  ASSUME NEW h, PageInv(h), OtherCommand
  PROVE  Grows
<1>1. PICK t \in Trades \ (service.confirmed \cup service.settled) :
        service' = [service EXCEPT !.version = @ + 1, !.confirmed = @ \cup {t}]
  BY DEF OtherCommand
<1>2. PICK v, confirmed, settled :
        service = [version |-> v, confirmed |-> confirmed, settled |-> settled]
  BY DEF PageInv, ServiceOK
<1>3. service' = [version |-> v + 1, confirmed |-> confirmed \cup {t},
                  settled |-> settled]
  BY <1>1, <1>2
<1> QED BY <1>2, <1>3 DEF Grows

(* An end of day settles what is due, which is why its due trades are      *)
(* settled once it has been executed.                                      *)
LEMMA EodGrows ==
  ASSUME NEW h, PageInv(h), NEW date, service' = EodApplied(date)
  PROVE  Grows /\ Due(service, date) \subseteq service'.settled
<1>1. PICK v, confirmed, settled :
        service = [version |-> v, confirmed |-> confirmed, settled |-> settled]
  BY DEF PageInv, ServiceOK
<1>2. PICK due : due = Due(service, date)
  OBVIOUS
<1>3. CASE due = {}
  BY <1>2, <1>3 DEF EodApplied, Grows
<1>4. CASE due # {}
  <2>1. service' = [version |-> v + 1, confirmed |-> confirmed \ due,
                    settled |-> settled \cup due]
    BY <1>1, <1>2, <1>4 DEF EodApplied
  <2> QED BY <1>1, <1>2, <2>1 DEF Grows
<1> QED BY <1>3, <1>4

(* Requests may be lost and the state may change under the page.           *)
LEMMA WriteStays ==
  ASSUME WriteInv, Grows, inbox' \subseteq inbox,
         UNCHANGED <<applied, write, pendingEod, drawn, accepted>>,
         refreshes'["command"].pc = "reading" <=> refreshes["command"].pc = "reading"
  PROVE  WriteInv'
<1>1. EnvelopeOK'
  BY DEF WriteInv, EnvelopeOK, Grows, Command
<1>2. Posted' \subseteq Posted
  BY DEF Posted, Pending, Command
<1>3. PostedOK'
  BY <1>2 DEF WriteInv, PostedOK
<1>4. InboxOK'
  BY DEF WriteInv, InboxOK, Command
<1>5. WriteOK'
  BY DEF WriteInv, WriteOK, Command
<1> QED BY <1>1, <1>3, <1>4, <1>5 DEF WriteInv

LEMMA ArrivalWrites ==
  ASSUME NEW h, PageInv(h), WriteInv, CommandArrives
  PROVE  WriteInv'
<1>1. PICK request \in inbox :
        /\ inbox' = inbox \ {request}
        /\ \/ /\ applied' = applied \cup {request.command}
              /\ service' = IF request.command \in applied THEN service
                            ELSE EodApplied(request.command.date)
              /\ write' = Answered(request, "accepted")
           \/ /\ write' = Answered(request, "problem")
              /\ UNCHANGED <<service, applied>>
  BY DEF CommandArrives
<1>2. UNCHANGED <<refreshes, pendingEod, drawn, accepted>>
  BY DEF CommandArrives, page
<1>3. Posted' \subseteq Posted /\ applied \subseteq applied'
  BY <1>1, <1>2 DEF Posted, Pending, Command
<1>4. /\ Grows
      /\ request.command \notin applied /\ request.command \in applied' =>
           Due(service, request.command.date) \subseteq service'.settled
  <2>1. CASE service' = service
    BY <1>1, <2>1, EodGrows DEF Grows
  <2>2. CASE service' = EodApplied(request.command.date)
    BY <2>2, EodGrows
  <2> QED BY <1>1, <2>1, <2>2
<1>5. applied' \subseteq applied \cup {request.command}
  BY <1>1
<1>6. EnvelopeOK'
  <2>1. SUFFICES ASSUME pendingEod # Nothing, Command(pendingEod) \in applied'
                 PROVE  pendingEod.due \subseteq service'.settled
    BY <1>2, <1>4 DEF WriteInv, EnvelopeOK, Grows, Command
  <2>2. CASE Command(pendingEod) \in applied
    BY <1>4, <2>1, <2>2 DEF WriteInv, EnvelopeOK, Grows
  <2>3. CASE Command(pendingEod) \notin applied
    <3>1. request.command = Command(pendingEod)
      BY <1>5, <2>1, <2>3
    <3>2. request.command.date = pendingEod.date
      BY <3>1 DEF Command
    <3>3. Due(service, pendingEod.date) \subseteq service'.settled
      BY <1>4, <2>1, <2>3, <3>1, <3>2
    <3>4. pendingEod.due \subseteq Due(service, pendingEod.date) \cup service.settled
      BY <2>1 DEF WriteInv, EnvelopeOK, Due
    <3> QED BY <1>4, <3>3, <3>4 DEF Grows
  <2> QED BY <2>2, <2>3
<1>7. PostedOK'
  BY <1>2, <1>3 DEF WriteInv, PostedOK
<1>8. CASE ~request.awaited
  <2>1. write' = write
    BY <1>1, <1>8 DEF Answered
  <2>2. InboxOK'
    BY <1>1, <2>1 DEF WriteInv, InboxOK, Command
  <2>3. WriteOK'
    BY <1>2, <1>3, <2>1 DEF WriteInv, WriteOK, Command
  <2> QED BY <1>6, <1>7, <2>2, <2>3 DEF WriteInv
<1>9. CASE request.awaited
  <2>1. /\ write.pc = "posting" /\ request.command = Command(write.prepared)
        /\ request = [command |-> Command(write.prepared), awaited |-> TRUE]
    BY <1>9 DEF WriteInv, InboxOK
  <2>2. InboxOK'
    <3>1. SUFFICES ASSUME NEW r \in inbox, r # request PROVE
                     r = [command |-> r.command, awaited |-> r.awaited] /\ ~r.awaited
                     /\ r.awaited \in BOOLEAN
      BY <1>1 DEF InboxOK
    <3>2. r = [command |-> r.command, awaited |-> r.awaited] /\ r.awaited \in BOOLEAN
      BY <3>1 DEF WriteInv, InboxOK
    <3>3. r.awaited => r = [command |-> Command(write.prepared), awaited |-> TRUE]
      BY <3>1 DEF WriteInv, InboxOK
    <3> QED BY <2>1, <3>1, <3>2, <3>3
  <2>3. write # Nothing
    BY <2>1, NothingIsNotShown
  <2>4. PICK answer : /\ write' = [write EXCEPT !.answer = answer]
                      /\ answer = "accepted" => request.command \in applied'
    BY <1>1, <1>9 DEF Answered
  <2>5. write' = [pc |-> write.pc, prepared |-> write.prepared,
                  answer |-> answer, due |-> write.due]
    <3>1. write = [pc |-> write.pc, prepared |-> write.prepared,
                   answer |-> write.answer, due |-> write.due]
      BY <2>3 DEF WriteInv, WriteOK
    <3>2. write' = [write EXCEPT !.answer = answer]
      BY <2>4
    <3> QED BY <3>1, <3>2
  <2>6. /\ write'.pc = "posting" /\ write'.prepared = write.prepared
        /\ write'.answer = answer /\ write'.due = write.due
    BY <2>1, <2>5
  <2>7. pendingEod # Nothing /\ write.prepared = pendingEod
        /\ ~ (refreshes["command"].pc = "reading")
    BY <2>1, <2>3 DEF WriteInv, WriteOK
  <2>8. WriteOK'
    <3>1. write' = [pc |-> write'.pc, prepared |-> write'.prepared,
                    answer |-> write'.answer, due |-> write'.due]
      BY <2>5, <2>6
    <3>2. write'.answer = "accepted" => Command(write'.prepared) \in applied'
      <4>1. Command(write'.prepared) = request.command
        BY <2>1, <2>6 DEF Command
      <4> QED BY <2>4, <2>6, <4>1
    <3>3. /\ pendingEod' # Nothing /\ write'.prepared = pendingEod'
          /\ ~ (refreshes'["command"].pc = "reading")
          /\ write'.pc \in {"posting", "refreshing"} /\ write'.pc # "refreshing"
      BY <1>2, <2>6, <2>7
    <3> QED BY <3>1, <3>2, <3>3 DEF WriteOK, Command
  <2> QED BY <1>6, <1>7, <2>2, <2>8 DEF WriteInv
<1> QED BY <1>8, <1>9

(* The refresh after an accepted command ends it, and its envelope goes.   *)
LEMMA EndWrites ==
  ASSUME NEW h, PageInv(h), WriteInv, RefreshEnds("command")
  PROVE  WriteInv'
<1>1. /\ UNCHANGED <<service, applied, inbox, drawn, accepted>>
      /\ refreshes["command"].pc = "reading"
      /\ write' = Nothing
      /\ pendingEod' = IF pendingEod = write.prepared THEN Nothing ELSE pendingEod
  BY DEF RefreshEnds, IsRead, requests
<1>2. refreshes'["command"] = Nothing
  BY DEF RefreshEnds, PageInv, RefreshesOK, Origins
<1>3. write.pc = "refreshing" /\ write # Nothing
  BY <1>1, NothingIsNotShown DEF WriteInv, WriteOK
<1>4. /\ pendingEod = write.prepared /\ pendingEod # Nothing
      /\ pendingEod.id \in accepted.ids
  BY <1>3 DEF WriteInv, WriteOK
<1>5. pendingEod' = Nothing
  BY <1>1, <1>4
<1>6. EnvelopeOK'
  BY <1>1, <1>4, <1>5 DEF WriteInv, EnvelopeOK
<1>7. Posted' \subseteq Posted
  BY <1>1, <1>5 DEF Posted, Pending
<1>8. PostedOK'
  BY <1>1, <1>5, <1>7 DEF WriteInv, PostedOK
<1>9. InboxOK'
  BY <1>1, <1>3 DEF WriteInv, InboxOK
<1>10. WriteOK'
  BY <1>1, <1>2, NothingIsNotShown DEF WriteOK
<1> QED BY <1>6, <1>8, <1>9, <1>10 DEF WriteInv

(* The button posts the kept envelope of its date, or draws the next       *)
(* identifier.                                                             *)
LEMMA RunWrites ==
  ASSUME NEW h, PageInv(h), WriteInv, RunEod
  PROVE  WriteInv'
<1>1. PICK date, prepared : date = EodDate /\ prepared = Prepared(date)
  OBVIOUS
<1>2. /\ write = Nothing
      /\ pendingEod' = prepared
      /\ drawn' = IF prepared.id > drawn THEN prepared.id ELSE drawn
      /\ write' = [pc |-> "posting", prepared |-> prepared,
                   answer |-> "pending", due |-> Due(Shown, prepared.date)]
      /\ inbox' = inbox \cup {[command |-> Command(prepared), awaited |-> TRUE]}
      /\ UNCHANGED <<service, applied, refreshes, accepted>>
  BY <1>1 DEF RunEod, page, Request, Command
<1>3. snapshot # Nothing
  BY DEF RunEod, PageInv, ConnectionOK
<1>4. Due(Shown, date) \subseteq service.confirmed \cup service.settled
  BY <1>3 DEF PageInv, SnapshotOK, WasPublished, Due
<1>5. drawn \in Nat
  BY DEF WriteInv, EnvelopeOK
<1>6. /\ prepared.pc = "prepared" /\ prepared.id = drawn' /\ drawn' \in Nat \ {0}
      /\ prepared.due \subseteq service.confirmed \cup service.settled
      /\ \A t \in prepared.due : ValueDate[t] <= prepared.date
      /\ Command(prepared) \in applied => prepared.due \subseteq service.settled
      /\ \A c \in Posted \cup {Command(prepared)} :
           /\ c.id \in 1..drawn'
           /\ c.id = drawn' => c.date = prepared.date
      /\ \A c, d \in Posted \cup {Command(prepared)} :
           d.id = c.id + 1 /\ d.date = c.date => c.id \in accepted.ids
  <2>1. CASE pendingEod # Nothing /\ pendingEod.date = date
    <3>1. prepared = pendingEod
      BY <1>1, <2>1 DEF Prepared
    <3>2. drawn' = drawn /\ Command(prepared) \in Posted
      BY <1>2, <1>5, <2>1, <3>1 DEF WriteInv, EnvelopeOK, Posted, Pending
    <3> QED BY <2>1, <3>1, <3>2 DEF WriteInv, EnvelopeOK, PostedOK
  <2>2. CASE ~ (pendingEod # Nothing /\ pendingEod.date = date)
    <3>1. prepared = [pc |-> "prepared", id |-> drawn + 1, date |-> date,
                      due |-> Due(Shown, date)]
      BY <1>1, <2>2 DEF Prepared, NewEnvelope
    <3>2. drawn' = drawn + 1 /\ Command(prepared) = [id |-> drawn + 1, date |-> date]
      BY <1>2, <1>5, <3>1 DEF Command
    <3>3. PICK new : new = Command(prepared) /\ new.id = drawn + 1 /\ new.date = date
      BY <3>2
    <3>4. \A c \in Posted : c.id \in 1..drawn
      BY DEF WriteInv, PostedOK
    <3>5. new \notin Posted
      BY <1>5, <3>3, <3>4
    <3>6. \A c \in Posted \cup {new} :
            /\ c.id \in 1..drawn'
            /\ c.id = drawn' => c.date = prepared.date
      BY <1>5, <3>1, <3>2, <3>3, <3>4
    <3>7. ASSUME NEW c \in Posted, new.id = c.id + 1, new.date = c.date
          PROVE  c.id \in accepted.ids
      <4>1. c.id = drawn /\ c.date = date /\ drawn # 0
        BY <1>5, <3>3, <3>4, <3>7
      <4>2. pendingEod = Nothing
        BY <2>2, <4>1 DEF WriteInv, PostedOK
      <4> QED BY <4>1, <4>2 DEF WriteInv, EnvelopeOK
    <3>8. ASSUME NEW c \in Posted \cup {new}, NEW d \in Posted \cup {new},
                 d.id = c.id + 1, d.date = c.date
          PROVE  c.id \in accepted.ids
      <4>1. c.id \in 1..(drawn + 1) /\ d.id \in 1..(drawn + 1)
        <5>1. \A x \in Posted \cup {new} : x.id \in 1..(drawn + 1)
          BY <1>5, <3>3, <3>4
        <5> QED BY <5>1
      <4>2. c # new
        BY <1>5, <3>3, <3>8, <4>1
      <4>3. CASE d = new
        BY <3>7, <3>8, <4>2, <4>3
      <4>4. CASE d # new
        BY <3>8, <4>2, <4>4 DEF WriteInv, PostedOK
      <4> QED BY <4>3, <4>4
    <3>9. Command(prepared) \notin applied
      BY <3>3, <3>5 DEF Posted
    <3>10. \A t \in Due(Shown, date) : ValueDate[t] <= date
      BY DEF Due
    <3>11. prepared.pc = "prepared" /\ prepared.id = drawn + 1
           /\ prepared.due = Due(Shown, date) /\ prepared.date = date
      BY <3>1
    <3>12. /\ prepared.id = drawn' /\ drawn' \in Nat \ {0}
           /\ prepared.due \subseteq service.confirmed \cup service.settled
           /\ \A t \in prepared.due : ValueDate[t] <= prepared.date
      BY <1>4, <1>5, <3>2, <3>10, <3>11
    <3>13. \A c \in Posted \cup {Command(prepared)} :
             /\ c.id \in 1..drawn'
             /\ c.id = drawn' => c.date = prepared.date
      BY <3>3, <3>6
    <3>14. \A c, d \in Posted \cup {Command(prepared)} :
             d.id = c.id + 1 /\ d.date = c.date => c.id \in accepted.ids
      BY <3>3, <3>8
    <3> QED BY <3>9, <3>11, <3>12, <3>13, <3>14
  <2> QED BY <2>1, <2>2
<1>7. prepared # Nothing
  BY <1>6, NothingIsNotShown
<1>8. EnvelopeOK'
  BY <1>2, <1>6, <1>7 DEF EnvelopeOK, Command
<1>9. Posted' \subseteq Posted \cup {Command(prepared)}
  BY <1>2 DEF Posted, Pending, Command
<1>10. PostedOK'
  <2>1. \A c \in Posted \cup {Command(prepared)} : c = [id |-> c.id, date |-> c.date]
    BY DEF WriteInv, PostedOK, Command
  <2>2. \A c \in Posted' :
          /\ c = [id |-> c.id, date |-> c.date]
          /\ c.id \in 1..drawn'
          /\ c.id = drawn' => c.date = pendingEod'.date
    BY <1>2, <1>6, <1>9, <2>1
  <2>3. \A c, d \in Posted' : d.id = c.id + 1 /\ d.date = c.date => c.id \in accepted'.ids
    BY <1>2, <1>6, <1>9
  <2> QED BY <2>2, <2>3 DEF PostedOK
<1>11. InboxOK'
  <2>1. \A r \in inbox : r = [command |-> r.command, awaited |-> r.awaited]
                         /\ r.awaited = FALSE
    BY <1>2, NothingIsNotShown DEF WriteInv, InboxOK
  <2>2. PICK command : command = Command(prepared)
    OBVIOUS
  <2>3. /\ write'.pc = "posting" /\ write'.answer = "pending"
        /\ Command(write'.prepared) = command
    BY <1>2, <2>2
  <2>4. inbox' = inbox \cup {[command |-> command, awaited |-> TRUE]}
    BY <1>2, <2>2
  <2>5. ASSUME NEW r \in inbox'
        PROVE  /\ r = [command |-> r.command, awaited |-> r.awaited]
               /\ r.awaited \in BOOLEAN
               /\ r.awaited => r.command = command
    <3>1. CASE r \in inbox
      BY <2>1, <3>1
    <3>2. CASE r = [command |-> command, awaited |-> TRUE]
      BY <3>2
    <3> QED BY <2>4, <3>1, <3>2
  <2> QED BY <2>3, <2>5 DEF InboxOK, Command
<1>12. WriteOK'
  <2>1. ~ (refreshes["command"].pc = "reading")
    BY <1>2, NothingIsNotShown DEF WriteInv, WriteOK
  <2> QED BY <1>2, <1>7, <2>1 DEF WriteOK
<1> QED BY <1>8, <1>10, <1>11, <1>12 DEF WriteInv

LEMMA AcceptWrites ==
  ASSUME NEW h, PageInv(h), WriteInv, CommandAccepted
  PROVE  WriteInv'
<1>1. /\ write.pc = "posting" /\ write.answer = "accepted"
      /\ write' = [write EXCEPT !.pc = "refreshing"]
      /\ accepted' = [version |-> service.version,
                      ids |-> accepted.ids \cup {write.prepared.id}]
      /\ UNCHANGED <<service, applied, inbox, pendingEod, drawn>>
  BY DEF CommandAccepted, requests
<1>2. refreshes'["command"].pc = "reading"
  BY NothingIsNotShown
  DEF CommandAccepted, BeginRefresh, Begun, PageInv, RefreshesOK, Origins
<1>3. write # Nothing
  BY <1>1, NothingIsNotShown
<1>4. write' = [pc |-> "refreshing", prepared |-> write.prepared,
                answer |-> write.answer, due |-> write.due]
  BY <1>1, <1>3 DEF WriteInv, WriteOK
<1>5. accepted.ids \subseteq accepted'.ids /\ write.prepared.id \in accepted'.ids
  BY <1>1
<1>6. EnvelopeOK'
  BY <1>1, <1>5 DEF WriteInv, EnvelopeOK, Command
<1>7. Posted' = Posted
  BY <1>1 DEF Posted, Pending, Command
<1>8. PostedOK'
  BY <1>1, <1>5, <1>7 DEF WriteInv, PostedOK
<1>9. InboxOK'
  BY <1>1 DEF WriteInv, InboxOK
<1>10. /\ write'.pc = "refreshing" /\ write'.prepared = write.prepared
       /\ write'.answer = write.answer /\ write'.due = write.due
  BY <1>4
<1>11. WriteOK'
  BY <1>1, <1>2, <1>3, <1>4, <1>5, <1>10 DEF WriteInv, WriteOK, Command
<1> QED BY <1>6, <1>8, <1>9, <1>11 DEF WriteInv

LEMMA RefuseWrites ==
  ASSUME WriteInv, CommandRefused
  PROVE  WriteInv'
<1>1. /\ write.pc = "posting" /\ write.answer = "problem" /\ write' = Nothing
      /\ UNCHANGED <<service, applied, inbox, refreshes, pendingEod, drawn, accepted>>
  BY DEF CommandRefused, requests, page
<1>2. EnvelopeOK'
  BY <1>1 DEF WriteInv, EnvelopeOK, Command
<1>3. Posted' = Posted
  BY <1>1 DEF Posted, Pending, Command
<1>4. PostedOK'
  BY <1>1, <1>3 DEF WriteInv, PostedOK
<1>5. InboxOK'
  BY <1>1 DEF WriteInv, InboxOK
<1>6. WriteOK'
  BY <1>1, NothingIsNotShown DEF WriteInv, WriteOK
<1> QED BY <1>2, <1>4, <1>5, <1>6 DEF WriteInv

LEMMA GiveUpWrites ==
  ASSUME WriteInv, CommandGivenUp
  PROVE  WriteInv'
<1>1. /\ write.pc = "posting" /\ write' = Nothing
      /\ inbox' = {[r EXCEPT !.awaited = FALSE] : r \in inbox}
      /\ UNCHANGED <<service, applied, refreshes, pendingEod, drawn, accepted>>
  BY DEF CommandGivenUp
<1>2. \A r \in inbox : [r EXCEPT !.awaited = FALSE]
                         = [command |-> r.command, awaited |-> FALSE]
  <2>1. SUFFICES ASSUME NEW r \in inbox
                 PROVE  [r EXCEPT !.awaited = FALSE]
                          = [command |-> r.command, awaited |-> FALSE]
    OBVIOUS
  <2>2. r = [command |-> r.command, awaited |-> r.awaited]
    BY DEF WriteInv, InboxOK
  <2>3. PICK no : no = FALSE
    OBVIOUS
  <2>4. [r EXCEPT !.awaited = no] = [command |-> r.command, awaited |-> no]
    BY <2>2
  <2> QED BY <2>3, <2>4
<1>3. inbox' = {[command |-> r.command, awaited |-> FALSE] : r \in inbox}
  BY <1>1, <1>2
<1>4. EnvelopeOK'
  BY <1>1 DEF WriteInv, EnvelopeOK, Command
<1>5. Posted' \subseteq Posted
  BY <1>1, <1>3 DEF Posted, Pending, Command
<1>6. PostedOK'
  BY <1>1, <1>5 DEF WriteInv, PostedOK
<1>7. InboxOK'
  <2>1. SUFFICES ASSUME NEW x \in inbox'
                 PROVE  /\ x = [command |-> x.command, awaited |-> x.awaited]
                        /\ x.awaited = FALSE
    BY DEF InboxOK
  <2>2. PICK c : x = [command |-> c, awaited |-> FALSE]
    BY <1>3, <2>1
  <2> QED BY <2>2
<1>8. WriteOK'
  BY <1>1, NothingIsNotShown DEF WriteInv, WriteOK
<1> QED BY <1>4, <1>6, <1>7, <1>8 DEF WriteInv

(* Every step keeps the envelopes.                                         *)
LEMMA WriteStep ==
  ASSUME NEW h, PageInv(h), WriteInv, [Next]_vars
  PROVE  WriteInv'
<1>1. CASE OtherCommand
  <2>1. UNCHANGED <<applied, inbox, refreshes, write, pendingEod, drawn, accepted>>
    BY <1>1 DEF OtherCommand, page, commands
  <2> QED BY <1>1, <2>1, OtherGrows, WriteStays
<1>2. ASSUME service' = service, inbox' \subseteq inbox,
             UNCHANGED <<applied, write, pendingEod, drawn, accepted>>,
             refreshes'["command"].pc = "reading"
               <=> refreshes["command"].pc = "reading"
      PROVE  WriteInv'
  <2>1. Grows
    BY <1>2 DEF Grows
  <2> QED BY <1>2, <2>1, WriteStays
<1>3. CASE RequestLost \/ HealthChanges \/ PageHidden \/ UNCHANGED vars
  BY <1>2, <1>3 DEF RequestLost, HealthChanges, PageHidden, vars, requests, page, commands
<1>4. ASSUME NEW o \in Origins, ReadEnds(o) \/ RetryLoad(o)
             \/ (RefreshEnds(o) /\ o # "command")
      PROVE  WriteInv'
  <2>1. /\ UNCHANGED <<service, inbox, applied, drawn, accepted>>
        /\ UNCHANGED <<write, pendingEod>>
    BY <1>4 DEF ReadEnds, ReadAnswered, ReadFails, Answers, RetryLoad, RefreshEnds,
                requests, commands
  <2>2. refreshes'["command"].pc = "reading" <=> refreshes["command"].pc = "reading"
    <3>1. CASE o # "command"
      BY <1>4, <3>1 DEF ReadEnds, ReadAnswered, ReadFails, Answers, RetryLoad,
                        RefreshEnds, PageInv, RefreshesOK, Origins
    <3>2. CASE RetryLoad(o)
      BY <3>1, <3>2, NothingIsNotShown
      DEF RetryLoad, IsRead, PageInv, RefreshesOK, Origins
    <3>3. CASE o = "command" /\ ReadEnds(o)
      <4>1. PICK e, answer : Answers(o, e, answer)
        BY <3>3 DEF ReadEnds, ReadAnswered, ReadFails
      <4>2. /\ refreshes[o].pc = "reading"
            /\ refreshes[o] = [pc |-> "reading", attempt |-> refreshes[o].attempt,
                               reads |-> refreshes[o].reads]
        BY <4>1 DEF Answers, IsAsked, PageInv, RefreshesOK
      <4>3. refreshes'[o] = [refreshes[o] EXCEPT !.reads = [@ EXCEPT ![e] = answer]]
        BY <4>1 DEF Answers, PageInv, RefreshesOK
      <4> QED BY <3>3, <4>2, <4>3
    <3> QED BY <1>4, <3>1, <3>2, <3>3
  <2> QED BY <1>2, <2>1, <2>2
<1>5. CASE PollTimer \/ PageShown \/ \E b \in Buttons : RefreshButton(b)
  <2>1. UNCHANGED <<service, inbox, applied, write, pendingEod, drawn, accepted>>
    BY <1>5 DEF PollTimer, PageShown, RefreshButton, requests, commands
  <2>2. UNCHANGED refreshes \/ \E o \in Origins \ {"command"} : refreshes' = Begun(o)
    BY <1>5, ConsoleInputs
    DEF PollTimer, PageShown, RefreshButton, BeginRefresh, page, Origins
  <2>3. refreshes'["command"].pc = "reading" <=> refreshes["command"].pc = "reading"
    BY <2>2 DEF Begun, PageInv, RefreshesOK, Origins
  <2> QED BY <1>2, <2>1, <2>3
<1>6. CASE RefreshEnds("command")
  BY <1>6, EndWrites
<1> QED
  BY <1>1, <1>3, <1>4, <1>5, <1>6, ArrivalWrites, RunWrites, AcceptWrites,
     RefuseWrites, GiveUpWrites
  DEF Next

-----------------------------------------------------------------------------
ConsoleInv == PollInv /\ (\E h : PageInv(h)) /\ WriteInv

LEMMA ConsoleStarts == Init => ConsoleInv
<1> SUFFICES ASSUME Init PROVE ConsoleInv
  OBVIOUS
<1>1. PollInv
  BY PollingDelays DEF Init, PollingInit, PollInv, PollingNeverStalls
<1>2. /\ service = [version |-> 0, confirmed |-> {}, settled |-> {}]
      /\ service.version = 0 /\ service.confirmed = {} /\ service.settled = {}
      /\ snapshot = Nothing /\ connection = "CONNECTING" /\ latest = "poll"
      /\ accepted = [version |-> 0, ids |-> {}] /\ accepted.version = 0
      /\ applied = {} /\ inbox = {} /\ write = Nothing /\ pendingEod = Nothing
      /\ drawn = 0
  BY DEF Init
<1>3. /\ refreshes = [o \in Origins |-> refreshes[o]]
      /\ \A o \in Origins : refreshes[o] = NewRefresh(1) \/ refreshes[o] = Nothing
      /\ refreshes["command"] = Nothing
  BY DEF Init, Origins
<1>4. PICK h : h = [n \in {0} |-> service]
  OBVIOUS
<1>5. ServiceOK(h)
  BY <1>2, <1>4 DEF ServiceOK
<1>6. RefreshesOK(h)
  <2>1. ASSUME NEW o \in Origins, refreshes[o].pc = "reading"
        PROVE  /\ refreshes[o] = [pc |-> "reading", attempt |-> refreshes[o].attempt,
                                  reads |-> refreshes[o].reads]
               /\ ReadsOK(o, h)
    <3>1. PICK reads : reads = [e \in Endpoints |-> Asked]
      OBVIOUS
    <3>2. refreshes[o] = [pc |-> "reading", attempt |-> 1, reads |-> reads]
      BY <1>3, <2>1, <3>1, NothingIsNotShown DEF NewRefresh
    <3>3. \A e \in Endpoints : reads[e].answer # "success"
      BY <3>1 DEF Asked
    <3>4. reads = [e \in Endpoints |-> reads[e]]
      BY <3>1
    <3>5. ReadsOK(o, h)
      BY <3>2, <3>3, <3>4 DEF ReadsOK
    <3> QED BY <3>2, <3>5
  <2> QED BY <1>2, <1>3, <2>1 DEF RefreshesOK, Origins
<1>7. SnapshotOK(h) /\ ConnectionOK
  BY <1>2 DEF SnapshotOK, ConnectionOK
<1>8. EnvelopeOK /\ InboxOK
  BY <1>2 DEF EnvelopeOK, InboxOK
<1>9. PostedOK
  <2>1. Posted = {}
    BY <1>2 DEF Posted, Pending
  <2> QED BY <2>1 DEF PostedOK
<1>10. WriteOK
  BY <1>2, <1>3, NothingIsNotShown DEF WriteOK
<1> QED BY <1>1, <1>5, <1>6, <1>7, <1>8, <1>9, <1>10 DEF ConsoleInv, PageInv, WriteInv

(* The three parts hold in every state: the poll loop is never stuck, the  *)
(* page shows a state the service published and knows how old it is, and   *)
(* the envelopes tell which commands the service may have executed.        *)
THEOREM ConsoleInvariant == Spec => []ConsoleInv
<1>1. ConsoleInv /\ [Next]_vars => ConsoleInv'
  <2> SUFFICES ASSUME ConsoleInv, [Next]_vars PROVE ConsoleInv'
    OBVIOUS
  <2>1. PICK h : PageInv(h)
    BY DEF ConsoleInv
  <2>2. \E g : PageInv(g)'
    BY <2>1, PageStep
  <2> QED BY <2>1, <2>2, PollStep, WriteStep DEF ConsoleInv
<1> QED BY <1>1, ConsoleStarts, PTL DEF Spec

(* A visible page always has a refresh in flight or a timer that will      *)
(* start one, for all delays and failures (startVisibilityAwarePolling).   *)
THEOREM PollingGoesOn == Spec => []PollingNeverStalls
<1>1. ConsoleInv => PollingNeverStalls
  BY DEF ConsoleInv, PollInv
<1> QED BY <1>1, ConsoleInvariant, PTL

(* What the page shows is one state of the service, for any set of reads   *)
(* (combineSnapshots).                                                     *)
THEOREM SnapshotsAreOneState == Spec => []SnapshotIsCoherent
<1>1. ConsoleInv => SnapshotIsCoherent
  BY DEF ConsoleInv, PageInv, SnapshotOK, SnapshotIsCoherent
<1> QED BY <1>1, ConsoleInvariant, PTL

(* A page that waits for a refresh has one running, however many overlap   *)
(* (refreshOnce).                                                          *)
THEOREM ButtonsAreNotLocked == Spec => []RefreshingMeansRunning
<1>1. ConsoleInv => RefreshingMeansRunning
  BY DEF ConsoleInv, PageInv, ConnectionOK, RefreshingMeansRunning
<1> QED BY <1>1, ConsoleInvariant, PTL

(* A LIVE page shows the effect of its last accepted command, whatever     *)
(* reads were begun before it (the request sequence of refreshOnce).       *)
THEOREM WritesAreRead == Spec => []ReadYourWrites
<1>1. ConsoleInv => ReadYourWrites
  BY DEF ConsoleInv, PageInv, ConnectionOK, ReadYourWrites
<1> QED BY <1>1, ConsoleInvariant, PTL

(* The page never shows an older state than before, with any number of     *)
(* overlapping refreshes (refreshOnce).                                    *)
THEOREM PageMovesForward == Spec => DashboardMovesForward
<1>1. ConsoleInv /\ [Next]_vars =>
        [snapshot # Nothing => Shown'.version >= Shown.version]_snapshot
  <2> SUFFICES ASSUME ConsoleInv, [Next]_vars, snapshot' # snapshot, snapshot # Nothing
               PROVE  Shown'.version >= Shown.version
    OBVIOUS
  <2>1. PICK h : PageInv(h)
    BY DEF ConsoleInv
  <2> QED BY <2>1, PageStep
<1> QED BY <1>1, ConsoleInvariant, PTL DEF Spec, DashboardMovesForward

(* A retried end of day has one effect, however many commands were lost,   *)
(* delayed or executed unseen (prepareCommandSubmission).                  *)
THEOREM RetriesHaveOneEffect == Spec => []RetryHasOneEffect
<1>1. ConsoleInv => RetryHasOneEffect
  <2> SUFFICES ASSUME ConsoleInv, NEW c \in applied, NEW d \in applied,
                      d.id = c.id + 1, d.date = c.date
               PROVE  c.id \in accepted.ids
    BY DEF RetryHasOneEffect
  <2>1. c \in Posted /\ d \in Posted
    BY DEF Posted
  <2> QED BY <2>1 DEF ConsoleInv, WriteInv, PostedOK
<1> QED BY <1>1, ConsoleInvariant, PTL

(* An acknowledged end of day settled what was due when its envelope was   *)
(* made, for all trades and dates (runEod of App.tsx).            *)
THEOREM AcknowledgedEodIsDone == Spec => []AcknowledgedEodSettlesFirstDue
<1>1. ConsoleInv => AcknowledgedEodSettlesFirstDue
  <2> SUFFICES ASSUME ConsoleInv, write.pc = "refreshing"
               PROVE  write.prepared.due \cap service.confirmed = {}
    BY DEF AcknowledgedEodSettlesFirstDue
  <2>1. write # Nothing
    BY NothingIsNotShown
  <2>2. /\ pendingEod # Nothing /\ write.prepared = pendingEod
        /\ Command(pendingEod) \in applied
    BY <2>1 DEF ConsoleInv, WriteInv, WriteOK
  <2>3. write.prepared.due \subseteq service.settled
    BY <2>2 DEF ConsoleInv, WriteInv, EnvelopeOK
  <2>4. service.confirmed \cap service.settled = {}
    BY DEF ConsoleInv, PageInv, ServiceOK
  <2> QED BY <2>3, <2>4
<1> QED BY <1>1, ConsoleInvariant, PTL

=============================================================================
