-------------------------- MODULE BusinessCalendar --------------------------
(***************************************************************************)
(* Settlement dates (src/domain/business_calendar.cpp).  A settlement day  *)
(* must be open in the calendars of both currencies: T+2 counts such joint *)
(* business days, and modified following moves a closed date to one that   *)
(* lies in the same month.                                                 *)
(*                                                                         *)
(* A behaviour is one call of calculate_t_plus_two or of                   *)
(* adjust_modified_following, one iteration of a loop per step.            *)
(***************************************************************************)
EXTENDS Integers, Outcome

CONSTANTS FirstDate, LastDate,   \* the range of IsoDate, as days
          MonthOf,               \* the name of a date's month; names recur
          Weekends               \* the Saturdays and Sundays

Dates == FirstDate..LastDate

ASSUME DateRange == FirstDate \in Int /\ LastDate \in Int /\ FirstDate <= LastDate
ASSUME MonthNames == MonthOf = [d \in Dates |-> MonthOf[d]]
ASSUME WeekendDates == Weekends \subseteq Dates

(* HolidayCalendar::create sorts its list and refuses one with a duplicate, *)
(* so a calendar is the set of its holidays, and any set of dates is one.  *)
Calendars == SUBSET Dates

VARIABLES
  first, second,  \* the calendars of the two currencies
  operation,      \* "tPlusTwo" or "adjust"
  given,          \* the date the call was given
  pc,             \* "counting", "adjusting", "following", "preceding", "returned"
  date,           \* the date the loop has reached; the answer, if there is one
  elapsed,        \* elapsed_business_days
  unadjusted,     \* what adjust_modified_following was given
  error           \* the error of the call, or Ok

call == <<first, second, operation, given>>
vars == <<call, pc, date, elapsed, unadjusted, error>>

SettlementLag == 2
OutOfRange == "DateOutOfRange"
MonthIsClosed == "NoJointBusinessDayInMonth"

IsBusinessDay(calendar, d) == d \notin Weekends /\ d \notin calendar

IsJoint(d) == IsBusinessDay(first, d) /\ IsBusinessDay(second, d)

Init ==
  /\ first \in Calendars /\ second \in Calendars /\ given \in Dates
  /\ \/ operation = "tPlusTwo" /\ pc = "counting"
     \/ operation = "adjust" /\ pc = "adjusting"
  /\ date = given /\ unadjusted = given
  /\ elapsed = 0 /\ error = Ok

Return(outcome) == pc' = "returned" /\ error' = outcome

(* Mutant of ElapsedAfter: only one of the calendars is asked.             *)
ElapsedInFirst(d) == IF IsBusinessDay(first, d) THEN elapsed + 1 ELSE elapsed
ElapsedAfter(d) == IF IsJoint(d) THEN elapsed + 1 ELSE elapsed

(* The date of the call is day zero: only later dates count.               *)
CountDay ==
  /\ pc = "counting" /\ elapsed < SettlementLag
  /\ \/ /\ date = LastDate
        /\ Return(OutOfRange)
        /\ UNCHANGED <<date, elapsed>>
     \/ /\ date < LastDate
        /\ date' = date + 1
        /\ elapsed' = ElapsedAfter(date + 1)
        /\ UNCHANGED <<pc, error>>
  /\ UNCHANGED <<call, unadjusted>>

Counted ==
  /\ pc = "counting" /\ elapsed = SettlementLag
  /\ pc' = "adjusting" /\ unadjusted' = date
  /\ UNCHANGED <<call, date, elapsed, error>>

Adjust ==
  /\ pc = "adjusting"
  /\ \/ IsJoint(unadjusted) /\ Return(Ok)
     \/ ~IsJoint(unadjusted) /\ pc' = "following" /\ UNCHANGED error
  /\ UNCHANGED <<call, date, elapsed, unadjusted>>

IsADate(d) == d \in Dates                          \* mutant of InMonth
InMonth(d) == d \in Dates /\ MonthOf[d] = MonthOf[unadjusted]

(* One step of a search; a joint business day ends it.                     *)
MoveTo(d) ==
  /\ date' = d
  /\ \/ IsJoint(d) /\ Return(Ok)
     \/ ~IsJoint(d) /\ UNCHANGED <<pc, error>>

(* Past the month, or past the last date, the search turns back.           *)
SearchFollowing ==
  /\ pc = "following"
  /\ \/ InMonth(date + 1) /\ MoveTo(date + 1)
     \/ ~InMonth(date + 1) /\ pc' = "preceding" /\ date' = unadjusted
                           /\ UNCHANGED error
  /\ UNCHANGED <<call, elapsed, unadjusted>>

SearchPreceding ==
  /\ pc = "preceding"
  /\ \/ InMonth(date - 1) /\ MoveTo(date - 1)
     \/ ~InMonth(date - 1) /\ Return(MonthIsClosed) /\ UNCHANGED date
  /\ UNCHANGED <<call, elapsed, unadjusted>>

Next == CountDay \/ Counted \/ Adjust \/ SearchFollowing \/ SearchPreceding

Spec == Init /\ [][Next]_vars

-----------------------------------------------------------------------------
Between(d, e) == d..e \cup e..d
SameMonth(d) == \A x \in Between(unadjusted, d) : MonthOf[x] = MonthOf[unadjusted]

(* Modified following: the nearest joint business day not before the date  *)
(* and in its month; failing that, the nearest before it in the month; an  *)
(* error exactly when the month has none at all.  Two loops that turn at a *)
(* month boundary or at the ends of the calendar have to agree with it.    *)
AdjustmentIsModifiedFollowing ==
  LET Open == {d \in Dates : IsJoint(d) /\ SameMonth(d)}
  IN  pc = "returned" /\ error # OutOfRange =>
        IF Open = {} THEN error = MonthIsClosed
        ELSE /\ error = Ok /\ date \in Open
             /\ \A d \in Open :
                  IF date >= unadjusted
                  THEN d >= unadjusted => date <= d
                  ELSE d < unadjusted /\ d <= date

(* T+2 is the second joint business day after the trade date, which never  *)
(* needs an adjustment: two such days lie in (given, date], and a call    *)
(* fails only when the calendar has fewer than two left.                   *)
TPlusTwoIsExact ==
  LET Later(d) == {x \in Dates : d < x /\ IsJoint(x)}
      IsSecond(d) ==
        \E x \in Later(given) : d \in Later(x) /\ Later(given) \ Later(d) = {x, d}
  IN  pc = "returned" /\ operation = "tPlusTwo" =>
        \/ error = Ok /\ IsSecond(date)
        \/ error = OutOfRange /\ ~ \E d \in Dates : IsSecond(d)

=============================================================================
