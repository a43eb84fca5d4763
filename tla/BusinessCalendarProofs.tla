----------------------- MODULE BusinessCalendarProofs -----------------------
(***************************************************************************)
(* For every date range, calendar and distribution of months, what         *)
(* calculate_t_plus_two and adjust_modified_following return is what       *)
(* TPlusTwoIsExact and AdjustmentIsModifiedFollowing say.                  *)
(*                                                                         *)
(* The inductive invariant is one loop invariant per loop: what has been   *)
(* counted so far, and which days of the month are known to be closed.     *)
(***************************************************************************)
EXTENDS BusinessCalendar, TLAPS

Pcs == {"counting", "adjusting", "following", "preceding", "returned"}

TypeOK ==
  /\ given \in Dates /\ date \in Dates /\ unadjusted \in Dates
  /\ elapsed \in 0..SettlementLag
  /\ pc \in Pcs /\ operation \in {"tPlusTwo", "adjust"}

(* The joint business days counted on the way from given to date.          *)
Passed == {x \in Dates : given < x /\ x <= date /\ IsJoint(x)}

CountingInv ==
  /\ operation = "tPlusTwo" /\ error = Ok /\ given <= date
  /\ elapsed = 0 => Passed = {}
  /\ elapsed = 1 => \E x \in Passed : Passed = {x}
  /\ elapsed = 2 => \E x \in Passed : x < date /\ date \in Passed /\ Passed = {x, date}

Later(d) == {x \in Dates : d < x /\ IsJoint(x)}
IsSecond(d) ==
  \E x \in Later(given) : d \in Later(x) /\ Later(given) \ Later(d) = {x, d}

(* A search has seen nothing but closed days of one month.                 *)
Closed(days) ==
  \A x \in days : x \in Dates /\ MonthOf[x] = MonthOf[unadjusted] /\ ~IsJoint(x)

FollowingInv ==
  error = Ok /\ unadjusted <= date /\ Closed(unadjusted..date)

PrecedingInv ==
  /\ error = Ok /\ date <= unadjusted /\ Closed(date..unadjusted)
  /\ \A x \in Dates : x > unadjusted /\ SameMonth(x) => ~IsJoint(x)

IInv ==
  /\ TypeOK
  /\ pc = "counting" => CountingInv
  /\ pc # "counting" /\ operation = "tPlusTwo" /\ error # OutOfRange
       => IsSecond(unadjusted)
  /\ pc = "adjusting" => error = Ok /\ date = unadjusted
  /\ pc = "following" => FollowingInv
  /\ pc = "preceding" => PrecedingInv
  /\ AdjustmentIsModifiedFollowing
  /\ TPlusTwoIsExact

-----------------------------------------------------------------------------
LEMMA Initially == Init => IInv
<1> SUFFICES ASSUME Init PROVE IInv
  OBVIOUS
<1>1. TypeOK
  BY DEF Init, TypeOK, Pcs, SettlementLag
<1>2. pc = "counting" => CountingInv
  BY DEF Init, CountingInv, Passed, Dates
<1> QED
  BY <1>1, <1>2 DEF Init, IInv, AdjustmentIsModifiedFollowing, TPlusTwoIsExact

(* The calendars of a call do not change, so no date changes its kind.     *)
LEMMA CallIsFixed ==
  ASSUME UNCHANGED call
  PROVE  /\ given' = given /\ operation' = operation
         /\ \A d : IsJoint(d)' = IsJoint(d)
BY DEF call, IsJoint, IsBusinessDay

LEMMA StepCountDay == IInv /\ CountDay => IInv'
<1> SUFFICES ASSUME IInv, CountDay PROVE IInv'
  OBVIOUS
<1>0. TypeOK /\ CountingInv /\ elapsed < 2
  BY DEF IInv, CountDay, SettlementLag
<1>1. /\ given' = given /\ operation' = operation /\ unadjusted' = unadjusted
      /\ \A d : IsJoint(d)' = IsJoint(d)
  BY CallIsFixed DEF CountDay
<1>2. CASE date = LastDate
  <2>1. pc' = "returned" /\ error' = OutOfRange /\ date' = date /\ elapsed' = elapsed
    BY <1>2, DateRange DEF CountDay, Return
  <2>2. ~ \E d \in Dates : IsSecond(d)
    <3> SUFFICES ASSUME NEW d \in Dates, IsSecond(d) PROVE FALSE
      OBVIOUS
    <3>1. PICK x \in Later(given) : d \in Later(x)
      BY DEF IsSecond
    <3>2. x \in Passed /\ d \in Passed /\ x # d
      BY <1>0, <1>2, <3>1, DateRange DEF Later, Passed, Dates, TypeOK
    <3> QED BY <1>0, <3>2 DEF CountingInv, TypeOK, SettlementLag
  <2>3. TPlusTwoIsExact'
    BY <1>1, <2>1, <2>2 DEF TPlusTwoIsExact, IsSecond, Later
  <2> QED
    BY <1>0, <1>1, <2>1, <2>3
    DEF IInv, TypeOK, Pcs, AdjustmentIsModifiedFollowing, OutOfRange
<1>3. CASE date < LastDate
  <2>1. /\ date' = date + 1 /\ pc' = pc /\ error' = error
        /\ elapsed' = IF IsJoint(date + 1) THEN elapsed + 1 ELSE elapsed
    BY <1>3, DateRange DEF CountDay, ElapsedAfter, Return
  <2>2. date' \in Dates /\ elapsed' \in 0..2 /\ date \in Int /\ given \in Int
    BY <1>0, <1>3, <2>1, DateRange DEF TypeOK, Dates, SettlementLag
  <2>3. Passed' = IF IsJoint(date + 1) THEN Passed \cup {date + 1} ELSE Passed
    BY <1>0, <1>1, <2>1, <2>2 DEF Passed, CountingInv, Dates
  <2>4. \A x \in Passed : x <= date /\ x \in Int
    BY DEF Passed, Dates
  <2>5. CountingInv'
    <3>1. operation' = "tPlusTwo" /\ error' = Ok /\ given' <= date'
      BY <1>0, <1>1, <2>1, <2>2 DEF CountingInv
    <3>2. CASE ~IsJoint(date + 1)
      BY <1>0, <1>1, <2>1, <2>3, <3>1, <3>2 DEF CountingInv
    <3>3. CASE IsJoint(date + 1) /\ elapsed = 0
      BY <1>0, <1>1, <2>1, <2>3, <3>1, <3>3 DEF CountingInv
    <3>4. CASE IsJoint(date + 1) /\ elapsed = 1
      <4>1. PICK x \in Passed : Passed = {x}
        BY <1>0, <3>4 DEF CountingInv
      <4>2. x < date' /\ date' \in Passed' /\ Passed' = {x, date'} /\ elapsed' = 2
        BY <2>1, <2>2, <2>3, <2>4, <3>4, <4>1
      <4> QED BY <3>1, <4>1, <4>2 DEF CountingInv
    <3> QED BY <1>0, <3>2, <3>3, <3>4 DEF TypeOK, SettlementLag
  <2> QED
    BY <1>0, <1>1, <2>1, <2>2, <2>5
    DEF IInv, CountDay, TypeOK, AdjustmentIsModifiedFollowing, TPlusTwoIsExact,
        SettlementLag
<1> QED BY <1>0, <1>2, <1>3, DateRange DEF TypeOK, Dates

LEMMA StepCounted == IInv /\ Counted => IInv'
<1> SUFFICES ASSUME IInv, Counted PROVE IInv'
  OBVIOUS
<1>0. TypeOK /\ CountingInv /\ elapsed = 2
  BY DEF IInv, Counted, SettlementLag
<1>1. /\ given' = given /\ operation' = operation
      /\ \A d : IsJoint(d)' = IsJoint(d)
  BY CallIsFixed DEF Counted
<1>2. IsSecond(date)
  <2>1. PICK x \in Passed : x < date /\ date \in Passed /\ Passed = {x, date}
    BY <1>0 DEF CountingInv
  <2>2. x \in Later(given) /\ date \in Later(x)
    BY <2>1 DEF Passed, Later
  <2>3. Later(given) \ Later(date) = {x, date}
    BY <1>0, <2>1, DateRange DEF Passed, Later, TypeOK, Dates
  <2> QED BY <2>2, <2>3 DEF IsSecond
<1>3. IsSecond(unadjusted)'
  BY <1>1, <1>2 DEF Counted, IsSecond, Later
<1>4. AdjustmentIsModifiedFollowing' /\ TPlusTwoIsExact'
  BY DEF Counted, AdjustmentIsModifiedFollowing, TPlusTwoIsExact
<1>5. TypeOK'
  BY <1>0, <1>1 DEF Counted, TypeOK, Pcs
<1> QED
  BY <1>0, <1>3, <1>4, <1>5 DEF IInv, Counted, CountingInv

(* What a search has found out when it ends with a date.                   *)
AdjustedInv ==
  /\ TypeOK /\ error = Ok /\ IsJoint(date) /\ SameMonth(date)
  /\ operation = "tPlusTwo" => IsSecond(unadjusted)
  /\ \A x \in Dates : /\ unadjusted <= x /\ x < date => ~IsJoint(x)
                      /\ date < x /\ x < unadjusted => ~IsJoint(x)
  /\ date < unadjusted =>
       \A x \in Dates : x >= unadjusted /\ SameMonth(x) => ~IsJoint(x)

LEMMA AdjustedExactly ==
  AdjustedInv => AdjustmentIsModifiedFollowing /\ TPlusTwoIsExact
<1> SUFFICES ASSUME AdjustedInv PROVE AdjustmentIsModifiedFollowing /\ TPlusTwoIsExact
  OBVIOUS
<1> USE DEF AdjustedInv
<1> DEFINE Open == {d \in Dates : IsJoint(d) /\ SameMonth(d)}
<1>1. date \in Open /\ error = Ok
  BY DEF TypeOK
<1>2. ASSUME NEW d \in Open
      PROVE  IF date >= unadjusted THEN d >= unadjusted => date <= d
             ELSE d < unadjusted /\ d <= date
  BY DateRange DEF TypeOK, Dates
<1>3. AdjustmentIsModifiedFollowing
  BY <1>1, <1>2 DEF AdjustmentIsModifiedFollowing
<1>4. ASSUME operation = "tPlusTwo" PROVE date = unadjusted
  <2>1. IsJoint(unadjusted) /\ SameMonth(unadjusted)
    BY <1>4, DateRange DEF IsSecond, Later, SameMonth, Between, TypeOK, Dates
  <2> QED BY <2>1, DateRange DEF TypeOK, Dates
<1>5. TPlusTwoIsExact
  BY <1>4 DEF TPlusTwoIsExact, IsSecond, Later
<1> QED BY <1>3, <1>5

LEMMA StepAdjust == IInv /\ Adjust => IInv'
<1> SUFFICES ASSUME IInv, Adjust PROVE IInv'
  OBVIOUS
<1>0. /\ TypeOK /\ error = Ok /\ date = unadjusted
      /\ operation = "tPlusTwo" => IsSecond(unadjusted)
  BY DEF IInv, Adjust, OutOfRange, Ok
<1>1. /\ given' = given /\ operation' = operation /\ unadjusted' = unadjusted
      /\ date' = date /\ elapsed' = elapsed /\ \A d : IsJoint(d)' = IsJoint(d)
  BY CallIsFixed DEF Adjust
<1>2. IsSecond(unadjusted)' = IsSecond(unadjusted)
  BY <1>1 DEF IsSecond, Later
<1>3. error' = Ok
  BY <1>0 DEF Adjust, Return
<1>4. TypeOK'
  BY <1>0, <1>1 DEF Adjust, Return, TypeOK, Pcs
<1>5. CASE IsJoint(unadjusted)
  <2>1. pc' = "returned"
    BY <1>5 DEF Adjust, Return
  <2>2. SameMonth(unadjusted)'
    BY <1>0, <1>1, DateRange DEF SameMonth, Between, TypeOK, Dates
  <2>3. AdjustedInv'
    BY <1>0, <1>1, <1>2, <1>3, <1>4, <1>5, <2>2, DateRange
    DEF AdjustedInv, TypeOK, Dates
  <2>4. AdjustmentIsModifiedFollowing' /\ TPlusTwoIsExact'
    BY <2>3, AdjustedExactly, PTL
  <2> QED BY <1>0, <1>1, <1>2, <1>4, <2>1, <2>4 DEF IInv
<1>6. CASE ~IsJoint(unadjusted)
  <2>1. pc' = "following"
    BY <1>6 DEF Adjust
  <2>2. FollowingInv'
    BY <1>0, <1>1, <1>3, <1>6 DEF FollowingInv, Closed, TypeOK, Dates
  <2>3. AdjustmentIsModifiedFollowing' /\ TPlusTwoIsExact'
    BY <2>1 DEF AdjustmentIsModifiedFollowing, TPlusTwoIsExact
  <2> QED BY <1>0, <1>1, <1>2, <1>4, <2>1, <2>2, <2>3 DEF IInv
<1> QED BY <1>5, <1>6

LEMMA StepFollowing == IInv /\ SearchFollowing => IInv'
<1> SUFFICES ASSUME IInv, SearchFollowing PROVE IInv'
  OBVIOUS
<1>0. /\ TypeOK /\ FollowingInv /\ error = Ok
      /\ operation = "tPlusTwo" => IsSecond(unadjusted)
  BY DEF IInv, SearchFollowing, OutOfRange, Ok, FollowingInv
<1>1. /\ given' = given /\ operation' = operation /\ unadjusted' = unadjusted
      /\ elapsed' = elapsed /\ \A d : IsJoint(d)' = IsJoint(d)
  BY CallIsFixed DEF SearchFollowing
<1>2. IsSecond(unadjusted)' = IsSecond(unadjusted)
  BY <1>1 DEF IsSecond, Later
<1>3. CASE InMonth(date + 1) /\ MoveTo(date + 1)
  <2>1. /\ date' = date + 1 /\ date' \in Dates /\ error' = Ok
        /\ MonthOf[date'] = MonthOf[unadjusted]
    BY <1>0, <1>3 DEF InMonth, MoveTo, Return
  <2>2. TypeOK'
    BY <1>0, <1>1, <1>3, <2>1 DEF MoveTo, Return, TypeOK, Pcs, SearchFollowing
  <2>3. CASE IsJoint(date + 1)
    <3>1. pc' = "returned"
      BY <1>3, <2>3 DEF MoveTo, Return
    <3>2. SameMonth(date)'
      BY <1>0, <1>1, <2>1, DateRange
      DEF SameMonth, Between, TypeOK, Dates, FollowingInv, Closed
    <3>3. AdjustedInv'
      BY <1>0, <1>1, <1>2, <2>1, <2>2, <2>3, <3>2, DateRange
      DEF AdjustedInv, TypeOK, Dates, FollowingInv, Closed
    <3>4. AdjustmentIsModifiedFollowing' /\ TPlusTwoIsExact'
      BY <3>3, AdjustedExactly, PTL
    <3> QED BY <1>0, <1>1, <1>2, <2>2, <3>1, <3>4 DEF IInv
  <2>4. CASE ~IsJoint(date + 1)
    <3>1. pc' = "following"
      BY <1>3, <2>4 DEF MoveTo, SearchFollowing
    <3>2. FollowingInv'
      BY <1>0, <1>1, <2>1, <2>4, DateRange
      DEF FollowingInv, Closed, TypeOK, Dates
    <3>3. AdjustmentIsModifiedFollowing' /\ TPlusTwoIsExact'
      BY <3>1 DEF AdjustmentIsModifiedFollowing, TPlusTwoIsExact
    <3> QED BY <1>0, <1>1, <1>2, <2>2, <3>1, <3>2, <3>3 DEF IInv
  <2> QED BY <2>3, <2>4
<1>4. CASE ~InMonth(date + 1)
  <2>1. pc' = "preceding" /\ date' = unadjusted /\ error' = Ok
    BY <1>0, <1>4 DEF SearchFollowing
  <2>2. TypeOK'
    BY <1>0, <1>1, <2>1 DEF TypeOK, Pcs
  <2>3. ASSUME NEW x \in Dates, x > unadjusted, SameMonth(x) PROVE ~IsJoint(x)
    <3>1. x <= date
      <4> SUFFICES ASSUME date < x PROVE FALSE
        BY <1>0, DateRange DEF TypeOK, Dates
      <4>1. date + 1 \in unadjusted..x /\ date + 1 \in Dates
        BY <1>0, <2>3, DateRange DEF TypeOK, Dates, FollowingInv
      <4> QED BY <1>4, <2>3, <4>1 DEF InMonth, SameMonth, Between
    <3> QED BY <1>0, <2>3, <3>1, DateRange DEF TypeOK, Dates, FollowingInv, Closed
  <2>4. \A x \in Dates : SameMonth(x)' = SameMonth(x)
    BY <1>1 DEF SameMonth, Between
  <2>5. PrecedingInv'
    BY <1>0, <1>1, <2>1, <2>3, <2>4, DateRange
    DEF PrecedingInv, FollowingInv, Closed, TypeOK, Dates
  <2>6. AdjustmentIsModifiedFollowing' /\ TPlusTwoIsExact'
    BY <2>1 DEF AdjustmentIsModifiedFollowing, TPlusTwoIsExact
  <2> QED BY <1>0, <1>1, <1>2, <2>1, <2>2, <2>5, <2>6 DEF IInv
<1> QED BY <1>3, <1>4 DEF SearchFollowing

LEMMA StepPreceding == IInv /\ SearchPreceding => IInv'
<1> SUFFICES ASSUME IInv, SearchPreceding PROVE IInv'
  OBVIOUS
<1>0. /\ TypeOK /\ PrecedingInv /\ error = Ok
      /\ operation = "tPlusTwo" => IsSecond(unadjusted)
  BY DEF IInv, SearchPreceding, OutOfRange, Ok, PrecedingInv
<1>1. /\ given' = given /\ operation' = operation /\ unadjusted' = unadjusted
      /\ elapsed' = elapsed /\ \A d : IsJoint(d)' = IsJoint(d)
  BY CallIsFixed DEF SearchPreceding
<1>2. IsSecond(unadjusted)' = IsSecond(unadjusted)
  BY <1>1 DEF IsSecond, Later
<1>a. \A x \in Dates : SameMonth(x)' = SameMonth(x)
  BY <1>1 DEF SameMonth, Between
<1>3. CASE InMonth(date - 1) /\ MoveTo(date - 1)
  <2>1. /\ date' = date - 1 /\ date' \in Dates /\ error' = Ok
        /\ MonthOf[date'] = MonthOf[unadjusted]
    BY <1>0, <1>3 DEF InMonth, MoveTo, Return
  <2>2. TypeOK'
    BY <1>0, <1>1, <1>3, <2>1 DEF MoveTo, Return, TypeOK, Pcs, SearchPreceding
  <2>3. CASE IsJoint(date - 1)
    <3>1. pc' = "returned"
      BY <1>3, <2>3 DEF MoveTo, Return
    <3>2. SameMonth(date)'
      BY <1>0, <1>1, <2>1, DateRange
      DEF SameMonth, Between, TypeOK, Dates, PrecedingInv, Closed
    <3>3. AdjustedInv'
      BY <1>0, <1>1, <1>2, <1>a, <2>1, <2>2, <2>3, <3>2, DateRange
      DEF AdjustedInv, TypeOK, Dates, PrecedingInv, Closed
    <3>4. AdjustmentIsModifiedFollowing' /\ TPlusTwoIsExact'
      BY <3>3, AdjustedExactly, PTL
    <3> QED BY <1>0, <1>1, <1>2, <2>2, <3>1, <3>4 DEF IInv
  <2>4. CASE ~IsJoint(date - 1)
    <3>1. pc' = "preceding"
      BY <1>3, <2>4 DEF MoveTo, SearchPreceding
    <3>2. PrecedingInv'
      BY <1>0, <1>1, <1>a, <2>1, <2>4, DateRange
      DEF PrecedingInv, Closed, TypeOK, Dates
    <3>3. AdjustmentIsModifiedFollowing' /\ TPlusTwoIsExact'
      BY <3>1 DEF AdjustmentIsModifiedFollowing, TPlusTwoIsExact
    <3> QED BY <1>0, <1>1, <1>2, <2>2, <3>1, <3>2, <3>3 DEF IInv
  <2> QED BY <2>3, <2>4
<1>4. CASE ~InMonth(date - 1)
  <2>1. pc' = "returned" /\ error' = MonthIsClosed /\ date' = date
    BY <1>4 DEF SearchPreceding, Return
  <2>2. TypeOK'
    BY <1>0, <1>1, <2>1 DEF TypeOK, Pcs
  <2>3. ASSUME NEW x \in Dates, SameMonth(x) PROVE ~IsJoint(x)
    <3>1. CASE x > unadjusted
      BY <1>0, <2>3, <3>1 DEF PrecedingInv
    <3>2. CASE x <= unadjusted
      <4>1. date <= x
        <5> SUFFICES ASSUME x < date PROVE FALSE
          BY <1>0, DateRange DEF TypeOK, Dates
        <5>1. date - 1 \in x..unadjusted /\ date - 1 \in Dates
          BY <1>0, <2>3, DateRange DEF TypeOK, Dates, PrecedingInv
        <5> QED BY <1>4, <2>3, <5>1 DEF InMonth, SameMonth, Between
      <4> QED BY <1>0, <2>3, <3>2, <4>1, DateRange
              DEF TypeOK, Dates, PrecedingInv, Closed
    <3> QED BY <1>0, <3>1, <3>2, DateRange DEF TypeOK, Dates
  <2>4. {d \in Dates : IsJoint(d) /\ SameMonth(d)}' = {}
    BY <1>1, <1>a, <2>3
  <2>5. AdjustmentIsModifiedFollowing'
    BY <2>1, <2>4 DEF AdjustmentIsModifiedFollowing
  <2>6. operation # "tPlusTwo"
    <3>1. IsJoint(unadjusted) => operation # "tPlusTwo"
      BY <1>0, DateRange DEF PrecedingInv, Closed, TypeOK, Dates
    <3>2. IsSecond(unadjusted) => IsJoint(unadjusted)
      BY DEF IsSecond, Later
    <3> QED BY <1>0, <3>1, <3>2
  <2>7. TPlusTwoIsExact'
    BY <1>1, <2>6 DEF TPlusTwoIsExact
  <2> QED BY <1>0, <1>1, <1>2, <2>1, <2>2, <2>5, <2>6, <2>7 DEF IInv
<1> QED BY <1>3, <1>4 DEF SearchPreceding

LEMMA StepStutter == IInv /\ UNCHANGED vars => IInv'
<1> SUFFICES ASSUME IInv, UNCHANGED vars PROVE IInv'
  OBVIOUS
<1>1. /\ date' = date /\ pc' = pc /\ error' = error /\ elapsed' = elapsed
      /\ unadjusted' = unadjusted /\ given' = given /\ operation' = operation
      /\ \A d : IsJoint(d)' = IsJoint(d)
  BY CallIsFixed DEF vars, call
<1>2. \A d : IsSecond(d)' = IsSecond(d) /\ SameMonth(d)' = SameMonth(d)
  BY <1>1 DEF IsSecond, Later, SameMonth, Between
<1>3. TypeOK' /\ (pc = "counting" => CountingInv')
  BY <1>1 DEF IInv, TypeOK, CountingInv, Passed
<1>4. AdjustmentIsModifiedFollowing'
  BY <1>1, <1>2 DEF IInv, AdjustmentIsModifiedFollowing
<1>5. TPlusTwoIsExact'
  BY <1>1, <1>2 DEF IInv, TPlusTwoIsExact, IsSecond, Later
<1> QED
  BY <1>1, <1>2, <1>3, <1>4, <1>5 DEF IInv, FollowingInv, PrecedingInv, Closed

(* The loop invariants hold in every behaviour.                            *)
THEOREM CalendarInvariant == Spec => []IInv
<1>1. IInv /\ [Next]_vars => IInv'
  BY StepCountDay, StepCounted, StepAdjust, StepFollowing, StepPreceding,
     StepStutter DEF Next
<1> QED BY Initially, <1>1, PTL DEF Spec

(* An adjusted date is the modified following one, for any holidays and    *)
(* months (adjust_modified_following).                                     *)
THEOREM AdjustedDatesAreExact == Spec => []AdjustmentIsModifiedFollowing
<1>1. IInv => AdjustmentIsModifiedFollowing
  BY DEF IInv
<1> QED BY <1>1, CalendarInvariant, PTL

(* A settlement date is the second joint business day after the trade      *)
(* date, and is never adjusted (calculate_t_plus_two).                     *)
THEOREM SettlementDatesAreExact == Spec => []TPlusTwoIsExact
<1>1. IInv => TPlusTwoIsExact
  BY DEF IInv
<1> QED BY <1>1, CalendarInvariant, PTL

=============================================================================
