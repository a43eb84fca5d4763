------------------------- MODULE MCBusinessCalendar -------------------------
(***************************************************************************)
(* Seven dates in three months for TLC, with every pair of calendars: the  *)
(* first and the last month touch the ends of the date range, and bear the *)
(* same name.                                                              *)
(***************************************************************************)
EXTENDS BusinessCalendar

MCMonthOf == [d \in Dates |-> IF d \in 3..5 THEN "even" ELSE "odd"]
MCWeekends == {5}

=============================================================================
