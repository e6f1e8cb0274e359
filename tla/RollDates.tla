------------------------------ MODULE RollDates ------------------------------
(***************************************************************************)
(* The calendar of app/rollover.py: when a contract rolls, which contract  *)
(* comes next, what a one-digit year means, and the proposal the daily     *)
(* check makes.  The days pass one by one over mapped contracts and the    *)
(* user applies proposals.  A date is a day number.                        *)
(***************************************************************************)
EXTENDS Integers, FiniteSets, FiniteSetsExt

CONSTANTS
    Years,          \* years the days run through
    Step            \* days that pass at once

Families == {"index", "fx", "crypto", "metal", "treasury", "energy", "other"}
Quarterly == {3, 6, 9, 12}

VARIABLES fam, month, year, today

vars == <<fam, month, year, today>>

(***************************************************************************)
(* The proleptic Gregorian calendar (Python's datetime.date)               *)
(***************************************************************************)
Leap(y) == y % 4 = 0 /\ (y % 100 # 0 \/ y % 400 = 0)
MonthDays(y, m) == IF m = 2 THEN (IF Leap(y) THEN 29 ELSE 28) ELSE IF m \in {4, 6, 9, 11} THEN 30 ELSE 31
DaysBefore == <<0, 31, 59, 90, 120, 151, 181, 212, 243, 273, 304, 334>>
Date(y, m, d) ==
    365 * (y - 1) + (y - 1) \div 4 - (y - 1) \div 100 + (y - 1) \div 400
    + DaysBefore[m] + (IF m > 2 /\ Leap(y) THEN 1 ELSE 0) + d
Weekday(n) == (n - 1) % 7          \* Monday is 0
YearOf(n) == CHOOSE y \in (Min(Years) - 1)..(Max(Years) + 1) : Date(y, 1, 1) <= n /\ n < Date(y + 1, 1, 1)

(***************************************************************************)
(* Date helpers                                                            *)
(***************************************************************************)
\* fault: the first of the month falling on the weekday counts as the next one
NthWeekdayLate(y, m, wd, n) == Date(y, m, 1) + ((wd - Weekday(Date(y, m, 1)) - 1) % 7) + 1 + 7 * (n - 1)
NthWeekday(y, m, wd, n) == Date(y, m, 1) + ((wd - Weekday(Date(y, m, 1))) % 7) + 7 * (n - 1)
LastWeekday(y, m, wd) == LET last == Date(y, m, MonthDays(y, m)) IN last - ((Weekday(last) - wd) % 7)
PrevMonth(y, m) == IF m = 1 THEN <<y - 1, 12>> ELSE <<y, m - 1>>

BusinessDaysBefore(d, n) ==
    LET f[x \in (d - 14)..d, k \in 0..n] ==
          IF k = 0 THEN x ELSE f[x - 1, IF Weekday(x - 1) < 5 THEN k - 1 ELSE k]
    IN  f[d, n]

LastBusinessDay(y, m) ==
    LET last == Date(y, m, MonthDays(y, m))
        f[x \in (last - 6)..last] == IF Weekday(x) < 5 THEN x ELSE f[x - 1]
    IN  f[last]

RollDate(f, m, y) ==
    LET p == PrevMonth(y, m) IN
    CASE f = "index" -> NthWeekday(y, m, 4, 3)
      [] f = "fx" -> BusinessDaysBefore(NthWeekday(y, m, 2, 3), 2)
      [] f = "crypto" -> LastWeekday(y, m, 4)
      [] f = "energy" -> BusinessDaysBefore(Date(p[1], p[2], 25), 3)
      [] f \in {"metal", "treasury"} -> LastBusinessDay(p[1], p[2])
      [] OTHER -> Date(y, m, 1)

NextContract(f, m, y) ==
    IF f \in {"index", "fx", "treasury", "crypto"} \/ (m \in Quarterly /\ f = "other")
    THEN LET later == {q \in Quarterly : q > m} IN
         IF later # {} THEN <<Min(later), y>> ELSE <<3, y + 1>>
    ELSE IF m = 12 THEN <<1, y + 1>> ELSE <<m + 1, y>>

\* parse_contract: the decade of a one-digit year
ParseYear(digit, t) ==
    LET y == (YearOf(t) \div 10) * 10 + digit IN
    IF y < YearOf(t) - 1 THEN y + 10 ELSE IF y > YearOf(t) + 8 THEN y - 10 ELSE y

\* fault: one contract on, whatever its own roll date
ProposalNext(f, m, y, t) == NextContract(f, m, y)
\* evaluate: the first contract whose own roll date is still ahead (of the next forty)
Proposal(f, m, y, t) ==
    LET first[c \in (1..12) \X (y..(y + 9))] ==
            LET p == <<c[1], ParseYear(c[2] % 10, t)>> IN
            IF RollDate(f, p[1], p[2]) >= t THEN p ELSE first[NextContract(f, p[1], p[2])]
    IN  first[NextContract(f, m, y)]

(***************************************************************************)
(* The days pass; the user applies a proposal                              *)
(***************************************************************************)
TypeOK == fam \in Families /\ month \in 1..12 /\ year \in (Min(Years) - 1)..(Max(Years) + 2) /\ today \in Nat

Init ==
    /\ fam \in Families /\ month \in 1..12 /\ year = Min(Years)
    /\ today = Date(Min(Years), 1, 1)

DayPasses ==
    /\ today + Step <= Date(Max(Years), 12, 31) /\ today' = today + Step
    /\ UNCHANGED <<fam, month, year>>

Apply ==
    /\ RollDate(fam, month, year) <= today + 10
    /\ month' = Proposal(fam, month, year, today)[1] /\ year' = Proposal(fam, month, year, today)[2]
    /\ UNCHANGED <<fam, today>>

Next == DayPasses \/ Apply
Spec == Init /\ [][Next]_vars

(***************************************************************************)
(* Properties                                                              *)
(***************************************************************************)
Days(y, m) == Date(y, m, 1)..Date(y, m, MonthDays(y, m))
On(y, m, wd) == {d \in Days(y, m) : Weekday(d) = wd}
Third(s) == CHOOSE d \in s : Cardinality({e \in s : e < d}) = 2
Business(s) == {d \in s : Weekday(d) < 5}
\* the n-th business day before a date
Before(d, n) == CHOOSE x \in (d - 14)..d : x \in Business({x}) /\ Cardinality(Business(x..(d - 1))) = n

Reference(f, m, y) ==
    LET p == PrevMonth(y, m) IN
    CASE f = "index" -> Third(On(y, m, 4))
      [] f = "fx" -> Before(Third(On(y, m, 2)), 2)
      [] f = "crypto" -> Max(On(y, m, 4))
      [] f = "energy" -> Before(Date(p[1], p[2], 25), 3)
      [] f \in {"metal", "treasury"} -> Max(Business(Days(p[1], p[2])))
      [] OTHER -> Min(Days(y, m))

\* The roll date of every contract is the day the exchange convention names
\* (app/rollover.py's table: third Friday, two business days before the third
\* Wednesday, last Friday, last business day of the month before).
DatesRight == RollDate(fam, month, year) = Reference(fam, month, year)

\* What the daily check proposes, read back from its one-digit name, is a later
\* contract that has not rolled itself (app/rollover.py "must not roll to another
\* dead month").
ProposalAlive ==
    LET p == Proposal(fam, month, year, today) IN
    RollDate(fam, month, year) <= today + 10 =>
        RollDate(fam, p[1], p[2]) >= today /\ p[2] * 12 + p[1] > year * 12 + month
=============================================================================
