----------------------------- MODULE ModbusClock -----------------------------
(***************************************************************************)
(* How a Modbus master sets the clock of the device: one request for three *)
(* holding registers, year and month, day and hour, minute and second.     *)
(* Their handlers run in this order, each changing its part of the current *)
(* date and time and setting the system clock to the result, at once.      *)
(***************************************************************************)
EXTENDS Integers

CONSTANTS
  Starts,     \* what the clock may show at first: [year, month, day, hour, ms],
              \* dates that exist, from 2000 to 2099
  Requests,   \* what masters write: bytes, the year without its century
  Legal,      \* a minute and second; only whether both are below 60 is kept
  Illegal,
  Doomsday    \* uint(-1) seconds, in 2106: toTime_t() of an invalid date

VARIABLES
  now,        \* the system clock
  asked,      \* the last request
  hold,       \* the three registers
  handler     \* the register whose handler runs next; 0: none

vars == <<now, asked, hold, handler>>

-----------------------------------------------------------------------------
(* Dates.                                                                  *)

Leap(y) == y % 4 = 0 /\ (y % 100 # 0 \/ y % 400 = 0)

Days(y, m) ==
  CASE m = 2               -> IF Leap(y) THEN 29 ELSE 28
    [] m \in {4, 6, 9, 11} -> 30
    [] OTHER               -> 31

(* QDate::isValid.                                                         *)
Valid(t) == t.month \in 1..12 /\ t.day \in 1..Days(t.year, t.month)

Hours(t) == ((t.year * 12 + t.month) * 31 + t.day) * 24 + t.hour

(* stime(datetime.toTime_t()): unsigned seconds of 32 bits since 1970.     *)
(* With a time_t of 32 bits uint(-1) is negative, and stime refuses it.    *)
(* (That time_t ends in 2038, which is left out.)                          *)
SystemTimes(t) ==
  IF Valid(t) /\ t.year >= 1970 /\ Hours(t) < Hours(Doomsday) THEN {t} ELSE {Doomsday, now}

(* QString("20%1").arg(year).toInt(): two digits make a year of four.      *)
FullYear(y) == IF y < 10 THEN 200 + y ELSE 2000 + y

-----------------------------------------------------------------------------
Init ==
  /\ now \in Starts /\ asked = [now EXCEPT !.year = @ - 2000]
  /\ hold = <<0, 0, 0>> /\ handler = 0

(* The server stores the registers and signals dataWritten.                *)
Write(r) ==
  /\ handler = 0 /\ handler' = 1 /\ asked' = r
  /\ hold' = <<<<r.year, r.month>>, <<r.day, r.hour>>, r.ms>>
  /\ UNCHANGED now

(* The loop of onReceivedWritten: a value out of range is replaced by the  *)
(* current one in the register, any other goes into the clock.             *)
Handle(i, error, current, changed) ==
  /\ handler = i /\ handler' = (i + 1) % 4
  /\ IF error
     THEN hold' = [hold EXCEPT ![i] = current] /\ UNCHANGED now
     ELSE now' \in SystemTimes(changed) /\ UNCHANGED hold
  /\ UNCHANGED asked

SysYearMonth ==
  LET y == hold[1][1]  m == hold[1][2] IN
  Handle(1, y > 99 \/ m > 12, <<now.year % 100, now.month>>,
         [now EXCEPT !.year = FullYear(y), !.month = m])

SysDayHour ==
  LET d == hold[2][1]  h == hold[2][2] IN
  Handle(2, d > 31 \/ h > 23, <<now.day, now.hour>>,
         [now EXCEPT !.day = d, !.hour = h])

SysMinSecond ==
  Handle(3, hold[3] = Illegal, now.ms, [now EXCEPT !.ms = hold[3]])

Next ==
  \/ \E r \in Requests : Write(r)
  \/ SysYearMonth \/ SysDayHour \/ SysMinSecond

Spec == Init /\ [][Next]_vars

-----------------------------------------------------------------------------
(* A date and time that exists, in a year the registers can name.          *)
Real(r) ==
  /\ r.year \in 0..99 /\ Valid([r EXCEPT !.year = 2000 + @])
  /\ r.hour \in 0..23 /\ r.ms = Legal

(* When a master has written a date and time that exists, the clock shows  *)
(* it ("set system datetime", CModbus.cpp:358, 387, 418).                  *)
ClockAsWritten ==
  handler = 0 /\ Real(asked) => now = [asked EXCEPT !.year = 2000 + @]
=============================================================================
