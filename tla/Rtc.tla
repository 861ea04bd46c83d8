-------------------------------- MODULE Rtc --------------------------------
(***************************************************************************)
(* rtc_get_time of devices/rtc.c, which reads six registers one by one     *)
(* while the clock goes on counting.  The lengths of minutes, hours, days  *)
(* and months are constants, so that the carries are met.                  *)
(***************************************************************************)
EXTENDS Integers, Sequences, FiniteSets

CONSTANTS
  SecPerMin, MinPerHour, HourPerDay,
  days_per_month,       \* a sequence
  FirstYear, LastYear,  \* years the clock's two digits run through
  MaxElapsed            \* seconds a turn of the loop may take

VARIABLES
  clock,        \* the instant the registers show
  got,          \* the components read in this turn of the loop
  elapsed,      \* seconds gone by in this turn
  result        \* what the last call returned: the seconds, the components
                \* they came from, and the instant of the return

rtcVars == <<clock, got, elapsed, result>>

NoResult == [time |-> -1]
Registers == <<"sec", "min", "hour", "mday", "mon", "year">>

-----------------------------------------------------------------------------
(* The clock, external to the kernel, counts in binary coded decimal.      *)
Bcd(n) == (n \div 10) * 16 + (n % 10)
bcd_to_bin(x) == (x % 16) + (x \div 16) * 10
cmos_read(c, register) == Bcd(c[register])

MonthDays(c) == days_per_month[c.mon] + (IF c.mon = 2 /\ c.year % 4 = 0 THEN 1 ELSE 0)
Carry(c) ==
  IF c.sec < SecPerMin - 1 THEN [c EXCEPT !.sec = @ + 1]
  ELSE IF c.min < MinPerHour - 1 THEN [c EXCEPT !.sec = 0, !.min = @ + 1]
  ELSE IF c.hour < HourPerDay - 1 THEN [c EXCEPT !.sec = 0, !.min = 0, !.hour = @ + 1]
  ELSE IF c.mday < MonthDays(c) THEN [c EXCEPT !.sec = 0, !.min = 0, !.hour = 0, !.mday = @ + 1]
  ELSE IF c.mon < Len(days_per_month)
       THEN [c EXCEPT !.sec = 0, !.min = 0, !.hour = 0, !.mday = 1, !.mon = @ + 1]
  ELSE [sec |-> 0, min |-> 0, hour |-> 0, mday |-> 1, mon |-> 1, year |-> (c.year + 1) % 100]

ClockTicks ==
  /\ elapsed < MaxElapsed /\ Carry(clock).year \in FirstYear..LastYear
  /\ clock' = Carry(clock) /\ elapsed' = elapsed + 1
  /\ UNCHANGED <<got, result>>

(* The seconds the code makes of the components.                           *)
Year(y) == (IF y < 70 THEN y + 100 ELSE y) - 70
Day == SecPerMin * MinPerHour * HourPerDay
SecondsOf(c) ==
  LET y == Year(c.year)
      days[i \in 0..c.mon] == IF i = 0 THEN 0 ELSE days[i - 1] + days_per_month[i]
  IN (y * 365 + (y - 1) \div 4 + days[c.mon] + (IF c.mon > 2 /\ y % 4 = 0 THEN 1 ELSE 0) + c.mday - 1) * Day
       + (c.hour * MinPerHour + c.min) * SecPerMin + c.sec

(* The loop's condition; the mutant takes the first reading.               *)
FirstReading(again) == TRUE
Stable(again) == got[1] = again

(* Each turn of rtc_get_time's loop reads the registers in order, then the *)
(* seconds again; a call begins when it likes.                             *)
rtc_get_time ==
  IF Len(got) < Len(Registers)
  THEN /\ got' = Append(got, bcd_to_bin(cmos_read(clock, Registers[Len(got) + 1])))
       /\ result' = NoResult /\ UNCHANGED <<clock, elapsed>>
  ELSE LET again == bcd_to_bin(cmos_read(clock, "sec"))
           c == [sec |-> got[1], min |-> got[2], hour |-> got[3], mday |-> got[4], mon |-> got[5], year |-> got[6]]
       IN /\ got' = <<>> /\ elapsed' = 0
          /\ result' = IF Stable(again) THEN [time |-> SecondsOf(c), from |-> c, at |-> clock] ELSE NoResult
          /\ UNCHANGED clock

RtcInit ==
  /\ clock \in [sec : 0..(SecPerMin - 1), min : 0..(MinPerHour - 1), hour : {HourPerDay - 1},
                mday : {1, days_per_month[1]}, mon : 1..Len(days_per_month), year : {FirstYear}]
  /\ clock.mday <= MonthDays(clock)
  /\ got = <<>> /\ elapsed = 0 /\ result = NoResult
RtcNext == ClockTicks \/ rtc_get_time

-----------------------------------------------------------------------------
(* As long as reading the registers takes less than a minute, the time     *)
(* returned is made of the components of one instant, the one of the       *)
(* return; and within a month it grows by a second each second.            *)
TimeOfAnInstant ==
  /\ result # NoResult => result.from = result.at /\ result.time = SecondsOf(result.at)
  /\ Carry(clock).mon = clock.mon => SecondsOf(Carry(clock)) = SecondsOf(clock) + 1
=============================================================================
