------------------------------ MODULE Calendar ------------------------------
(***************************************************************************)
(* The clock keeps time as a calendar in binary-coded decimal, and the      *)
(* program converts in three places: Unix time to the registers when the    *)
(* clock is set, the registers to Unix time when it is read, and the        *)
(* expiry date of a certificate to Unix time, by a formula of its own.      *)
(* Certificates are compared with the clock, so all of them have to agree.  *)
(*                                                                          *)
(* A Unix time is a number of days and a second of the day.  The program    *)
(* has it as one 32-bit number, which reaches beyond the clock's last day.  *)
(***************************************************************************)
EXTENDS Naturals

CONSTANT Seconds   \* the seconds of a day that are tried

ASSUME CalendarAssumption == \A second \in Seconds : second \in Nat /\ second < 86400

FirstDay == 10957   \* RTC_UNIX_YEAR_2000, in days
EndDay == 47482     \* RTC_UNIX_YEAR_2100, in days

ToBcd(value) == (value \div 10) * 16 + (value % 10)
FromBcd(value) == (value \div 16) * 10 + (value % 16)

(* Mutant: every fourth year is a leap year and 2000 is not. *)
IsLeapYearByCentury(year) == year % 4 = 0 /\ year % 100 # 0

IsLeapYear(year) == year % 4 = 0 /\ (year % 100 # 0 \/ year % 400 = 0)

DaysInYear(year) == IF IsLeapYear(year) THEN 366 ELSE 365

DaysInMonth(year, month) ==
  IF month = 2 /\ IsLeapYear(year)
  THEN 29
  ELSE <<31, 28, 31, 30, 31, 30, 31, 31, 30, 31, 30, 31>>[month]

-----------------------------------------------------------------------------
(* Rtc_SetUnixTime: whole years, then whole months, are taken off. *)
SplitYear[days \in Nat, year \in Nat] ==
  IF days >= DaysInYear(year)
  THEN SplitYear[days - DaysInYear(year), year + 1]
  ELSE [days |-> days, year |-> year]

SplitMonth[days \in Nat, year \in Nat, month \in Nat] ==
  IF days >= DaysInMonth(year, month)
  THEN SplitMonth[days - DaysInMonth(year, month), year, month + 1]
  ELSE [days |-> days, month |-> month]

InRange(day) == day >= FirstDay /\ day < EndDay

SetUnixTime(day, second) ==
  LET y == SplitYear[day, 1970]
      m == SplitMonth[y.days, y.year, 1]
  IN [year |-> ToBcd(y.year - 2000), weekday |-> ((day + 3) % 7) + 1,
      month |-> ToBcd(m.month), day |-> ToBcd(m.days + 1),
      hour |-> ToBcd(second \div 3600), minute |-> ToBcd((second % 3600) \div 60),
      second |-> ToBcd(second % 60)]

(* Rtc_GetDateTime. *)
GetDateTime(registers) ==
  [year |-> 2000 + FromBcd(registers.year), month |-> FromBcd(registers.month),
   day |-> FromBcd(registers.day), hour |-> FromBcd(registers.hour),
   minute |-> FromBcd(registers.minute), second |-> FromBcd(registers.second)]

SecondOfDay(date) == date.hour * 3600 + date.minute * 60 + date.second

(* Rtc_GetUnixTime: the years before and the months before are added up. *)
DaysBeforeYear[year \in Nat] ==
  IF year = 1970 THEN 0 ELSE DaysBeforeYear[year - 1] + DaysInYear(year - 1)

DaysBeforeMonth[year \in Nat, month \in Nat] ==
  IF month = 1 THEN 0 ELSE DaysBeforeMonth[year, month - 1] + DaysInMonth(year, month - 1)

GetUnixTime(date) ==
  [day |-> DaysBeforeYear[date.year] + DaysBeforeMonth[date.year, date.month] + date.day - 1,
   second |-> SecondOfDay(date)]

(* tlsTransport_X509TimeToUnix: leap days are counted by division. *)
LeapDaysBefore(year) ==
  ((year - 1) \div 4 - 1969 \div 4) - ((year - 1) \div 100 - 1969 \div 100)
    + ((year - 1) \div 400 - 1969 \div 400)

LeapYearOfCertificate(year) == year % 4 = 0 /\ (year % 100 # 0 \/ year % 400 = 0)

X509TimeToUnix(date) ==
  [day |-> (date.year - 1970) * 365 + LeapDaysBefore(date.year)
             + <<0, 31, 59, 90, 120, 151, 181, 212, 243, 273, 304, 334>>[date.month]
             + (IF date.month > 2 /\ LeapYearOfCertificate(date.year) THEN 1 ELSE 0)
             + date.day - 1,
   second |-> SecondOfDay(date)]

-----------------------------------------------------------------------------
(* On every day the clock can show, a time that is set reads back as the    *)
(* same time and as a date that exists, and the same date in a certificate  *)
(* is the same time.                                                        *)
ConversionsAgree ==
  \A day \in {d \in FirstDay - 1 .. EndDay : InRange(d)}, second \in Seconds :
    LET time == [day |-> day, second |-> second]
        date == GetDateTime(SetUnixTime(day, second))
    IN /\ date.month \in 1 .. 12
       /\ date.day \in 1 .. DaysInMonth(date.year, date.month)
       /\ GetUnixTime(date) = time
       /\ X509TimeToUnix(date) = time
=============================================================================
