------------------------------ MODULE DateTime ------------------------------
(***************************************************************************)
(* time.rs: the conversions between civil dates and the three forms in     *)
(* which an archive holds a time (unix seconds in 32 bits, NTFS ticks, the *)
(* packed words of MS-DOS).                                                *)
(*                                                                         *)
(* Seconds do not fit into an integer of TLC, so an instant is the pair    *)
(* that `/ 86400` and `% 86400` make of it: [days, second], second < 86400.*)
(* A calendar walks from day to day and is what the algorithms are         *)
(* compared with.                                                          *)
(***************************************************************************)
EXTENDS Integers, FiniteSets

CONSTANTS
  StartYears,       (* bound: the calendar walks through each of these     *)
  Seconds,          (* bound: the times of day looked at on every day      *)
  DosWords          (* 16-bit words a header may hold as date and as time  *)

ASSUME CalendarAssumption ==
  /\ StartYears \subseteq Nat /\ Seconds \subseteq Nat /\ DosWords \subseteq Nat
  /\ \A y \in StartYears : 0 < y /\ y < 65535   \* a u16, and the year after it
  /\ \A s \in Seconds : s < 86400
  /\ \A w \in DosWords : w < 65536

VARIABLES
  at,               (* an instant: days since 1970-01-01, second of day    *)
  date,             (* the date a calendar shows on that day               *)
  word              (* a word found in a header                            *)

dateVars == <<at, date, word>>

-----------------------------------------------------------------------------
(* Civil dates.                                                            *)

\* Mutant: the rule of the Julian calendar.
IsLeapEveryFour(y) == y % 4 = 0

IsLeap(y) == y % 4 = 0 /\ (y % 100 # 0 \/ y % 400 = 0)

LastDayOfMonth(y, m) ==
  IF m # 2 \/ ~IsLeap(y)
  THEN <<31, 28, 31, 30, 31, 30, 31, 31, 30, 31, 30, 31>>[m]
  ELSE 29

\* from_components gives a date-time for these components only.
Accepted(t) ==
  /\ t.year \in Nat /\ 0 < t.year /\ t.year < 65536 /\ t.month \in 1..12
  /\ t.day \in 1..LastDayOfMonth(t.year, t.month)
  /\ t.hour \in 0..23 /\ t.minute \in 0..59 /\ t.second \in 0..59

\* A year that begins in March, so that the leap day is its last.
DaysFromCivil(t) ==
  LET y == IF t.month <= 2 THEN t.year - 1 ELSE t.year
      m == IF t.month <= 2 THEN t.month + 9 ELSE t.month - 3
      era == y \div 400
      yoe == y - era * 400
      doy == (153 * m + 2) \div 5 + t.day - 1
      doe == yoe * 365 + yoe \div 4 - yoe \div 100 + doy
  IN  era * 146097 + doe - 719468

YearOfEra(doe) ==
  (doe - doe \div 1460 + doe \div 36524 - doe \div 146096) \div 365

\* unix_timestamp_to_components
FromUnix(i) ==
  LET shifted == i.days + 719468
      doe == shifted % 146097
      yoe == YearOfEra(doe)
      year == (shifted \div 146097) * 400 + yoe
      doy == doe - (yoe * 365 + yoe \div 4 - yoe \div 100)
      m == (5 * doy + 2) \div 153
  IN  [year |-> (IF m < 10 THEN year ELSE year + 1) % 65536,
       month |-> IF m < 10 THEN m + 3 ELSE m - 9,
       day |-> doy - (153 * m + 2) \div 5 + 1,
       hour |-> i.second \div 3600,
       minute |-> (i.second % 3600) \div 60,
       second |-> i.second % 60]

ToUnix(t) == [days |-> DaysFromCivil(t),
              second |-> t.hour * 3600 + t.minute * 60 + t.second]

-----------------------------------------------------------------------------
(* The forms of a time in an archive.                                      *)

Earlier(i, j) == i.days < j.days \/ (i.days = j.days /\ i.second < j.second)

Epoch == [days |-> 0, second |-> 0]

Since(i, j) == LET s == i.second - j.second
               IN  [days |-> i.days - j.days + s \div 86400, second |-> s % 86400]

\* q * 2^32 seconds: 2^32 = 49710 * 86400 + 23296
TwoTo32(q) == [days |-> q * 49710 + (q * 23296) \div 86400,
               second |-> (q * 23296) % 86400]

\* `as u32` of a number of seconds.
AsU32(i) ==
  LET near == i.days \div 49710
  IN  Since(i, TwoTo32(CHOOSE q \in (near - 1)..(near + 1) :
                         /\ ~Earlier(i, TwoTo32(q))
                         /\ Earlier(i, TwoTo32(q + 1))))

\* Mutant: a time before 1970 is not raised to it.
MtimeFieldUnraised(t) == AsU32(ToUnix(t))

\* What write_local_header puts in the extended timestamp.
MtimeField(t) ==
  AsU32(IF Earlier(ToUnix(t), Epoch) THEN Epoch ELSE ToUnix(t))

\* from_ntfs of ticks that are i after 1601-01-01 (and a fraction).
FromNtfs(i) ==
  LET epoch == [days |-> 134774, second |-> 0]
  IN  FromUnix(IF Earlier(i, epoch) THEN Epoch ELSE Since(i, epoch))

Clamp(x, low, high) == IF x < low THEN low ELSE IF x > high THEN high ELSE x

\* Mutant: a year is taken modulo the 7 bits it has.
DosFromWrapping(t) ==
  [date |-> ((t.year - 1980) % 128) * 512 + t.month * 32 + t.day,
   time |-> t.hour * 2048 + t.minute * 32 + t.second \div 2]

\* DosDateTime::from
DosFrom(t) ==
  [date |-> (Clamp(t.year, 1980, 2107) - 1980) * 512 + t.month * 32 + t.day,
   time |-> t.hour * 2048 + t.minute * 32 + t.second \div 2]

DosYear(w) == ((w.date \div 512) % 128) + 1980

DosMonth(w) == Clamp((w.date \div 32) % 16, 1, 12)

DosDay(w) == Clamp(w.date % 32, 1, LastDayOfMonth(DosYear(w), DosMonth(w)))

\* LocalDateTime::from_dos
FromDos(w) ==
  [year |-> DosYear(w), month |-> DosMonth(w), day |-> DosDay(w),
   hour |-> Clamp((w.time \div 2048) % 32, 0, 23),
   minute |-> Clamp((w.time \div 32) % 64, 0, 59),
   second |-> Clamp((w.time % 32) * 2, 0, 58)]

-----------------------------------------------------------------------------
(* A calendar.                                                             *)

\* Days from 0001-01-01 to the first of January of a year.
DaysBefore(y) == 365 * (y - 1) + Cardinality({n \in 1..(y - 1) : IsLeap(n)})

CivilDate(y, m, d) == [year |-> y, month |-> m, day |-> d]

NewYear(y) == CivilDate(y, 1, 1)

DayAfter(t) ==
  IF t.day < LastDayOfMonth(t.year, t.month)
  THEN CivilDate(t.year, t.month, t.day + 1)
  ELSE IF t.month < 12 THEN CivilDate(t.year, t.month + 1, 1)
  ELSE NewYear(t.year + 1)

DateInit ==
  \/ /\ \E y \in StartYears, s \in Seconds :
          /\ date = NewYear(y)
          /\ at = [days |-> DaysBefore(y) - DaysBefore(1970), second |-> s]
     /\ word = 0
  \/ at = Epoch /\ date = NewYear(1970) /\ word \in DosWords

Tomorrow ==
  /\ word = 0 /\ date.year \in StartYears
  /\ date' = DayAfter(date)
  /\ at' = [days |-> at.days + 1, second |-> at.second]
  /\ UNCHANGED word

DateSpec == DateInit /\ [][Tomorrow]_dateVars

-----------------------------------------------------------------------------
(* Properties.                                                             *)

\* What the calendar and a clock show.
Shown == [year |-> date.year, month |-> date.month, day |-> date.day,
          hour |-> at.second \div 3600, minute |-> (at.second \div 60) % 60,
          second |-> at.second % 60]

(***************************************************************************)
(* from_unix shows what a calendar shows that turns one page a day, and    *)
(* to_unix leads back to the same instant, through leap days, centuries    *)
(* and the ends of the 400-year cycles, before and after 1970.             *)
(***************************************************************************)
CalendarAgrees == FromUnix(at) = Shown /\ ToUnix(Shown) = at

(***************************************************************************)
(* A stored time is read back to the second.  The modification time a      *)
(* writer puts in the extended timestamp, from 1970 until 2^32 seconds     *)
(* later (2106-02-07 06:28:16); NTFS ticks, from 1970 to the last tick,    *)
(* without a sum or a u16 that overflows.  What is earlier becomes 1970,   *)
(* never a date before year 1.                                             *)
(***************************************************************************)
StoredTimesSurvive ==
  LET since1601 == Since(at, [days |-> -134774, second |-> 0])
      Raised == IF Earlier(at, Epoch) THEN FromUnix(Epoch) ELSE Shown
  IN  /\ Earlier(at, TwoTo32(1)) => FromUnix(MtimeField(Shown)) = Raised
      /\ ~Earlier(since1601, Epoch) => FromNtfs(since1601) = Raised

(***************************************************************************)
(* Both together: a time keeps its meaning on every way through seconds.   *)
(***************************************************************************)
TimesSurvive == CalendarAgrees /\ StoredTimesSurvive

(***************************************************************************)
(* Packing a date into the words of MS-DOS and reading them loses the      *)
(* second's last bit and nothing else between 1980 and 2107; outside, the  *)
(* year is the nearest one, and the 29th of February is the 28th where     *)
(* that year has none.  And whatever words a header holds, the date made   *)
(* of them exists.                                                         *)
(***************************************************************************)
DosNearest ==
  LET t == Shown
      year == Clamp(t.year, 1980, 2107)
  IN  /\ FromDos(DosFrom(t)) =
           [year |-> year, month |-> t.month,
            day |-> Clamp(t.day, 1, LastDayOfMonth(year, t.month)),
            hour |-> t.hour, minute |-> t.minute,
            second |-> t.second - (t.second % 2)]
      /\ Accepted(FromDos([date |-> word, time |-> word]))

=============================================================================
