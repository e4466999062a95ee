------------------------- MODULE EntryHeaderProofs -------------------------
(***************************************************************************)
(* Proofs about what the headers of an entry hold: its mode, its time, its *)
(* extra fields and its records, byte by byte.                             *)
(***************************************************************************)
EXTENDS EntryMode, DateTime, Records, FiniteSetTheorems, FunctionTheorems,
        SequenceTheorems, WellFoundedInduction, TLAPS

-----------------------------------------------------------------------------
(* The mode.                                                               *)

(***************************************************************************)
(* What was asked for is what the upper half of external_file_attrs holds, *)
(* until another entry comes along.                                        *)
(***************************************************************************)
ModeInv ==
  /\ is_dir \in BOOLEAN
  /\ external \subseteq Bits32
  /\ \A m \in asked :
       m \subseteq Bits16 /\ made_by = CREATOR_UNIX
         /\ external = {b + 16 : b \in m} \cap Bits32

(***************************************************************************)
(* `mode << 16` and `external_file_attrs >> 16` of a u16 lose no bit.      *)
(***************************************************************************)
LEMMA ShiftedBack ==
  ASSUME NEW m, m \subseteq Bits16,
         NEW e, e = {b + 16 : b \in m} \cap Bits32
  PROVE  {b - 16 : b \in e \cap 16..31} = m
<1>1. m \subseteq {b - 16 : b \in e \cap 16..31}
  <2>1. SUFFICES ASSUME NEW c \in m PROVE c \in {b - 16 : b \in e \cap 16..31}
    OBVIOUS
  <2>2. c \in Int /\ 0 <= c /\ c <= 15
    BY DEF Bits16
  <2>3. c + 16 \in e \cap 16..31
    BY <2>2 DEF Bits32
  <2>4. c = (c + 16) - 16
    BY <2>2
  <2>5. QED
    BY <2>3, <2>4
<1>2. {b - 16 : b \in e \cap 16..31} \subseteq m
  <2>1. SUFFICES ASSUME NEW b \in e \cap 16..31 PROVE b - 16 \in m
    OBVIOUS
  <2>2. PICK c \in m : b = c + 16
    OBVIOUS
  <2>3. c \in Int
    BY DEF Bits16
  <2>4. b - 16 = c
    BY <2>2, <2>3
  <2>5. QED
    BY <2>4
<1>3. QED
  BY <1>1, <1>2

LEMMA UnixModeKeeps ==
  ASSUME NEW m, m \subseteq Bits16
  PROVE  /\ UnixMode(m) \ S_IFMT = m \ S_IFMT
         /\ (UnixMode(m) \cup S_IFDIR) \ S_IFMT = m \ S_IFMT
         /\ m \cap S_IFMT \in FileTypes => UnixMode(m) = m
         /\ m \cap S_IFMT = {} => UnixMode(m) \cap S_IFMT = S_IFREG
<1> DEFINE low == m \cap (Permissions \cup Special)
           type == IF m \cap S_IFMT \in FileTypes THEN m \cap S_IFMT ELSE S_IFREG
<1>1. UnixMode(m) = low \cup type
  BY DEF UnixMode
<1>2. low = m \ S_IFMT
  <2>1. ASSUME NEW b \in Bits16
        PROVE  b \in Permissions \cup Special <=> b \notin S_IFMT
    BY DEF Permissions, Special, S_IFMT, Bits16
  <2>2. QED
    BY <2>1
<1>3. type \subseteq S_IFMT
  BY DEF S_IFMT, S_IFREG
<1>4. m = (m \ S_IFMT) \cup (m \cap S_IFMT)
  OBVIOUS
<1>5. S_IFDIR \subseteq S_IFMT /\ S_IFREG \subseteq S_IFMT
  BY DEF S_IFDIR, S_IFREG, S_IFMT
<1>6. m \cap S_IFMT = {} => type = S_IFREG
  <2>1. {} \notin FileTypes
    BY DEF FileTypes, S_IFSOCK, S_IFLNK, S_IFREG, S_IFBLK, S_IFDIR, S_IFCHR, S_IFIFO
  <2>2. QED
    BY <2>1
<1>7. m \cap S_IFMT \in FileTypes => type = m \cap S_IFMT
  OBVIOUS
<1> HIDE DEF low, type
<1>8. QED
  BY <1>1, <1>2, <1>3, <1>4, <1>5, <1>6, <1>7

(***************************************************************************)
(* ZipFileBuilder::unix_permissions and ZipFileHeaderRecord::mode, for any *)
(* mode and any attributes: what was asked for is what is read.            *)
(***************************************************************************)
THEOREM ModesKept == ModeSpec => []PermissionsSurvive
<1>1. ModeInit => ModeInv
  BY DEF ModeInit, ModeInv
<1>2. ModeInv /\ [ModeNext]_modeVars => ModeInv'
  <2> SUFFICES ASSUME ModeInv, [ModeNext]_modeVars PROVE ModeInv'
    OBVIOUS
  <2>1. ASSUME NEW m \in Modes, Permit(m) PROVE ModeInv'
    <3>1. m \subseteq Bits16
      BY ModeAssumption
    <3>2. QED
      BY <2>1, <3>1 DEF ModeInv, Permit
  <2>2. ASSUME NEW attributes \in Attributes, NEW system, Produced(system, attributes)
        PROVE  ModeInv'
    BY <2>2, ModeAssumption DEF ModeInv, Produced
  <2>3. CASE UNCHANGED modeVars
    BY <2>3 DEF ModeInv, modeVars
  <2>4. QED
    BY <2>1, <2>2, <2>3 DEF ModeNext
<1>3. ModeInv => PermissionsSurvive
  <2> SUFFICES ASSUME ModeInv PROVE PermissionsSurvive
    OBVIOUS
  <2>1. ASSUME NEW m \in asked
        PROVE  /\ Mode \ S_IFMT = m \ S_IFMT
               /\ m \cap S_IFMT \in FileTypes /\ (is_dir => m \cap S_IFMT = S_IFDIR)
                    => Mode = m
               /\ m \cap S_IFMT = {} /\ ~is_dir => Mode \cap S_IFMT = S_IFREG
    <3>1. m \subseteq Bits16 /\ made_by = CREATOR_UNIX
          /\ {b - 16 : b \in external \cap 16..31} = m
      BY <2>1, ShiftedBack DEF ModeInv
    <3>2. Mode = IF is_dir THEN UnixMode(m) \cup S_IFDIR ELSE UnixMode(m)
      <4>1. made_by \in {CREATOR_UNIX, CREATOR_MACOS}
            /\ made_by \notin {CREATOR_NTFS, CREATOR_VFAT, CREATOR_FAT}
        BY <3>1 DEF CREATOR_UNIX, CREATOR_NTFS, CREATOR_VFAT, CREATOR_FAT
      <4>2. QED
        BY <3>1, <4>1, Zenon DEF Mode
    <3>3. CASE is_dir
      <4>1. Mode = UnixMode(m) \cup S_IFDIR
        BY <3>2, <3>3
      <4>2. m \cap S_IFMT = S_IFDIR => m \cup S_IFDIR = m
        OBVIOUS
      <4>3. QED
        BY <4>1, <4>2, <3>1, <3>3, UnixModeKeeps
    <3>4. CASE ~is_dir
      <4>1. Mode = UnixMode(m)
        BY <3>2, <3>4
      <4>2. QED
        BY <4>1, <3>1, <3>4, UnixModeKeeps
    <3>5. QED
      BY <3>3, <3>4
  <2>2. made_by \in {CREATOR_FAT, CREATOR_VFAT, CREATOR_NTFS} =>
          (0 \in external /\ 4 \notin external => Mode \cap WriteBits = {})
    <3> SUFFICES ASSUME made_by \in {CREATOR_FAT, CREATOR_VFAT, CREATOR_NTFS},
                        0 \in external, 4 \notin external
                 PROVE  Mode \cap WriteBits = {}
      OBVIOUS
    <3>1. MsdosMode(external) = S_IFREG \cup {2, 5, 8}
      BY DEF MsdosMode, MSDOS_DIR, MSDOS_READONLY
    <3>2. Mode = IF is_dir THEN MsdosMode(external) \cup S_IFDIR ELSE MsdosMode(external)
      <4>1. made_by \in {CREATOR_NTFS, CREATOR_VFAT, CREATOR_FAT}
            /\ made_by \notin {CREATOR_UNIX, CREATOR_MACOS}
        BY DEF CREATOR_FAT, CREATOR_VFAT, CREATOR_NTFS, CREATOR_UNIX, CREATOR_MACOS
      <4>2. QED
        BY <4>1, Zenon DEF Mode
    <3>3. QED
      BY <3>1, <3>2 DEF S_IFREG, S_IFDIR, WriteBits
  <2>3. QED
    BY <2>1, <2>2 DEF PermissionsSurvive
<1>4. QED
  BY <1>1, <1>2, <1>3, PTL DEF ModeSpec

-----------------------------------------------------------------------------
(* Dates and days.                                                         *)

\* A date that exists, in a year that a u16 holds.
IsDate(t) ==
  /\ t = CivilDate(t.year, t.month, t.day)
  /\ t.year \in Nat /\ 0 < t.year /\ t.year < 65536
  /\ t.month \in 1..12
  /\ t.day \in Nat /\ 0 < t.day /\ t.day <= LastDayOfMonth(t.year, t.month)

\* An instant as `/ 86400` and `% 86400` make it.
IsInstant(i) ==
  /\ i = [days |-> i.days, second |-> i.second]
  /\ i.days \in Int /\ i.second \in Nat /\ i.second < 86400

\* A word of 16 bits.
IsWord(w) == w \in Nat /\ w < 65536

\* The days before the year y that begins in March, y = 0 being the first.
DaysToMarch(y) == 365 * y + (y \div 4) - (y \div 100) + (y \div 400)

\* The days from March to the m-th month after it.
DaysToMonth(m) == (153 * m + 2) \div 5

\* A day of a cycle of 400 years, c centuries, q times four years, r years and
\* some days after its beginning.
DayOfEra(c, q, r, day) == 36524 * c + 1461 * q + 365 * r + day
YearsGoneBy(c, q, r) == 100 * c + 4 * q + r
ExistsInEra(c, q, r, day) ==
  /\ c \in 0..3 /\ q \in 0..24 /\ r \in 0..3 /\ day \in 0..365
  /\ day = 365 => r = 3 /\ (q = 24 => c = 3)

WithinEra(doe) == doe \in Nat /\ doe < 146097

\* The steps of the conversions, by name.
MonthOfYear(m) == IF m <= 2 THEN m + 9 ELSE m - 3
DayOfYear(m, d) == DaysToMonth(MonthOfYear(m)) + d - 1
TellsMonth(y, m, d) ==
  /\ MonthOfYear(m) \in 0..11
  /\ DayOfYear(m, d) \in 0..365
  /\ (5 * DayOfYear(m, d) + 2) \div 153 = MonthOfYear(m)
  /\ DayOfYear(m, d) = 365 => m = 2 /\ IsLeap(y)
Era(y) == y \div 400
YearInEra(y) == y - (y \div 400) * 400
YearDays(z) == z * 365 + (z \div 4) - (z \div 100)
DaysOfEras(n) == n * 146097
ErasIn(x) == x \div 146097
DayInEra(x) == x % 146097

\* What a clock makes of a second of a day.
TellsTime(s) ==
  /\ s \div 3600 \in 0..23 /\ (s \div 60) % 60 \in 0..59 /\ s % 60 \in 0..59
  /\ (s % 3600) \div 60 = (s \div 60) % 60
  /\ (s \div 3600) * 3600 + ((s \div 60) % 60) * 60 + (s % 60) = s

\* The words of MS-DOS and what is found in them.
PackedDate(y, m, d) == y * 512 + m * 32 + d
PackedTime(h, n, s) == h * 2048 + n * 32 + s \div 2
DateUnpacks(w, y, m, d) ==
  (w \div 512) % 128 = y /\ (w \div 32) % 16 = m /\ w % 32 = d
TimeUnpacks(w, h, n, s) ==
  (w \div 2048) % 32 = h /\ (w \div 32) % 64 = n /\ (w % 32) * 2 = s - (s % 2)

\* A date and a time of day, and the date that the words can say.
CivilTime(y, m, d, h, n, s) ==
  [year |-> y, month |-> m, day |-> d, hour |-> h, minute |-> n, second |-> s]
NearestDosTime(y, m, d, h, n, s) ==
  LET year == Clamp(y, 1980, 2107)
  IN  CivilTime(year, m, Clamp(d, 1, LastDayOfMonth(year, m)), h, n, s - (s % 2))

LEMMA FieldsOfDate ==
  ASSUME NEW y, NEW m, NEW d
  PROVE  /\ CivilDate(y, m, d).year = y
         /\ CivilDate(y, m, d).month = m
         /\ CivilDate(y, m, d).day = d
  BY DEF CivilDate

(***************************************************************************)
(* last_day_of_month, month by month.                                      *)
(***************************************************************************)
LEMMA MonthLengths ==
  ASSUME NEW y
  PROVE  /\ \A m \in {1, 3, 5, 7, 8, 10, 12} : LastDayOfMonth(y, m) = 31
         /\ \A m \in {4, 6, 9, 11} : LastDayOfMonth(y, m) = 30
         /\ LastDayOfMonth(y, 2) = IF IsLeap(y) THEN 29 ELSE 28
  BY DEF LastDayOfMonth

LEMMA MonthLengthBounds ==
  ASSUME NEW y, NEW m \in 1..12
  PROVE  LastDayOfMonth(y, m) \in 28..31
<1>1. m \in {1, 3, 5, 7, 8, 10, 12} \/ m \in {4, 6, 9, 11} \/ m = 2
  OBVIOUS
<1>2. QED
  BY <1>1, MonthLengths

(***************************************************************************)
(* The year that ends with February of y has a day more when y is a leap   *)
(* year.                                                                   *)
(***************************************************************************)
LEMMA LeapDay ==
  ASSUME NEW y \in Nat, 0 < y
  PROVE  DaysToMarch(y) - DaysToMarch(y - 1) = IF IsLeap(y) THEN 366 ELSE 365
<1>1. (y \div 4) - ((y - 1) \div 4) = IF y % 4 = 0 THEN 1 ELSE 0
  OBVIOUS
<1>2. (y \div 100) - ((y - 1) \div 100) = IF y % 100 = 0 THEN 1 ELSE 0
  OBVIOUS
<1>3. (y \div 400) - ((y - 1) \div 400) = IF y % 400 = 0 THEN 1 ELSE 0
  OBVIOUS
<1>4. (y % 400 = 0 => y % 100 = 0) /\ (y % 100 = 0 => y % 4 = 0)
  OBVIOUS
<1>5. QED
  BY <1>1, <1>2, <1>3, <1>4 DEF DaysToMarch, IsLeap

(***************************************************************************)
(* DaysFromCivil without its eras.                                         *)
(***************************************************************************)
LEMMA DaysOfYear ==
  ASSUME NEW y \in Int
  PROVE  /\ Era(y) \in Int /\ YearInEra(y) \in 0..399 /\ y = Era(y) * 400 + YearInEra(y)
         /\ DaysOfEras(Era(y)) + YearDays(YearInEra(y)) = DaysToMarch(y)
<1> DEFINE era == Era(y)
           yoe == YearInEra(y)
<1>1. era \in Int /\ yoe \in 0..399 /\ y = era * 400 + yoe
  BY DEF Era, YearInEra
<1> HIDE DEF era, yoe
<1>2. y \div 4 = era * 100 + (yoe \div 4)
  BY <1>1
<1>3. y \div 100 = era * 4 + (yoe \div 100)
  BY <1>1
<1>4. y \div 400 = era
  BY <1>1
<1>5. DaysOfEras(era) + YearDays(yoe) = DaysToMarch(y)
  BY <1>1, <1>2, <1>3, <1>4, SMT DEF DaysToMarch, DaysOfEras, YearDays
<1>6. QED
  BY <1>1, <1>5 DEF era, yoe

LEMMA DaysOfDate ==
  ASSUME NEW t, IsDate(t)
  PROVE  DaysFromCivil(t) =
           IF t.month <= 2
           THEN DaysToMarch(t.year - 1) + DaysToMonth(t.month + 9) + t.day - 719469
           ELSE DaysToMarch(t.year) + DaysToMonth(t.month - 3) + t.day - 719469
<1>1. t.year \in Int /\ t.month \in Int /\ t.day \in Int
  BY DEF IsDate
<1> DEFINE y == IF t.month <= 2 THEN t.year - 1 ELSE t.year
           m == IF t.month <= 2 THEN t.month + 9 ELSE t.month - 3
<1>2. y \in Int /\ m \in Int
  BY <1>1
<1>3. DaysFromCivil(t) =
        DaysOfEras(Era(y)) + (YearDays(YearInEra(y)) + (DaysToMonth(m) + t.day - 1)) - 719468
  BY SMT DEF DaysFromCivil, DaysOfEras, Era, YearDays, YearInEra, DaysToMonth
<1> HIDE DEF y, m
<1>4. DaysOfEras(Era(y)) + YearDays(YearInEra(y)) = DaysToMarch(y) 
  BY <1>2, DaysOfYear
<1>a. DaysToMarch(y) \in Int
  BY <1>2 DEF DaysToMarch
<1>5. DaysToMonth(m) \in Int /\ DaysOfEras(Era(y)) \in Int /\ YearDays(YearInEra(y)) \in Int
  BY <1>2, SMT DEF DaysToMonth, DaysOfEras, Era, YearDays, YearInEra
<1>6. DaysFromCivil(t) = DaysToMarch(y) + DaysToMonth(m) + t.day - 719469
  BY <1>1, <1>3, <1>4, <1>a, <1>5, SMT
<1>7. QED
  BY <1>6, SMT DEF y, m

LEMMA DaysIsInt ==
  ASSUME NEW t, IsDate(t)
  PROVE  DaysFromCivil(t) \in Int
<1>1. t.year \in Int /\ t.month \in Int /\ t.day \in Int
  BY DEF IsDate
<1>2. /\ DaysToMarch(t.year - 1) \in Int /\ DaysToMarch(t.year) \in Int
      /\ DaysToMonth(t.month + 9) \in Int /\ DaysToMonth(t.month - 3) \in Int
  BY <1>1 DEF DaysToMarch, DaysToMonth
<1>3. QED
  BY <1>1, <1>2, DaysOfDate, SMT

(***************************************************************************)
(* The months from March on: 31, 30, 31, 30, 31 days, again and again.     *)
(***************************************************************************)
LEMMA MonthSteps ==
  /\ DaysToMonth(0) = 0
  /\ \A m \in {0, 2, 4, 5, 7, 9, 10} : DaysToMonth(m + 1) = DaysToMonth(m) + 31
  /\ \A m \in {1, 3, 6, 8} : DaysToMonth(m + 1) = DaysToMonth(m) + 30
  /\ DaysToMonth(10) = 306 /\ DaysToMonth(11) = 337
  BY DEF DaysToMonth

(***************************************************************************)
(* The next page of the calendar is a date again, and to_unix counts one   *)
(* day more for it.                                                        *)
(***************************************************************************)
LEMMA DayAfterCounts ==
  ASSUME NEW t, IsDate(t), t.year < 65535
  PROVE  /\ IsDate(DayAfter(t))
         /\ DaysFromCivil(DayAfter(t)) = DaysFromCivil(t) + 1
<1>1. PICK y \in Nat : y = t.year
  BY DEF IsDate
<1>2. PICK m \in 1..12 : m = t.month
  BY DEF IsDate
<1>3. PICK d \in Nat : d = t.day
  BY DEF IsDate
<1>4. 0 < y /\ y < 65535 /\ 0 < d /\ d <= LastDayOfMonth(y, m)
  BY <1>1, <1>2, <1>3 DEF IsDate
<1>5. LastDayOfMonth(y, m) \in 28..31
  BY MonthLengthBounds
<1>6. DaysFromCivil(t) =
        IF m <= 2 THEN DaysToMarch(y - 1) + DaysToMonth(m + 9) + d - 719469
                  ELSE DaysToMarch(y) + DaysToMonth(m - 3) + d - 719469
  BY <1>1, <1>2, <1>3, DaysOfDate
<1>7. DaysToMarch(y - 1) \in Int /\ DaysToMarch(y) \in Int
      /\ DaysToMonth(m + 9) \in Int /\ DaysToMonth(m - 3) \in Int
  BY DEF DaysToMarch, DaysToMonth
<1>8. CASE d < LastDayOfMonth(y, m)
  <2> DEFINE next == CivilDate(y, m, d + 1)
  <2>1. DayAfter(t) = next
    BY <1>1, <1>2, <1>3, <1>8 DEF DayAfter
  <2>2. next.year = y /\ next.month = m /\ next.day = d + 1
    BY FieldsOfDate
  <2> HIDE DEF next
  <2>3. d + 1 \in Nat /\ 0 < d + 1 /\ d + 1 <= LastDayOfMonth(y, m) /\ y < 65536
    BY <1>4, <1>5, <1>8
  <2>4. next = CivilDate(next.year, next.month, next.day)
    BY <2>2 DEF next
  <2>5. IsDate(next)
    BY <2>2, <2>3, <2>4, <1>4 DEF IsDate
  <2>6. DaysFromCivil(next) =
          IF m <= 2 THEN DaysToMarch(y - 1) + DaysToMonth(m + 9) + (d + 1) - 719469
                    ELSE DaysToMarch(y) + DaysToMonth(m - 3) + (d + 1) - 719469
    BY <2>2, <2>5, DaysOfDate
  <2>7. QED
    BY <2>1, <2>5, <2>6, <1>6, <1>7
<1>9. CASE d = LastDayOfMonth(y, m) /\ m < 12
  <2> DEFINE next == CivilDate(y, m + 1, 1)
  <2>1. DayAfter(t) = next
    BY <1>1, <1>2, <1>3, <1>9, <1>5 DEF DayAfter
  <2>2. next.year = y /\ next.month = m + 1 /\ next.day = 1
    BY FieldsOfDate
  <2> HIDE DEF next
  <2>3. m + 1 \in 1..12 /\ LastDayOfMonth(y, m + 1) \in 28..31 /\ y < 65536
    BY <1>4, <1>9, MonthLengthBounds
  <2>4. next = CivilDate(next.year, next.month, next.day)
    BY <2>2 DEF next
  <2>5. IsDate(next)
    <3>1. 1 <= LastDayOfMonth(y, m + 1)
      BY <2>3
    <3>2. QED
      BY <2>2, <2>3, <2>4, <3>1, <1>4 DEF IsDate
  <2>6. DaysFromCivil(next) =
          IF m + 1 <= 2 THEN DaysToMarch(y - 1) + DaysToMonth((m + 1) + 9) + 1 - 719469
                        ELSE DaysToMarch(y) + DaysToMonth((m + 1) - 3) + 1 - 719469
    BY <2>2, <2>5, DaysOfDate
  <2>7. CASE m = 1
    <3>1. d = 31
      BY <1>9, <2>7, MonthLengths
    <3>2. DaysToMonth(m + 9) = 306 /\ DaysToMonth((m + 1) + 9) = 337
      BY <2>7, MonthSteps
    <3>3. QED
      BY <2>1, <2>5, <2>6, <1>6, <1>7, <2>7, <3>1, <3>2
  <2>8. CASE m = 2
    <3>1. d = IF IsLeap(y) THEN 29 ELSE 28
      BY <1>9, <2>8, MonthLengths
    <3>2. DaysToMonth(m + 9) = 337 /\ DaysToMonth((m + 1) - 3) = 0
      BY <2>8, MonthSteps
    <3>3. DaysToMarch(y) - DaysToMarch(y - 1) = IF IsLeap(y) THEN 366 ELSE 365
      BY <1>4, LeapDay
    <3>4. DaysFromCivil(next) = DaysToMarch(y) + 0 + 1 - 719469
          /\ DaysFromCivil(t) = DaysToMarch(y - 1) + 337 + d - 719469
      BY <2>6, <1>6, <2>8, <3>2
    <3>5. QED
      BY <2>1, <2>5, <1>7, <3>1, <3>3, <3>4
  <2>9. CASE m > 2
    <3>1. DaysToMonth((m - 3) + 1) = DaysToMonth(m - 3) + d
      <4>1. m \in {3, 5, 7, 8, 10} \/ m \in {4, 6, 9, 11}
        BY <1>9, <2>9
      <4>2. CASE m \in {3, 5, 7, 8, 10}
        <5>1. d = 31 /\ m - 3 \in {0, 2, 4, 5, 7}
          BY <1>9, <4>2, MonthLengths
        <5>2. QED
          BY <5>1, MonthSteps
      <4>3. CASE m \in {4, 6, 9, 11}
        <5>1. d = 30 /\ m - 3 \in {1, 3, 6, 8}
          BY <1>9, <4>3, MonthLengths
        <5>2. QED
          BY <5>1, MonthSteps
      <4>4. QED
        BY <4>1, <4>2, <4>3
    <3>2. (m + 1) - 3 = (m - 3) + 1
      OBVIOUS
    <3>3. DaysFromCivil(next) = DaysToMarch(y) + (DaysToMonth(m - 3) + d) + 1 - 719469
      BY <2>6, <2>9, <3>1, <3>2
    <3>4. QED
      BY <2>1, <2>5, <1>6, <1>7, <2>9, <3>3
  <2>10. QED
    BY <2>7, <2>8, <2>9
<1>10. CASE d = LastDayOfMonth(y, m) /\ m = 12
  <2> DEFINE next == CivilDate(y + 1, 1, 1)
  <2>1. DayAfter(t) = next
    BY <1>1, <1>2, <1>3, <1>10, <1>5 DEF DayAfter, NewYear
  <2>2. next.year = y + 1 /\ next.month = 1 /\ next.day = 1
    BY FieldsOfDate
  <2> HIDE DEF next
  <2>3. d = 31 /\ LastDayOfMonth(y + 1, 1) = 31 /\ y + 1 < 65536 /\ 0 < y + 1
    BY <1>4, <1>10, MonthLengths
  <2>4. next = CivilDate(next.year, next.month, next.day)
    BY <2>2 DEF next
  <2>5. IsDate(next)
    BY <2>2, <2>3, <2>4 DEF IsDate
  <2>6. DaysFromCivil(next) = DaysToMarch((y + 1) - 1) + DaysToMonth(1 + 9) + 1 - 719469
    BY <2>2, <2>5, DaysOfDate
  <2>7. (y + 1) - 1 = y /\ DaysToMonth(1 + 9) = DaysToMonth(m - 3) + 31
    BY <1>10, MonthSteps
  <2>8. QED
    BY <2>1, <2>3, <2>5, <2>6, <2>7, <1>6, <1>7, <1>10
<1>11. QED
  BY <1>4, <1>5, <1>8, <1>9, <1>10

-----------------------------------------------------------------------------
(* Days and dates.                                                         *)

(***************************************************************************)
(* YearOfEra finds the year of every day of a cycle of 400 years: c        *)
(* centuries, q times four years and r years have gone by before it.       *)
(***************************************************************************)
LEMMA YearFromDay ==
  ASSUME NEW c, NEW q, NEW r, NEW day, ExistsInEra(c, q, r, day)
  PROVE  /\ WithinEra(DayOfEra(c, q, r, day))
         /\ YearOfEra(DayOfEra(c, q, r, day)) = YearsGoneBy(c, q, r)
<1> DEFINE doe == DayOfEra(c, q, r, day)
           over == IF 24 * c + q + 365 * r + day >= 1460 THEN 1 ELSE 0
<1>1. /\ c \in 0..3 /\ q \in 0..24 /\ r \in 0..3 /\ day \in 0..365
      /\ day = 365 => r = 3 /\ (q = 24 => c = 3)
  BY DEF ExistsInEra
<1>2. doe = 36524 * c + 1461 * q + 365 * r + day
  BY DEF DayOfEra
<1> HIDE DEF doe
<1>3. WithinEra(doe)
  BY <1>1, <1>2, SMT DEF WithinEra
<1>4. doe \div 1460 = 25 * c + q + over
  BY <1>1, <1>2, SMT
<1>5. CASE q = 24 /\ c = 3 /\ r = 3 /\ day = 365
  <2>1. doe = 146096
    BY <1>5, <1>2, SMT
  <2>2. YearOfEra(doe) = 399
    BY <2>1, SMT DEF YearOfEra
  <2>3. YearsGoneBy(c, q, r) = 399
    BY <1>5 DEF YearsGoneBy
  <2>4. QED
    BY <1>3, <2>2, <2>3 DEF doe
<1>6. CASE ~(q = 24 /\ c = 3 /\ r = 3 /\ day = 365)
  <2>1. 1461 * q + 365 * r + day < 36524
    BY <1>1, <1>6, SMT
  <2>2. doe \div 36524 = c
    BY <1>1, <1>2, <2>1, SMT
  <2>3. doe \div 146096 = 0
    BY <1>1, <1>2, <2>1, SMT
  <2>4. over \in Int /\ day - over >= 0 /\ day - over < 365
    BY <1>1, SMT
  <2> DEFINE x == doe - doe \div 1460 + doe \div 36524 - doe \div 146096
             rest == day - over
             years == YearsGoneBy(c, q, r)
  <2>5. x = 365 * years + rest
    BY <1>1, <1>2, <1>4, <2>2, <2>3, <2>4, SMT DEF YearsGoneBy
  <2>6. years \in Int /\ rest \in Int /\ rest >= 0 /\ rest < 365
    BY <1>1, <2>4, SMT DEF YearsGoneBy
  <2>7. YearOfEra(doe) = x \div 365
    BY SMT DEF YearOfEra
  <2> HIDE DEF x, rest, years
  <2>8. x \div 365 = years
    BY <2>5, <2>6
  <2>9. QED
    BY <1>3, <2>7, <2>8 DEF doe, years
<1>7. QED
  BY <1>5, <1>6

(***************************************************************************)
(* The day of a year that begins in March tells the month, and only a leap *)
(* year has a day 365.                                                     *)
(***************************************************************************)
LEMMA MonthFromDay ==
  ASSUME NEW y, NEW m \in 1..12, NEW d \in Nat, 0 < d, d <= LastDayOfMonth(y, m)
  PROVE  TellsMonth(y, m, d)
<1> DEFINE n == MonthOfYear(m)
           nth == DayOfYear(m, d)
<1>a. n = IF m <= 2 THEN m + 9 ELSE m - 3
  BY DEF MonthOfYear
<1>b. nth = DaysToMonth(n) + d - 1
  BY DEF DayOfYear
<1> HIDE DEF n, nth, TellsMonth
<1>1. n \in 0..11
  BY <1>a
<1>2. CASE m \in {1, 3, 5, 7, 8, 10, 12}
  <2>1. n \in {10, 0, 2, 4, 5, 7, 9} /\ d <= 31
    BY <1>a, <1>2, MonthLengths
  <2>2. DaysToMonth(n) + d - 1 \in 0..364
    BY <2>1 DEF DaysToMonth
  <2>3. (5 * (DaysToMonth(n) + d - 1) + 2) \div 153 = n
    BY <2>1 DEF DaysToMonth
  <2>4. QED
    BY <1>1, <1>b, <2>2, <2>3 DEF n, nth, TellsMonth
<1>3. CASE m \in {4, 6, 9, 11}
  <2>1. n \in {1, 3, 6, 8} /\ d <= 30
    BY <1>a, <1>3, MonthLengths
  <2>2. DaysToMonth(n) + d - 1 \in 0..364
    BY <2>1 DEF DaysToMonth
  <2>3. (5 * (DaysToMonth(n) + d - 1) + 2) \div 153 = n
    BY <2>1 DEF DaysToMonth
  <2>4. QED
    BY <1>1, <1>b, <2>2, <2>3 DEF n, nth, TellsMonth
<1>4. CASE m = 2
  <2>1. n = 11 /\ d <= 29 /\ (d = 29 => IsLeap(y))
    BY <1>a, <1>4, MonthLengths
  <2>2. DaysToMonth(n) + d - 1 \in 0..365 /\ ((DaysToMonth(n) + d - 1) = 365 => d = 29)
    BY <2>1 DEF DaysToMonth
  <2>3. (5 * (DaysToMonth(n) + d - 1) + 2) \div 153 = n
    BY <2>1 DEF DaysToMonth
  <2>4. QED
    BY <1>1, <1>b, <1>4, <2>1, <2>2, <2>3 DEF n, nth, TellsMonth
<1>5. QED
  BY <1>2, <1>3, <1>4

(***************************************************************************)
(* The year and the day of it, found again in a number of days.            *)
(***************************************************************************)
LEMMA YearFound ==
  ASSUME NEW y \in Nat, NEW day \in 0..365, day = 365 => IsLeap(y + 1)
  PROVE  LET x == DaysToMarch(y) + day
         IN  /\ YearOfEra(DayInEra(x)) = YearInEra(y)
             /\ ErasIn(x) = Era(y)
             /\ DayInEra(x) = YearDays(YearInEra(y)) + day
<1> DEFINE era == Era(y)
           z == YearInEra(y)
           c == z \div 100
           q == (z % 100) \div 4
           r == z % 4
           doe == DayOfEra(c, q, r, day)
<1>1. era \in Nat /\ z \in 0..399 /\ y = era * 400 + z
  BY DEF Era, YearInEra
<1>2. DaysOfEras(era) + YearDays(z) = DaysToMarch(y)
  <2>1. y \in Int
    OBVIOUS
  <2>2. QED
    BY <2>1, DaysOfYear
<1> HIDE DEF era, z
<1>3. c \in 0..3 /\ q \in 0..24 /\ r \in 0..3
  BY <1>1
<1>4. z = 100 * c + 4 * q + r
  BY <1>1
<1>5. z \div 4 = 25 * c + q /\ z \div 100 = c
  BY <1>1
<1>6. day = 365 => r = 3 /\ (q = 24 => c = 3)
  <2>1. SUFFICES ASSUME day = 365 PROVE r = 3 /\ (q = 24 => c = 3)
    OBVIOUS
  <2>2. (y + 1) % 4 = 0 /\ ((y + 1) % 100 # 0 \/ (y + 1) % 400 = 0)
    BY <2>1 DEF IsLeap
  <2>3. r = 3
    BY <1>1, <2>2
  <2>4. ASSUME q = 24 PROVE c = 3
    <3>1. z = 100 * c + 99
      BY <1>3, <1>4, <2>3, <2>4
    <3> HIDE DEF c, q, r
    <3>2. y + 1 = 400 * era + 100 * c + 100
      BY <1>1, <1>3, <3>1
    <3>3. (y + 1) % 100 = 0
      BY <1>1, <1>3, <3>2
    <3>4. (y + 1) % 400 = 0
      BY <2>2, <3>3
    <3>5. QED
      BY <1>1, <1>3, <3>2, <3>4
  <2>5. QED
    BY <2>3, <2>4
<1> HIDE DEF c, q, r
<1>7. WithinEra(doe) /\ YearOfEra(doe) = z
  <2>1. ExistsInEra(c, q, r, day)
    BY <1>3, <1>6, SMT DEF ExistsInEra
  <2>2. WithinEra(doe) /\ YearOfEra(doe) = YearsGoneBy(c, q, r)
    BY <2>1, YearFromDay
  <2>3. YearsGoneBy(c, q, r) = z
    BY <1>4 DEF YearsGoneBy
  <2>4. QED
    BY <2>2, <2>3
<1>8. doe = YearDays(z) + day
  BY <1>3, <1>4, <1>5, SMT DEF DayOfEra, YearDays
<1> HIDE DEF doe
<1>9. YearDays(z) \in Int /\ DaysOfEras(era) \in Int
  BY <1>1, SMT DEF YearDays, DaysOfEras
<1>10. DaysToMarch(y) + day = DaysOfEras(era) + doe
  BY <1>1, <1>2, <1>8, <1>9, SMT
<1>11. ErasIn(DaysToMarch(y) + day) = era /\ DayInEra(DaysToMarch(y) + day) = doe
  <2>1. ASSUME NEW x, x = DaysOfEras(era) + doe PROVE ErasIn(x) = era /\ DayInEra(x) = doe
    <3>1. x = era * 146097 + doe /\ doe \in Nat /\ doe < 146097
      BY <2>1, <1>7, SMT DEF DaysOfEras, WithinEra
    <3>2. x \div 146097 = era /\ x % 146097 = doe
      BY <3>1, <1>1, SMT
    <3>3. QED
      BY <3>2, SMT DEF ErasIn, DayInEra
  <2>2. QED
    BY <1>10, <2>1
<1>12. QED
  BY <1>7, <1>8, <1>11 DEF era, z

(***************************************************************************)
(* unix_timestamp_to_components takes the seconds of a date to this date,  *)
(* in every year a u16 holds.                                              *)
(***************************************************************************)
LEMMA DateFromDays ==
  ASSUME NEW t, IsDate(t), NEW i, i.days = DaysFromCivil(t)
  PROVE  FromUnix(i) = [year |-> t.year, month |-> t.month, day |-> t.day,
                        hour |-> i.second \div 3600,
                        minute |-> (i.second % 3600) \div 60,
                        second |-> i.second % 60]
<1>1. PICK y \in Nat : y = t.year
  BY DEF IsDate
<1>2. PICK m \in 1..12 : m = t.month
  BY DEF IsDate
<1>3. PICK d \in Nat : d = t.day
  BY DEF IsDate
<1>4. 0 < y /\ y < 65536 /\ 0 < d /\ d <= LastDayOfMonth(y, m)
  BY <1>1, <1>2, <1>3 DEF IsDate
<1> DEFINE march == IF m <= 2 THEN y - 1 ELSE y
           n == MonthOfYear(m)
           nth == DayOfYear(m, d)
           shifted == i.days + 719468
           yoe == YearOfEra(DayInEra(shifted))
           year == ErasIn(shifted) * 400 + yoe
           doy == DayInEra(shifted) - YearDays(yoe)
           month == (5 * doy + 2) \div 153
<1>b. y \in Nat /\ m \in 1..12 /\ d \in Nat /\ 0 < d /\ d <= LastDayOfMonth(y, m)
  BY <1>4
<1>5. march \in Nat
  BY <1>4
<1>6. /\ n \in 0..11 /\ nth \in 0..365 /\ (5 * nth + 2) \div 153 = n
      /\ nth = 365 => m = 2 /\ IsLeap(y)
  <2>1. TellsMonth(y, m, d)
    BY <1>b, MonthFromDay, Zenon
  <2>2. QED
    BY <2>1 DEF TellsMonth
<1>a. n = (IF m <= 2 THEN m + 9 ELSE m - 3) /\ nth = DaysToMonth(n) + d - 1
  BY DEF MonthOfYear, DayOfYear
<1> HIDE DEF n, nth
<1>7. shifted = DaysToMarch(march) + nth
  <2>1. i.days = IF m <= 2 THEN DaysToMarch(y - 1) + DaysToMonth(m + 9) + d - 719469
                           ELSE DaysToMarch(y) + DaysToMonth(m - 3) + d - 719469
    BY <1>1, <1>2, <1>3, DaysOfDate
  <2>2. i.days = DaysToMarch(march) + DaysToMonth(n) + d - 719469
    BY <2>1, <1>a
  <2>3. DaysToMarch(march) \in Int /\ DaysToMonth(n) \in Int
    BY <1>5, <1>6 DEF DaysToMarch, DaysToMonth
  <2> HIDE DEF march
  <2>4. QED
    BY <2>2, <2>3, <1>a
<1>8. nth = 365 => IsLeap(march + 1)
  <2>1. m = 2 => march + 1 = y
    BY <1>4
  <2>2. QED
    BY <2>1, <1>6
<1>9. year = march /\ doy = nth /\ month = n
  <2> HIDE DEF march, shifted
  <2>1. /\ yoe = YearInEra(march) /\ ErasIn(shifted) = Era(march)
        /\ DayInEra(shifted) = YearDays(YearInEra(march)) + nth
    <3>1. march \in Nat /\ nth \in 0..365 /\ (nth = 365 => IsLeap(march + 1))
      BY <1>5, <1>6, <1>8
    <3>2. QED
      BY <3>1, <1>7, YearFound
  <2>2. march = Era(march) * 400 + YearInEra(march)
    BY <1>5, DaysOfYear
  <2>3. YearDays(YearInEra(march)) \in Int
    BY <1>5 DEF YearDays, YearInEra
  <2>4. year = march /\ doy = nth
    BY <2>1, <2>2, <2>3, <1>6
  <2>5. month = n
    BY <2>4, <1>6
  <2>6. QED
    BY <2>4, <2>5
<1>10. FromUnix(i) =
         [year |-> (IF n < 10 THEN march ELSE march + 1) % 65536,
          month |-> IF n < 10 THEN n + 3 ELSE n - 9,
          day |-> nth - (153 * n + 2) \div 5 + 1,
          hour |-> i.second \div 3600,
          minute |-> (i.second % 3600) \div 60,
          second |-> i.second % 60]
  <2>1. FromUnix(i) =
          [year |-> (IF month < 10 THEN year ELSE year + 1) % 65536,
           month |-> IF month < 10 THEN month + 3 ELSE month - 9,
           day |-> doy - (153 * month + 2) \div 5 + 1,
           hour |-> i.second \div 3600,
           minute |-> (i.second % 3600) \div 60,
           second |-> i.second % 60]
    BY SMT DEF FromUnix, ErasIn, DayInEra, YearDays
  <2> HIDE DEF march, year, doy, month
  <2>2. QED
    BY <1>9, <2>1, SMT
<1>11. (IF n < 10 THEN march ELSE march + 1) % 65536 = y
  <2>1. (IF n < 10 THEN march ELSE march + 1) = y
    BY <1>4, <1>a
  <2>2. y % 65536 = y
    BY <1>4, SMT
  <2>3. QED
    BY <2>1, <2>2, SMT
<1>12. (IF n < 10 THEN n + 3 ELSE n - 9) = m
  BY <1>a
<1>13. nth - (153 * n + 2) \div 5 + 1 = d
  BY <1>6, <1>a DEF DaysToMonth
<1> HIDE DEF march
<1>14. QED
  BY <1>1, <1>2, <1>3, <1>10, <1>11, <1>12, <1>13, SMT

-----------------------------------------------------------------------------
(* The first day of a year.                                                *)

Multiples(k, n) == {x \in 1..n : x % k = 0}

(***************************************************************************)
(* Of the first n years, n \div k are multiples of k: k * i is the i-th.   *)
(***************************************************************************)
LEMMA MultiplesCount ==
  ASSUME NEW k \in {4, 100, 400}, NEW n \in Nat
  PROVE  IsFiniteSet(Multiples(k, n)) /\ Cardinality(Multiples(k, n)) = n \div k
<1> DEFINE S == 1..(n \div k)
           T == Multiples(k, n)
           f == [i \in S |-> k * i]
<1>1. n \div k \in Nat
  <2>1. CASE k = 4
    BY <2>1
  <2>2. CASE k = 100
    BY <2>2
  <2>3. CASE k = 400
    BY <2>3
  <2>4. QED
    BY <2>1, <2>2, <2>3
<1>2. ASSUME NEW i \in S PROVE k * i \in T
  <2>1. CASE k = 4
    BY <2>1, <1>1 DEF Multiples
  <2>2. CASE k = 100
    BY <2>2, <1>1 DEF Multiples
  <2>3. CASE k = 400
    BY <2>3, <1>1 DEF Multiples
  <2>4. QED
    BY <2>1, <2>2, <2>3
<1>3. ASSUME NEW x \in T PROVE x \div k \in S /\ k * (x \div k) = x
  <2>1. CASE k = 4
    BY <2>1, <1>1 DEF Multiples
  <2>2. CASE k = 100
    BY <2>2, <1>1 DEF Multiples
  <2>3. CASE k = 400
    BY <2>3, <1>1 DEF Multiples
  <2>4. QED
    BY <2>1, <2>2, <2>3
<1>4. ASSUME NEW i \in S, NEW j \in S, k * i = k * j PROVE i = j
  <2>1. i \in Int /\ j \in Int
    OBVIOUS
  <2>2. CASE k = 4
    BY <2>1, <2>2, <1>4
  <2>3. CASE k = 100
    BY <2>1, <2>3, <1>4
  <2>4. CASE k = 400
    BY <2>1, <2>4, <1>4
  <2>5. QED
    BY <2>2, <2>3, <2>4
<1>5. IsFiniteSet(S) /\ Cardinality(S) = n \div k
  <2>1. PICK c \in Nat : c = n \div k
    BY <1>1
  <2>2. 1 \in Int /\ c \in Int
    OBVIOUS
  <2>3. IsFiniteSet(1..c) /\ Cardinality(1..c) = IF 1 > c THEN 0 ELSE c - 1 + 1
    BY <2>2, FS_Interval
  <2>4. Cardinality(1..c) = c
    BY <2>3
  <2>5. QED
    BY <2>1, <2>3, <2>4
<1> HIDE DEF S, T
<1>6. f \in [S -> T]
  BY <1>2
<1>7. \A i, j \in S : f[i] = f[j] => i = j
  BY <1>4
<1>8. \A x \in T : \E i \in S : f[i] = x
  BY <1>3
<1> HIDE DEF f
<1>9. f \in Bijection(S, T)
  BY <1>6, <1>7, <1>8, Fun_IsBij
<1>10. ExistsBijection(S, T)
  BY <1>9 DEF ExistsBijection
<1>11. IsFiniteSet(T) /\ Cardinality(T) = Cardinality(S)
  BY <1>5, <1>10, FS_Bijection
<1>12. QED
  BY <1>5, <1>11 DEF T

LEMMA LeapYearsCount ==
  ASSUME NEW n \in Nat
  PROVE  Cardinality({y \in 1..n : IsLeap(y)}) = (n \div 4) - (n \div 100) + (n \div 400)
<1> DEFINE M4 == Multiples(4, n)
           M100 == Multiples(100, n)
           M400 == Multiples(400, n)
<1>1. /\ IsFiniteSet(M4) /\ Cardinality(M4) = n \div 4
      /\ IsFiniteSet(M100) /\ Cardinality(M100) = n \div 100
      /\ IsFiniteSet(M400) /\ Cardinality(M400) = n \div 400
  BY MultiplesCount
<1>2. ASSUME NEW y \in 1..n
      PROVE  (y % 100 = 0 => y % 4 = 0) /\ (y % 400 = 0 => y % 100 = 0)
  OBVIOUS
<1>3. {y \in 1..n : IsLeap(y)} = (M4 \ M100) \cup M400
  BY <1>2 DEF Multiples, IsLeap
<1>4. M4 \cap M100 = M100
  BY <1>2 DEF Multiples
<1>5. (M4 \ M100) \cap M400 = {}
  BY <1>2 DEF Multiples
<1>6. n \div 4 \in Nat /\ n \div 100 \in Nat /\ n \div 400 \in Nat
  OBVIOUS
<1> HIDE DEF M4, M100, M400
<1>7. IsFiniteSet(M4 \ M100) /\ Cardinality(M4 \ M100) = (n \div 4) - (n \div 100)
  BY <1>1, <1>4, FS_Difference
<1>8. Cardinality((M4 \ M100) \cup M400)
        = Cardinality(M4 \ M100) + Cardinality(M400) - Cardinality((M4 \ M100) \cap M400)
  BY <1>1, <1>7, FS_Union
<1>9. Cardinality((M4 \ M100) \cap M400) = 0
  BY <1>5, FS_EmptySet
<1>10. Cardinality((M4 \ M100) \cup M400) = ((n \div 4) - (n \div 100)) + (n \div 400) - 0
  BY <1>1, <1>7, <1>8, <1>9
<1>11. ASSUME NEW a \in Nat, NEW b \in Nat, NEW c \in Nat
       PROVE  (a - b) + c - 0 = a - b + c
  OBVIOUS
<1>12. ((n \div 4) - (n \div 100)) + (n \div 400) - 0
         = (n \div 4) - (n \div 100) + (n \div 400)
  BY <1>6, <1>11
<1>13. QED
  BY <1>3, <1>10, <1>12

LEMMA DaysGoneBy ==
  ASSUME NEW y \in Nat, 0 < y
  PROVE  DaysBefore(y) = DaysToMarch(y - 1) /\ DaysBefore(y) \in Int
<1>1. PICK x \in Nat : x = y - 1
  OBVIOUS
<1>2. Cardinality({n \in 1..x : IsLeap(n)}) = (x \div 4) - (x \div 100) + (x \div 400)
  BY LeapYearsCount
<1>3. DaysBefore(y) = 365 * x + ((x \div 4) - (x \div 100) + (x \div 400))
  BY <1>1, <1>2 DEF DaysBefore
<1>4. DaysToMarch(x) = 365 * x + ((x \div 4) - (x \div 100) + (x \div 400))
  BY DEF DaysToMarch
<1>5. DaysToMarch(x) \in Int
  BY DEF DaysToMarch
<1>6. QED
  BY <1>1, <1>3, <1>4, <1>5

(***************************************************************************)
(* to_unix of a first of January, against the years gone by.               *)
(***************************************************************************)
LEMMA NewYearCounts ==
  ASSUME NEW y \in Nat, 0 < y, y < 65536
  PROVE  /\ IsDate(NewYear(y))
         /\ DaysFromCivil(NewYear(y)) = DaysBefore(y) - DaysBefore(1970)
<1> DEFINE t == NewYear(y)
<1>1. t.year = y /\ t.month = 1 /\ t.day = 1
  BY FieldsOfDate DEF NewYear
<1>2. t = CivilDate(t.year, t.month, t.day)
  BY <1>1 DEF NewYear
<1> HIDE DEF t
<1>3. LastDayOfMonth(y, 1) = 31
  BY MonthLengths
<1>4. IsDate(t)
  BY <1>1, <1>2, <1>3, SMT DEF IsDate
<1>5. DaysBefore(y) = DaysToMarch(y - 1) /\ DaysBefore(1970) = DaysToMarch(1970 - 1)
  BY DaysGoneBy, SMT
<1>6. DaysBefore(1970) = 719162
  <2>1. DaysBefore(1970) = DaysToMarch(1970 - 1)
    BY <1>5, SMT
  <2>2. DaysToMarch(1970 - 1) = 719162
    BY SMT DEF DaysToMarch
  <2>3. QED
    BY <2>1, <2>2, SMT
<1>7. DaysFromCivil(t) = DaysToMarch(y - 1) + DaysToMonth(1 + 9) + 1 - 719469
  BY <1>1, <1>4, DaysOfDate, SMT
<1>8. DaysToMonth(1 + 9) = 306
  BY MonthSteps
<1>9. DaysToMarch(y - 1) \in Int
  BY DEF DaysToMarch
<1>10. DaysFromCivil(t) = DaysBefore(y) - DaysBefore(1970)
  BY <1>5, <1>6, <1>7, <1>8, <1>9, SMT
<1>11. QED
  BY <1>4, <1>10, SMT DEF t

-----------------------------------------------------------------------------
(* The calendar that turns one page a day.                                 *)

(***************************************************************************)
(* What makes the conversions right on every day: the page of the calendar *)
(* is a date that exists, and `at` stands as many days after 1970-01-01 as *)
(* to_unix counts for it.                                                  *)
(***************************************************************************)
DateInv ==
  /\ IsDate(date)
  /\ IsInstant(at) /\ at.days = DaysFromCivil(date)
  /\ IsWord(word)

LEMMA DatesExist == DateSpec => []DateInv
<1>1. DateInit => DateInv
  <2> SUFFICES ASSUME DateInit PROVE DateInv
    OBVIOUS
  <2>1. ASSUME NEW y \in StartYears, NEW s \in Seconds, date = NewYear(y),
               at = [days |-> DaysBefore(y) - DaysBefore(1970), second |-> s], word = 0
        PROVE  DateInv
    <3>1. y \in Nat /\ 0 < y /\ y < 65536 /\ s \in Nat /\ s < 86400
      BY CalendarAssumption, SMT
    <3>2. /\ IsDate(NewYear(y))
          /\ DaysFromCivil(NewYear(y)) = DaysBefore(y) - DaysBefore(1970)
      BY <3>1, NewYearCounts, SMT
    <3>3. IsDate(date) /\ DaysFromCivil(date) = DaysBefore(y) - DaysBefore(1970)
      BY <2>1, <3>2
    <3>4. DaysFromCivil(date) \in Int
      BY <3>3, DaysIsInt
    <3>5. at.days = DaysFromCivil(date) /\ at.second = s
      BY <2>1, <3>3
    <3>6. at = [days |-> at.days, second |-> at.second]
      BY <2>1, <3>3, <3>5
    <3>7. IsInstant(at)
      BY <3>1, <3>4, <3>5, <3>6, SMT DEF IsInstant
    <3>8. IsWord(word)
      BY <2>1, SMT DEF IsWord
    <3>9. QED
      BY <3>3, <3>5, <3>7, <3>8, SMT DEF DateInv
  <2>2. ASSUME at = Epoch, date = NewYear(1970), word \in DosWords
        PROVE  DateInv
    <3>1. /\ IsDate(NewYear(1970))
          /\ DaysFromCivil(NewYear(1970)) = DaysBefore(1970) - DaysBefore(1970)
      BY NewYearCounts, SMT
    <3>2. DaysBefore(1970) \in Int
      BY DaysGoneBy, SMT
    <3>3. IsDate(date) /\ DaysFromCivil(date) = 0
      BY <2>2, <3>1, <3>2
    <3>4. IsInstant(at) /\ at.days = 0
      BY <2>2, SMT DEF Epoch, IsInstant
    <3>5. IsWord(word)
      BY <2>2, CalendarAssumption, SMT DEF IsWord
    <3>6. QED
      BY <3>3, <3>4, <3>5, SMT DEF DateInv
  <2>3. QED
    BY <2>1, <2>2 DEF DateInit
<1>2. DateInv /\ [Tomorrow]_dateVars => DateInv'
  <2> SUFFICES ASSUME DateInv, [Tomorrow]_dateVars PROVE DateInv'
    OBVIOUS
  <2>1. CASE UNCHANGED dateVars
    BY <2>1, Zenon DEF DateInv, dateVars
  <2>2. CASE Tomorrow
    <3>1. IsDate(date) /\ date.year < 65535
      <4>1. PICK y \in StartYears : y = date.year
        BY <2>2 DEF Tomorrow
      <4>2. y < 65535
        BY CalendarAssumption, SMT
      <4>3. QED
        BY <4>1, <4>2, SMT DEF DateInv
    <3>2. date' = DayAfter(date)
      BY <2>2 DEF Tomorrow
    <3>3. IsDate(date') /\ DaysFromCivil(date') = DaysFromCivil(date) + 1
      BY <3>1, <3>2, DayAfterCounts, SMT
    <3>4. at' = [days |-> at.days + 1, second |-> at.second]
      BY <2>2 DEF Tomorrow
    <3>5. at.days \in Int /\ at.second \in Nat /\ at.second < 86400
          /\ at.days = DaysFromCivil(date)
      BY SMT DEF DateInv, IsInstant
    <3>6. at'.days = at.days + 1 /\ at'.second = at.second
      BY <3>4
    <3>7. at' = [days |-> at'.days, second |-> at'.second]
      BY <3>4, <3>6
    <3>8. IsInstant(at') /\ at'.days = DaysFromCivil(date')
      BY <3>3, <3>5, <3>6, <3>7, SMT DEF IsInstant
    <3>9. word' = word
      BY <2>2 DEF Tomorrow
    <3>10. QED
      BY <3>3, <3>8, <3>9, SMT DEF DateInv
  <2>3. QED
    BY <2>1, <2>2
<1>3. QED
  BY <1>1, <1>2, PTL DEF DateSpec

(***************************************************************************)
(* A clock shows an hour, a minute and a second of every second of a day,  *)
(* and they make that second again.                                        *)
(***************************************************************************)
LEMMA ClockShows ==
  ASSUME NEW s \in Nat, s < 86400
  PROVE  TellsTime(s)
<1>1. s \div 3600 \in 0..23
  BY SMT
<1>2. (s \div 60) % 60 \in 0..59
  BY SMT
<1>3. s % 60 \in 0..59
  BY SMT
<1>4. s \div 3600 = (s \div 60) \div 60 /\ s = (s \div 60) * 60 + (s % 60)
  BY SMT
<1>5. s \div 60 = ((s \div 60) \div 60) * 60 + ((s \div 60) % 60)
  BY SMT
<1>6. (s \div 3600) * 3600 + ((s \div 60) % 60) * 60 + (s % 60) = s
  BY <1>4, <1>5, SMT
<1>7. s % 3600 = ((s \div 60) % 60) * 60 + (s % 60)
  BY <1>1, <1>2, <1>3, <1>6, SMT
<1>8. (s % 3600) \div 60 = (s \div 60) % 60
  BY <1>2, <1>3, <1>7, SMT
<1>9. QED
  BY <1>1, <1>2, <1>3, <1>6, <1>8, SMT DEF TellsTime

(***************************************************************************)
(* from_unix and to_unix agree with the calendar on every day that it      *)
(* shows, whatever the day it started from.                                *)
(***************************************************************************)
LEMMA AgreesWithCalendar == DateInv => CalendarAgrees
<1> SUFFICES ASSUME DateInv PROVE CalendarAgrees
  OBVIOUS
<1>1. IsDate(date) /\ at.days = DaysFromCivil(date)
  BY DEF DateInv
<1>2. PICK s \in Nat : s = at.second /\ s < 86400
  BY SMT DEF DateInv, IsInstant
<1>3. at = [days |-> at.days, second |-> at.second]
  BY DEF DateInv, IsInstant
<1>4. /\ (s % 3600) \div 60 = (s \div 60) % 60
      /\ (s \div 3600) * 3600 + ((s \div 60) % 60) * 60 + (s % 60) = s
  <2>1. TellsTime(s)
    BY <1>2, ClockShows, SMT
  <2>2. QED
    BY <2>1 DEF TellsTime
<1>5. FromUnix(at) = Shown
  <2>1. FromUnix(at) = [year |-> date.year, month |-> date.month, day |-> date.day,
                        hour |-> at.second \div 3600,
                        minute |-> (at.second % 3600) \div 60,
                        second |-> at.second % 60]
    BY <1>1, DateFromDays
  <2>2. (at.second % 3600) \div 60 = (at.second \div 60) % 60
    BY <1>2, <1>4
  <2>3. QED
    BY <2>1, <2>2 DEF Shown
<1>6. ToUnix(Shown) = at
  <2>1. DaysFromCivil(Shown) = DaysFromCivil(date)
    <3>1. /\ Shown.year = date.year /\ Shown.month = date.month
          /\ Shown.day = date.day
      BY DEF Shown
    <3>2. QED
      BY <3>1, SMT DEF DaysFromCivil
  <2>2. Shown.hour * 3600 + Shown.minute * 60 + Shown.second = at.second
    <3>1. /\ Shown.hour = s \div 3600 /\ Shown.minute = (s \div 60) % 60
          /\ Shown.second = s % 60
      BY <1>2 DEF Shown
    <3>2. QED
      BY <1>2, <1>4, <3>1, SMT
  <2>3. QED
    BY <1>1, <1>3, <2>1, <2>2, SMT DEF ToUnix
<1>7. QED
  BY <1>5, <1>6 DEF CalendarAgrees

-----------------------------------------------------------------------------
(* What is stored of a time.                                               *)

(***************************************************************************)
(* `as u32` leaves the seconds from 1970 to 2^32 alone.                    *)
(***************************************************************************)
LEMMA StaysInU32 ==
  ASSUME NEW i, IsInstant(i), ~Earlier(i, Epoch), Earlier(i, TwoTo32(1))
  PROVE  AsU32(i) = i
<1>1. PICK d \in Int : d = i.days
  BY DEF IsInstant
<1>2. PICK s \in Nat : s = i.second /\ s < 86400
  BY SMT DEF IsInstant
<1>3. TwoTo32(0).days = 0 /\ TwoTo32(0).second = 0
  BY SMT DEF TwoTo32
<1>4. TwoTo32(1).days = 49710 /\ TwoTo32(1).second = 23296
  BY SMT DEF TwoTo32
<1>5. TwoTo32(2).days = 99420 /\ TwoTo32(2).second = 46592
  BY SMT DEF TwoTo32
<1>6. 0 <= d /\ d <= 49710 /\ (d = 49710 => s < 23296)
  <2>1. Epoch.days = 0 /\ Epoch.second = 0
    BY DEF Epoch
  <2>2. QED
    BY <1>1, <1>2, <1>4, <2>1, SMT DEF Earlier
<1> DEFINE near == i.days \div 49710
           Within(q) == ~Earlier(i, TwoTo32(q)) /\ Earlier(i, TwoTo32(q + 1))
           Q == CHOOSE q \in (near - 1)..(near + 1) : Within(q)
<1>7. near \in {0, 1}
  BY <1>1, <1>6, SMT
<1>8. Within(0)
  <2>1. 0 + 1 = 1
    OBVIOUS
  <2>2. ~Earlier(i, TwoTo32(0))
    BY <1>1, <1>2, <1>3, <1>6, SMT DEF Earlier
  <2>3. QED
    BY <2>1, <2>2
<1>9. ASSUME NEW q \in {-1, 1, 2} PROVE ~Within(q)
  <2>1. CASE q = -1
    <3>1. q + 1 = 0
      BY <2>1
    <3>2. ~Earlier(i, TwoTo32(0))
      BY <1>1, <1>2, <1>3, <1>6, SMT DEF Earlier
    <3>3. QED
      BY <3>1, <3>2
  <2>2. CASE q = 1
    BY <2>2
  <2>3. CASE q = 2
    <3>1. Earlier(i, TwoTo32(2))
      BY <1>1, <1>2, <1>5, <1>6, SMT DEF Earlier
    <3>2. QED
      BY <2>3, <3>1
  <2>4. QED
    BY <2>1, <2>2, <2>3
<1>10. AsU32(i) = Since(i, TwoTo32(Q))
  BY SMT DEF AsU32
<1> HIDE DEF near, Within
<1>11. 0 \in (near - 1)..(near + 1) /\ \A q \in (near - 1)..(near + 1) : q \in {-1, 0, 1, 2}
  BY <1>7
<1>12. Q = 0
  <2>1. Q \in (near - 1)..(near + 1) /\ Within(Q)
    BY <1>8, <1>11
  <2>2. QED
    BY <2>1, <1>9, <1>11
<1> HIDE DEF Q
<1>13. Since(i, TwoTo32(0)) = i
  <2>1. i.second - 0 = s /\ i.days - 0 = d
    BY <1>1, <1>2
  <2>2. s \div 86400 = 0 /\ s % 86400 = s
    BY <1>2, SMT
  <2>3. d + 0 = d
    OBVIOUS
  <2>4. Since(i, TwoTo32(0)) = [days |-> d, second |-> s]
    BY <1>3, <2>1, <2>2, <2>3, SMT DEF Since
  <2>5. i = [days |-> d, second |-> s]
    BY <1>1, <1>2, SMT DEF IsInstant
  <2>6. QED
    BY <2>4, <2>5
<1>14. QED
  BY <1>10, <1>12, <1>13

LEMMA SinceShifts ==
  ASSUME NEW i, IsInstant(i), NEW n \in Int, NEW m \in Int, m = -n
  PROVE  /\ Since(i, [days |-> m, second |-> 0]) = [days |-> i.days + n, second |-> i.second]
         /\ Since([days |-> i.days + n, second |-> i.second],
                  [days |-> n, second |-> 0]) = i
<1>1. PICK d \in Int : d = i.days
  BY DEF IsInstant
<1>2. PICK s \in Nat : s = i.second /\ s < 86400
  BY SMT DEF IsInstant
<1>3. i = [days |-> d, second |-> s]
  BY <1>1, <1>2, SMT DEF IsInstant
<1>4. (s - 0) \div 86400 = 0 /\ (s - 0) % 86400 = s
  BY <1>2, SMT
<1>5. d - m + 0 = d + n /\ (d + n) - n + 0 = d
  OBVIOUS
<1>6. Since(i, [days |-> m, second |-> 0]) =
        [days |-> d - m + ((s - 0) \div 86400), second |-> (s - 0) % 86400]
  BY <1>1, <1>2, SMT DEF Since
<1>7. Since([days |-> i.days + n, second |-> i.second], [days |-> n, second |-> 0]) =
        [days |-> (d + n) - n + ((s - 0) \div 86400), second |-> (s - 0) % 86400]
  BY <1>1, <1>2, SMT DEF Since
<1>8. QED
  BY <1>1, <1>2, <1>3, <1>4, <1>5, <1>6, <1>7, SMT

LEMMA EpochIsInstant == IsInstant(Epoch) /\ ~Earlier(Epoch, Epoch)
  BY SMT DEF IsInstant, Epoch, Earlier

(***************************************************************************)
(* The extended timestamp and the NTFS ticks give a time back.             *)
(***************************************************************************)
LEMMA StoredSurvives == DateInv => StoredTimesSurvive
<1> SUFFICES ASSUME DateInv PROVE StoredTimesSurvive
  OBVIOUS
<1>1. IsInstant(at)
  BY DEF DateInv
<1>2. FromUnix(at) = Shown /\ ToUnix(Shown) = at
  BY AgreesWithCalendar DEF CalendarAgrees
<1> DEFINE raised == IF Earlier(at, Epoch) THEN FromUnix(Epoch) ELSE Shown
           since1601 == Since(at, [days |-> -134774, second |-> 0])
<1>3. ASSUME Earlier(at, TwoTo32(1)) PROVE FromUnix(MtimeField(Shown)) = raised
  <2>1. MtimeField(Shown) = AsU32(IF Earlier(at, Epoch) THEN Epoch ELSE at)
    BY <1>2 DEF MtimeField
  <2>2. CASE Earlier(at, Epoch)
    <3>1. Earlier(Epoch, TwoTo32(1))
      BY SMT DEF Earlier, Epoch, TwoTo32
    <3>2. AsU32(Epoch) = Epoch
      BY <3>1, EpochIsInstant, StaysInU32
    <3>3. QED
      BY <2>1, <2>2, <3>2
  <2>3. CASE ~Earlier(at, Epoch)
    <3>1. AsU32(at) = at
      BY <1>1, <1>3, <2>3, StaysInU32
    <3>2. QED
      BY <1>2, <2>1, <2>3, <3>1
  <2>4. QED
    BY <2>2, <2>3
<1>4. FromNtfs(since1601) = raised
  <2>1. PICK n \in Int : n = 134774
    BY SMT
  <2>2. PICK m \in Int : m = -n
    OBVIOUS
  <2> DEFINE ticks == [days |-> at.days + n, second |-> at.second]
             epoch == [days |-> n, second |-> 0]
  <2>3. since1601 = Since(at, [days |-> m, second |-> 0])
    BY <2>1, <2>2, SMT
  <2>4. since1601 = ticks /\ Since(ticks, epoch) = at
    BY <1>1, <2>2, <2>3, SinceShifts
  <2>5. FromNtfs(ticks) =
          FromUnix(IF Earlier(ticks, epoch) THEN Epoch ELSE Since(ticks, epoch))
    BY <2>1, SMT DEF FromNtfs
  <2>6. Earlier(ticks, epoch) <=> Earlier(at, Epoch)
    <3>1. at.days \in Int /\ at.second \in Nat
      BY <1>1 DEF IsInstant
    <3>2. /\ ticks.days = at.days + n /\ ticks.second = at.second
          /\ epoch.days = n /\ epoch.second = 0
      OBVIOUS
    <3>3. Epoch.days = 0 /\ Epoch.second = 0
      BY DEF Epoch
    <3>4. QED
      BY <3>1, <3>2, <3>3, SMT DEF Earlier
  <2> HIDE DEF ticks, epoch
  <2>7. FromNtfs(ticks) = raised
    BY <1>2, <2>4, <2>5, <2>6, SMT
  <2>8. QED
    BY <2>4, <2>7, SMT
<1>5. QED
  BY <1>3, <1>4, SMT DEF StoredTimesSurvive

(***************************************************************************)
(* Every date a u16 year allows survives the ways through seconds: civil   *)
(* time, the 32-bit timestamp of a local header and the ticks of NTFS.     *)
(***************************************************************************)
THEOREM TimesKept == DateSpec => []TimesSurvive
<1>1. DateInv => TimesSurvive
  BY AgreesWithCalendar, StoredSurvives DEF TimesSurvive
<1>2. QED
  BY <1>1, DatesExist, PTL

-----------------------------------------------------------------------------
(* The words of MS-DOS.                                                    *)

LEMMA DosDatePacks ==
  ASSUME NEW y \in 0..127, NEW m \in 1..12, NEW d \in 1..31
  PROVE  DateUnpacks(PackedDate(y, m, d), y, m, d)
<1> DEFINE w == PackedDate(y, m, d)
<1>a. w = y * 512 + m * 32 + d
  BY DEF PackedDate
<1> HIDE DEF w
<1>1. w \div 512 = y
  BY <1>a, SMT
<1>2. w \div 32 = y * 16 + m
  BY <1>a, SMT
<1>3. (w \div 32) % 16 = m
  BY <1>2, SMT
<1>4. w % 32 = d
  BY <1>a, SMT
<1>5. y % 128 = y
  BY SMT
<1>6. QED
  BY <1>1, <1>3, <1>4, <1>5, SMT DEF DateUnpacks, w

LEMMA DosTimePacks ==
  ASSUME NEW h \in 0..23, NEW m \in 0..59, NEW s \in 0..59
  PROVE  TimeUnpacks(PackedTime(h, m, s), h, m, s)
<1> DEFINE w == PackedTime(h, m, s)
<1>1. PICK k \in 0..29 : k = s \div 2
  BY SMT
<1>2. w = h * 2048 + m * 32 + k
  BY <1>1, SMT DEF PackedTime
<1> HIDE DEF w
<1>3. w \div 2048 = h
  BY <1>2, SMT
<1>4. w \div 32 = h * 64 + m
  BY <1>2, SMT
<1>5. (w \div 32) % 64 = m
  BY <1>4, SMT
<1>6. w % 32 = k
  BY <1>2, SMT
<1>7. k * 2 = s - (s % 2)
  BY <1>1, SMT
<1>8. h % 32 = h
  BY SMT
<1>9. QED
  BY <1>3, <1>5, <1>6, <1>7, <1>8, SMT DEF TimeUnpacks, w

(***************************************************************************)
(* What is shown of a date is read back from the words it is packed in.    *)
(***************************************************************************)
LEMMA DosReadsBack ==
  ASSUME NEW y \in Nat, NEW m \in 1..12, NEW d \in 1..31,
         NEW h \in 0..23, NEW n \in 0..59, NEW s \in 0..59
  PROVE  FromDos(DosFrom(CivilTime(y, m, d, h, n, s))) = NearestDosTime(y, m, d, h, n, s)
<1> DEFINE t == CivilTime(y, m, d, h, n, s)
           w == DosFrom(t)
           year == Clamp(y, 1980, 2107)
<1>1. year \in 1980..2107
  BY SMT DEF Clamp
<1>2. PICK a \in 0..127 : a = year - 1980
  BY <1>1, SMT
<1>3. w.date = PackedDate(a, m, d)
  BY <1>2, SMT DEF DosFrom, PackedDate, CivilTime
<1>4. w.time = PackedTime(h, n, s)
  BY SMT DEF DosFrom, PackedTime, CivilTime
<1> HIDE DEF w
<1>5. DateUnpacks(w.date, a, m, d) /\ TimeUnpacks(w.time, h, n, s)
  BY <1>3, <1>4, DosDatePacks, DosTimePacks, Zenon
<1>6. a + 1980 = year
  BY <1>1, <1>2, SMT
<1> HIDE DEF year
<1>7. DosYear(w) = year
  BY <1>5, <1>6, SMT DEF DosYear, DateUnpacks
<1>8. DosMonth(w) = m
  BY <1>5, SMT DEF DosMonth, DateUnpacks, Clamp
<1>9. DosDay(w) = Clamp(d, 1, LastDayOfMonth(year, m))
  BY <1>5, <1>7, <1>8, SMT DEF DosDay, DateUnpacks
<1>10. Clamp(h, 0, 23) = h /\ Clamp(n, 0, 59) = n
  BY SMT DEF Clamp
<1>11. Clamp(s - (s % 2), 0, 58) = s - (s % 2)
  <2>1. s - (s % 2) \in 0..58
    BY SMT
  <2>2. QED
    BY <2>1, SMT DEF Clamp
<1>12. /\ Clamp((w.time \div 2048) % 32, 0, 23) = h
       /\ Clamp((w.time \div 32) % 64, 0, 59) = n
       /\ Clamp((w.time % 32) * 2, 0, 58) = s - (s % 2)
  BY <1>5, <1>10, <1>11, SMT DEF TimeUnpacks
<1>13. FromDos(w) = CivilTime(DosYear(w), DosMonth(w), DosDay(w),
                              Clamp((w.time \div 2048) % 32, 0, 23),
                              Clamp((w.time \div 32) % 64, 0, 59),
                              Clamp((w.time % 32) * 2, 0, 58))
  BY SMT DEF FromDos, CivilTime
<1>14. FromDos(w) = CivilTime(year, m, Clamp(d, 1, LastDayOfMonth(year, m)), h, n, s - (s % 2))
  BY <1>7, <1>8, <1>9, <1>12, <1>13, SMT
<1>15. QED
  BY <1>14, SMT DEF w, year, NearestDosTime

(***************************************************************************)
(* Any words make a date that exists.                                      *)
(***************************************************************************)
LEMMA DosExists ==
  ASSUME NEW w, w.date \in Nat, w.time \in Nat
  PROVE  Accepted(FromDos(w))
<1> DEFINE t == FromDos(w)
<1>1. t.year = DosYear(w) /\ t.month = DosMonth(w) /\ t.day = DosDay(w)
  BY DEF FromDos
<1>2. /\ t.hour = Clamp((w.time \div 2048) % 32, 0, 23)
      /\ t.minute = Clamp((w.time \div 32) % 64, 0, 59)
      /\ t.second = Clamp((w.time % 32) * 2, 0, 58)
  BY DEF FromDos
<1> HIDE DEF t
<1>3. /\ (w.time \div 2048) % 32 \in Int /\ (w.time \div 32) % 64 \in Int
      /\ (w.time % 32) * 2 \in Int
  OBVIOUS
<1>4. t.hour \in 0..23 /\ t.minute \in 0..59 /\ t.second \in 0..58
  BY <1>2, <1>3, SMT DEF Clamp
<1>5. t.second \in 0..59
  BY <1>4
<1>6. DosYear(w) \in 1980..2107
  BY DEF DosYear
<1>7. DosMonth(w) \in 1..12
  <2>1. (w.date \div 32) % 16 \in Int
    OBVIOUS
  <2>2. QED
    BY <2>1, SMT DEF DosMonth, Clamp
<1>8. LastDayOfMonth(DosYear(w), DosMonth(w)) \in 28..31
  BY <1>7, MonthLengthBounds
<1>9. DosDay(w) \in 1..LastDayOfMonth(DosYear(w), DosMonth(w))
  <2>1. w.date % 32 \in Int
    OBVIOUS
  <2>2. PICK last \in 28..31 : last = LastDayOfMonth(DosYear(w), DosMonth(w))
    BY <1>8
  <2>3. DosDay(w) = Clamp(w.date % 32, 1, last)
    BY <2>2 DEF DosDay
  <2>4. Clamp(w.date % 32, 1, last) \in 1..last
    BY <2>1, SMT DEF Clamp
  <2>5. QED
    BY <2>2, <2>3, <2>4, SMT
<1>10. t.year \in Nat /\ 0 < t.year /\ t.year < 65536
  BY <1>1, <1>6, SMT
<1>11. QED
  BY <1>1, <1>4, <1>5, <1>7, <1>9, <1>10, SMT DEF Accepted, t

(***************************************************************************)
(* DosDateTime::from and LocalDateTime::from_dos: for every date a u16     *)
(* year allows and every word a header may hold.                           *)
(***************************************************************************)
THEOREM DosKept == DateSpec => []DosNearest
<1>1. DateInv => DosNearest
  <2> SUFFICES ASSUME DateInv PROVE DosNearest
    OBVIOUS
  <2>1. PICK y \in Nat : y = date.year
    BY SMT DEF DateInv, IsDate
  <2>2. PICK m \in 1..12 : m = date.month
    BY SMT DEF DateInv, IsDate
  <2>3. PICK d \in 1..31 : d = date.day
    <3>1. date.day \in Nat /\ 0 < date.day
          /\ date.day <= LastDayOfMonth(date.year, date.month)
      BY SMT DEF DateInv, IsDate
    <3>2. LastDayOfMonth(date.year, date.month) \in 28..31
      BY <2>2, MonthLengthBounds
    <3>3. date.day \in 1..31
      BY <3>1, <3>2
    <3>4. QED
      BY <3>3
  <2>4. TellsTime(at.second)
    <3>1. at.second \in Nat /\ at.second < 86400
      BY SMT DEF DateInv, IsInstant
    <3>2. QED
      BY <3>1, ClockShows, SMT
  <2>5. PICK h \in 0..23 : h = at.second \div 3600
    BY <2>4 DEF TellsTime
  <2>6. PICK n \in 0..59 : n = (at.second \div 60) % 60
    BY <2>4 DEF TellsTime
  <2>7. PICK s \in 0..59 : s = at.second % 60
    BY <2>4 DEF TellsTime
  <2>8. Shown = CivilTime(y, m, d, h, n, s)
    BY <2>1, <2>2, <2>3, <2>5, <2>6, <2>7 DEF Shown, CivilTime
  <2>9. FromDos(DosFrom(Shown)) = NearestDosTime(y, m, d, h, n, s)
    BY <2>8, DosReadsBack, Zenon
  <2>10. /\ Shown.year = y /\ Shown.month = m /\ Shown.day = d
         /\ Shown.hour = h /\ Shown.minute = n /\ Shown.second = s
    BY <2>8 DEF CivilTime
  <2>11. Accepted(FromDos([date |-> word, time |-> word]))
    <3>1. word \in Nat
      BY SMT DEF DateInv, IsWord
    <3>2. QED
      BY <3>1, DosExists
  <2>12. QED
    BY <2>9, <2>10, <2>11, SMT DEF DosNearest, NearestDosTime, CivilTime
<1>2. QED
  BY <1>1, DatesExist, PTL

-----------------------------------------------------------------------------
(* Induction.                                                              *)

\* A set of numbers that is not empty has a least one.
LEMMA Least ==
  ASSUME NEW S \in SUBSET Nat, S # {}
  PROVE  \E n \in S : \A k \in S : n <= k
<1>1. IsWellFoundedOn(OpToRel(<, Nat), Nat)
  BY NatLessThanWellFounded
<1>2. \E n \in S : \A k \in S : ~ (<<k, n>> \in OpToRel(<, Nat))
  BY <1>1, WFMin
<1>3. PICK n \in S : \A k \in S : ~ (<<k, n>> \in OpToRel(<, Nat))
  BY <1>2
<1>4. \A k \in S : ~ (k < n)
  BY <1>3 DEF OpToRel
<1>5. \A k \in S : n <= k
  BY <1>4
<1> QED
  BY <1>5

(***************************************************************************)
(* Induction up to a bound: there is no least counterexample.  S is a set, *)
(* so that nothing has to be instantiated by an operator.                  *)
(***************************************************************************)
LEMMA StepByStep ==
  ASSUME NEW N \in Nat, NEW S, 0 \in S,
         \A n \in 1..N : n - 1 \in S => n \in S
  PROVE  0..N \subseteq S
<1> SUFFICES ASSUME (0..N) \ S # {} PROVE FALSE
  OBVIOUS
<1> DEFINE T == (0..N) \ S
<1>1. T \in SUBSET Nat /\ T # {}
  OBVIOUS
<1> HIDE DEF T
<1>2. PICK n \in T : \A k \in T : n <= k
  BY <1>1, Least
<1>3. n \in 0..N /\ n \notin S
  BY <1>2 DEF T
<1>4. n \in 1..N
  BY <1>3
<1>5. n - 1 \notin T
  BY <1>2, <1>4
<1>6. n - 1 \in S
  BY <1>4, <1>5 DEF T
<1> QED
  BY <1>3, <1>4, <1>6

(***************************************************************************)
(* What a recursive function computes: the equation has a solution, which  *)
(* Recursion gives, so that the function defined by it satisfies it, and   *)
(* two solutions agree from step to step.                                  *)
(***************************************************************************)
Runs(f, start, step, n) ==
  f[0] = start /\ \A m \in 1..n : f[m] = step[<<m, f[m - 1]>>]

LEMMA Recursion ==
  ASSUME NEW T, NEW start \in T, NEW N \in Nat, NEW step \in [(1..N) \X T -> T]
  PROVE  \E f \in [0..N -> T] : Runs(f, start, step, N)
<1> DEFINE S == {n \in 0..N : \E f \in [0..n -> T] : Runs(f, start, step, n)}
<1>1. 0 \in S
  <2>1. /\ [m \in 0..0 |-> start] \in [0..0 -> T]
        /\ Runs([m \in 0..0 |-> start], start, step, 0)
    BY DEF Runs
  <2> QED
    BY <2>1
<1>2. ASSUME NEW n \in 1..N, n - 1 \in S PROVE n \in S
  <2>1. PICK f \in [0..(n - 1) -> T] : Runs(f, start, step, n - 1)
    BY <1>2
  <2>2. f[n - 1] \in T /\ <<n, f[n - 1]>> \in (1..N) \X T
    OBVIOUS
  <2>3. PICK t \in T : t = step[<<n, f[n - 1]>>]
    BY <2>2
  <2>4. PICK g : g = [m \in 0..n |-> IF m = n THEN t ELSE f[m]]
    OBVIOUS
  <2>5. g \in [0..n -> T]
    BY <2>4
  <2>6. \A m \in 0..(n - 1) : g[m] = f[m]
    BY <2>4
  <2>7. g[n] = t
    BY <2>4
  <2>8. ASSUME NEW m \in 1..n PROVE g[m] = step[<<m, g[m - 1]>>]
    <3>1. m - 1 \in 0..(n - 1) /\ g[m - 1] = f[m - 1]
      BY <2>6
    <3>2. CASE m = n
      BY <3>1, <3>2, <2>3, <2>7
    <3>3. CASE m # n
      <4>1. m \in 1..(n - 1) /\ m \in 0..(n - 1)
        BY <3>3
      <4> QED
        BY <4>1, <3>1, <2>1, <2>6 DEF Runs
    <3> QED
      BY <3>2, <3>3
  <2>9. g[0] = start
    BY <2>1, <2>6 DEF Runs
  <2> QED
    BY <2>5, <2>8, <2>9 DEF Runs
<1> HIDE DEF S
<1>3. 0..N \subseteq S
  BY <1>1, <1>2, StepByStep
<1>4. N \in S
  BY <1>3
<1> QED
  BY <1>4 DEF S

-----------------------------------------------------------------------------
(* Sequences, joined and cut.                                              *)

LEMMA FrontOfConcat ==
  ASSUME NEW V, NEW s \in Seq(V), NEW t \in Seq(V), NEW n \in 0..Len(s)
  PROVE  SubSeq(s \o t, 1, n) = SubSeq(s, 1, n)
<1>1. SubSeq(s \o t, 1, n) \in Seq(V) /\ SubSeq(s, 1, n) \in Seq(V)
  OBVIOUS
<1>2. Len(SubSeq(s \o t, 1, n)) = n /\ Len(SubSeq(s, 1, n)) = n
  OBVIOUS
<1>3. \A i \in 1..n : SubSeq(s \o t, 1, n)[i] = SubSeq(s, 1, n)[i]
  OBVIOUS
<1> QED
  BY <1>1, <1>2, <1>3, SeqEqual

LEMMA SecondOfConcat ==
  ASSUME NEW V, NEW s \in Seq(V), NEW t \in Seq(V), NEW n \in 1..Len(t)
  PROVE  (s \o t)[Len(s) + n] = t[n]
OBVIOUS

LEMMA ConcatFront ==
  ASSUME NEW V, NEW s \in Seq(V), NEW t \in Seq(V), NEW n \in 0..Len(t)
  PROVE  SubSeq(s \o t, 1, Len(s) + n) = s \o SubSeq(t, 1, n)
<1>1. SubSeq(s \o t, 1, Len(s) + n) \in Seq(V) /\ s \o SubSeq(t, 1, n) \in Seq(V)
  OBVIOUS
<1>2. /\ Len(SubSeq(s \o t, 1, Len(s) + n)) = Len(s) + n
      /\ Len(s \o SubSeq(t, 1, n)) = Len(s) + n
  OBVIOUS
<1>3. \A i \in 1..(Len(s) + n) :
        SubSeq(s \o t, 1, Len(s) + n)[i] = (s \o SubSeq(t, 1, n))[i]
  OBVIOUS
<1> QED
  BY <1>1, <1>2, <1>3, SeqEqual

LEMMA FrontsEqual ==
  ASSUME NEW V, NEW s \in Seq(V), NEW t \in Seq(V),
         NEW n \in Nat, n <= Len(s), n <= Len(t), \A i \in 1..n : s[i] = t[i]
  PROVE  SubSeq(s, 1, n) = SubSeq(t, 1, n)
<1>1. SubSeq(s, 1, n) \in Seq(V) /\ SubSeq(t, 1, n) \in Seq(V)
  OBVIOUS
<1>2. Len(SubSeq(s, 1, n)) = n /\ Len(SubSeq(t, 1, n)) = n
  OBVIOUS
<1>3. \A i \in 1..n : SubSeq(s, 1, n)[i] = SubSeq(t, 1, n)[i]
  OBVIOUS
<1> QED
  BY <1>1, <1>2, <1>3, SeqEqual

Joins(f, seqs, n) ==
  f[0] = <<>> /\ \A i \in 1..n : f[i] = f[i - 1] \o seqs[i]

(***************************************************************************)
(* The fold of FlattenSeq joins the sequences one behind the other.        *)
(***************************************************************************)
LEMMA FlattenJoins ==
  ASSUME NEW V, NEW seqs \in Seq(Seq(V))
  PROVE  \E f \in [0..Len(seqs) -> Seq(V)] :
           Joins(f, seqs, Len(seqs)) /\ FlattenSeq(seqs) = f[Len(seqs)]
<1>1. PICK N \in Nat : N = Len(seqs)
  OBVIOUS
<1>2. PICK step : step = [a \in (1..N) \X Seq(V) |-> a[2] \o seqs[a[1]]]
  OBVIOUS
<1>3. step \in [(1..N) \X Seq(V) -> Seq(V)]
  <2>1. \A s \in Seq(V), k \in 1..N : s \o seqs[k] \in Seq(V)
    <3> SUFFICES ASSUME NEW s \in Seq(V), NEW k \in 1..N PROVE s \o seqs[k] \in Seq(V)
      OBVIOUS
    <3>1. seqs[k] \in Seq(V)
      BY <1>1, ElementOfSeq
    <3> QED
      BY <3>1, ConcatProperties
  <2> QED
    BY <1>2, <2>1
<1>4. PICK f \in [0..N -> Seq(V)] : Runs(f, <<>>, step, N)
  <2>1. <<>> \in Seq(V)
    OBVIOUS
  <2> HIDE <1>2
  <2> QED
    BY <1>3, <2>1, Recursion
<1>5. ASSUME NEW n \in 1..N PROVE f[n] = f[n - 1] \o seqs[n]
  <2>1. f[n - 1] \in Seq(V) /\ f[n] = step[<<n, f[n - 1]>>]
    BY <1>4 DEF Runs
  <2> QED
    BY <1>2, <2>1
<1>6. f[0] = <<>>
  BY <1>4 DEF Runs
<1>7. FlattenSeq(seqs) = f[N]
  <2>1. CASE N = 0
    <3>1. seqs = <<>> /\ Len(seqs) = 0
      BY <1>1, <2>1, EmptySeq
    <3> QED
      BY <1>6, <2>1, <3>1 DEF FlattenSeq
  <2>2. CASE N # 0
    <3>1. PICK e : e = [i \in 1..N |-> f[i]]
      OBVIOUS
    <3>2. e = [i \in 1..N |-> IF i = 1 THEN seqs[i] ELSE e[i - 1] \o seqs[i]]
      <4>1. ASSUME NEW i \in 1..N, i # 1 PROVE f[i] = e[i - 1] \o seqs[i]
        <5>1. i - 1 \in 1..N
          BY <4>1
        <5> QED
          BY <1>5, <3>1, <5>1
      <4>2. f[1] = seqs[1]
        <5>1. 1 \in 1..N
          BY <1>1, <2>2
        <5>2. f[1] = <<>> \o seqs[1]
          <6>1. f[1] = f[1 - 1] \o seqs[1]
            BY <1>5, <5>1
          <6>2. f[1 - 1] = <<>>
            BY <1>6
          <6> QED
            BY <6>1, <6>2, Zenon
        <5>3. seqs[1] \in Seq(V)
          BY <1>1, <5>1, ElementOfSeq
        <5> QED
          BY <5>2, <5>3
      <4> QED
        BY <3>1, <4>1, <4>2
    <3>3. PICK h : /\ h = [i \in 1..N |-> IF i = 1 THEN seqs[i] ELSE h[i - 1] \o seqs[i]]
                   /\ FlattenSeq(seqs) = h[N]
      BY <1>1, <2>2, <3>2 DEF FlattenSeq
    <3>4. \A i \in 1..N : h[i] = IF i = 1 THEN seqs[i] ELSE h[i - 1] \o seqs[i]
      BY <3>3, Zenon
    <3>a. \A i \in 1..N : e[i] = IF i = 1 THEN seqs[i] ELSE e[i - 1] \o seqs[i]
      BY <3>2, Zenon
    <3> DEFINE S == {n \in 0..N : n = 0 \/ h[n] = e[n]}
    <3>5. 0 \in S
      BY <1>1
    <3>6. ASSUME NEW n \in 1..N, n - 1 \in S PROVE n \in S
      <4>1. n = 1 => h[n] = e[n]
        BY <3>4, <3>a
      <4>2. n # 1 => h[n] = h[n - 1] \o seqs[n] /\ e[n] = e[n - 1] \o seqs[n]
        BY <3>4, <3>a
      <4>3. n # 1 => h[n - 1] = e[n - 1]
        BY <3>6
      <4>4. h[n] = e[n]
        BY <4>1, <4>2, <4>3
      <4>5. n \in 0..N
        BY <1>1
      <4> QED
        BY <4>4, <4>5
    <3> HIDE DEF S
    <3>7. 0..N \subseteq S
      BY <1>1, <3>5, <3>6, StepByStep
    <3>8. N \in S /\ N \in 1..N
      BY <1>1, <2>2, <3>7
    <3>9. h[N] = e[N] /\ e[N] = f[N]
      BY <2>2, <3>1, <3>8 DEF S
    <3> QED
      BY <3>3, <3>9
  <2> QED
    BY <2>1, <2>2
<1> QED
  BY <1>1, <1>4, <1>5, <1>6, <1>7 DEF Joins

LEMMA FlattenAppend ==
  ASSUME NEW V, NEW seqs \in Seq(Seq(V)), NEW s \in Seq(V)
  PROVE  /\ FlattenSeq(seqs) \in Seq(V)
         /\ FlattenSeq(Append(seqs, s)) = FlattenSeq(seqs) \o s
<1>1. PICK n \in Nat : n = Len(seqs)
  OBVIOUS
<1>2. PICK all \in Seq(Seq(V)) : all = Append(seqs, s)
  BY AppendProperties
<1>3. /\ Len(all) = n + 1 /\ all[n + 1] = s
      /\ \A i \in 1..n : all[i] = seqs[i]
  BY <1>1, <1>2
<1>4. PICK f \in [0..Len(seqs) -> Seq(V)] :
        Joins(f, seqs, Len(seqs)) /\ FlattenSeq(seqs) = f[Len(seqs)]
  BY FlattenJoins
<1>5. PICK g \in [0..Len(all) -> Seq(V)] :
        Joins(g, all, Len(all)) /\ FlattenSeq(all) = g[Len(all)]
  BY FlattenJoins
<1>6. Joins(f, seqs, n) /\ Joins(g, all, n + 1) /\ FlattenSeq(seqs) = f[n]
  BY <1>1, <1>3, <1>4, <1>5
<1> DEFINE S == {i \in 0..n : g[i] = f[i]}
<1>7. 0 \in S
  BY <1>1, <1>6 DEF Joins
<1>8. ASSUME NEW i \in 1..n, i - 1 \in S PROVE i \in S
  <2>1. i \in 1..(n + 1) /\ i \in 0..n
    BY <1>1
  <2>2. g[i] = g[i - 1] \o all[i] /\ f[i] = f[i - 1] \o seqs[i]
    BY <1>6, <2>1 DEF Joins
  <2> QED
    BY <1>3, <1>8, <2>1, <2>2
<1> HIDE DEF S
<1>9. 0..n \subseteq S
  BY <1>1, <1>7, <1>8, StepByStep
<1>10. n \in S
  BY <1>1, <1>9
<1>11. g[n] = f[n]
  BY <1>10 DEF S
<1>12. g[n + 1] = g[n] \o all[n + 1]
  <2>1. n + 1 \in 1..(n + 1) /\ (n + 1) - 1 = n
    BY <1>1
  <2> QED
    BY <1>6, <2>1 DEF Joins
<1>13. f[n] \in Seq(V)
  <2>1. n \in 0..Len(seqs)
    BY <1>1, <1>4
  <2> QED
    BY <2>1
<1> QED
  BY <1>2, <1>3, <1>5, <1>6, <1>11, <1>12, <1>13

-----------------------------------------------------------------------------
(* Extra fields.                                                           *)

Octet == 0..255

\* A StackVec of elements of V.
IsVec(v, V) ==
  /\ v \in [large : BOOLEAN, data : Seq(V), len : Nat]
  /\ v.large \/ v.len <= Len(v.data)

LEMMA NewVecIsEmpty ==
  ASSUME NEW V, NEW n \in Nat, NEW default \in V
  PROVE  IsVec(NewVec(n, default), V) /\ AsSlice(NewVec(n, default)) = <<>>
<1>1. [i \in 1..n |-> default] \in Seq(V)
  OBVIOUS
<1>2. PICK data \in Seq(V) : data = [i \in 1..n |-> default]
  BY <1>1
<1>3. NewVec(n, default) = [large |-> FALSE, data |-> data, len |-> 0]
  BY <1>2 DEF NewVec
<1>4. IsVec(NewVec(n, default), V)
  BY <1>3 DEF IsVec
<1>5. AsSlice(NewVec(n, default)) = SubSeq(data, 1, 0)
  BY <1>3 DEF AsSlice
<1>6. SubSeq(data, 1, 0) = <<>>
  BY SubSeqEmpty
<1> QED
  BY <1>4, <1>5, <1>6

LEMMA SliceOfVec ==
  ASSUME NEW V, NEW v, IsVec(v, V)
  PROVE  /\ AsSlice(v) \in Seq(V)
         /\ v.large => AsSlice(v) = v.data
         /\ ~ v.large => /\ Len(AsSlice(v)) = v.len
                         /\ \A i \in 1..v.len : AsSlice(v)[i] = v.data[i]
<1>1. PICK data \in Seq(V) : data = v.data
  BY DEF IsVec
<1>2. PICK len \in Nat : len = v.len
  BY DEF IsVec
<1>3. CASE v.large
  BY <1>1, <1>3 DEF AsSlice
<1>4. CASE ~ v.large
  <2>1. AsSlice(v) = SubSeq(data, 1, len) /\ len <= Len(data)
    BY <1>1, <1>2, <1>4 DEF AsSlice, IsVec
  <2> QED
    BY <1>1, <1>2, <1>4, <2>1
<1> QED
  BY <1>3, <1>4 DEF IsVec

LEMMA LargeVec ==
  ASSUME NEW V, NEW items \in Seq(V)
  PROVE  IsVec(Large(items), V) /\ AsSlice(Large(items)) = items
BY DEF IsVec, Large, AsSlice

LEMMA Pushed ==
  ASSUME NEW V, NEW v, IsVec(v, V), NEW item \in V
  PROVE  IsVec(Push(v, item), V) /\ AsSlice(Push(v, item)) = Append(AsSlice(v), item)
<1>1. PICK data \in Seq(V) : data = v.data
  BY DEF IsVec
<1>2. PICK len \in Nat : len = v.len
  BY DEF IsVec
<1>3. PICK slice \in Seq(V) : slice = AsSlice(v)
  BY SliceOfVec
<1>4. CASE v.large
  BY <1>1, <1>4, LargeVec, AppendProperties DEF Push, AsSlice
<1>5. CASE ~ v.large /\ len < Len(data)
  <2>1. PICK more \in Seq(V) : more = [data EXCEPT ![len + 1] = item]
    <3>1. len + 1 \in 1..Len(data)
      BY <1>5
    <3> QED
      BY <3>1, ExceptSeq
  <2>2. /\ Len(more) = Len(data) /\ more[len + 1] = item
        /\ \A i \in 1..len : more[i] = data[i]
    BY <1>1, <1>2, <1>5, <2>1
  <2>3. Push(v, item) = [large |-> FALSE, data |-> more, len |-> len + 1]
    BY <1>1, <1>2, <1>5, <2>1 DEF Push, IsVec
  <2>4. PICK w : /\ w = Push(v, item) /\ IsVec(w, V)
                 /\ w.large = FALSE /\ w.data = more /\ w.len = len + 1
    <3>1. len + 1 <= Len(more)
      BY <1>5, <2>2
    <3>2. PICK w : w = [large |-> FALSE, data |-> more, len |-> len + 1]
      OBVIOUS
    <3>3. w.large = FALSE /\ w.data = more /\ w.len = len + 1
      BY <3>2
    <3>4. w \in [large : BOOLEAN, data : Seq(V), len : Nat]
      BY <3>2
    <3>5. IsVec(w, V)
      BY <3>1, <3>3, <3>4 DEF IsVec
    <3> QED
      BY <2>3, <3>2, <3>3, <3>5, Zenon
  <2>a. PICK pushed \in Seq(V) : pushed = AsSlice(w)
    BY <2>4, SliceOfVec
  <2>5. Len(pushed) = len + 1 /\ \A i \in 1..(len + 1) : pushed[i] = more[i]
    BY <2>4, <2>a, SliceOfVec
  <2>6. Len(slice) = len /\ \A i \in 1..len : slice[i] = data[i]
    BY <1>1, <1>2, <1>3, <1>5, SliceOfVec
  <2>7. pushed = Append(slice, item)
    <3>1. Append(slice, item) \in Seq(V) /\ Len(Append(slice, item)) = len + 1
      BY <2>6
    <3>2. \A i \in 1..(len + 1) : pushed[i] = Append(slice, item)[i]
      BY <2>2, <2>5, <2>6, SMTT(30)
    <3> QED
      BY <2>5, <3>1, <3>2, SeqEqual
  <2> QED
    BY <1>3, <2>4, <2>a, <2>7
<1>6. CASE ~ v.large /\ ~ (len < Len(data))
  <2>1. len = Len(data)
    BY <1>1, <1>2, <1>6 DEF IsVec
  <2>2. slice = data
    <3>1. Len(slice) = len /\ \A i \in 1..len : slice[i] = data[i]
      BY <1>1, <1>2, <1>3, <1>6, SliceOfVec
    <3> QED
      BY <2>1, <3>1, SeqEqual
  <2>3. Push(v, item) = Large(Append(slice, item))
    BY <1>1, <1>2, <1>6, <2>2 DEF Push
  <2>4. Append(slice, item) \in Seq(V)
    OBVIOUS
  <2> QED
    BY <1>3, <2>3, <2>4, LargeVec
<1> QED
  BY <1>4, <1>5, <1>6

LEMMA Extended ==
  ASSUME NEW V, NEW v, IsVec(v, V), NEW items \in Seq(V)
  PROVE  IsVec(Extend(v, items), V) /\ AsSlice(Extend(v, items)) = AsSlice(v) \o items
<1>1. PICK data \in Seq(V) : data = v.data
  BY DEF IsVec
<1>2. PICK len \in Nat : len = v.len
  BY DEF IsVec
<1>3. PICK slice \in Seq(V) : slice = AsSlice(v)
  BY SliceOfVec
<1>4. CASE v.large \/ len + Len(items) > Len(data)
  BY <1>1, <1>2, <1>3, <1>4, LargeVec, ConcatProperties DEF Extend
<1>5. CASE ~ (v.large \/ len + Len(items) > Len(data))
  <2>1. PICK more : more = [i \in 1..Len(data) |-> IF i - len \in 1..Len(items)
                                                   THEN items[i - len] ELSE data[i]]
    OBVIOUS
  <2>2. more \in Seq(V) /\ Len(more) = Len(data)
    <3>1. \A i \in 1..Len(data) : more[i] \in V
      BY <2>1
    <3> QED
      BY <2>1, <3>1
  <2>3. Extend(v, items) = [large |-> FALSE, data |-> more, len |-> len + Len(items)]
    <3>1. DOMAIN data = 1..Len(data) /\ DOMAIN items = 1..Len(items)
      OBVIOUS
    <3> QED
      BY <1>1, <1>2, <1>5, <2>1, <3>1 DEF Extend, IsVec
  <2>4. IsVec(Extend(v, items), V)
    BY <1>2, <1>5, <2>2, <2>3 DEF IsVec
  <2>a. PICK w : /\ w = Extend(v, items) /\ IsVec(w, V)
                 /\ w.large = FALSE /\ w.data = more /\ w.len = len + Len(items)
    BY <2>3, <2>4
  <2>5. PICK extended \in Seq(V) : extended = AsSlice(w)
    BY <2>a, SliceOfVec
  <2>6. /\ Len(extended) = len + Len(items)
        /\ \A i \in 1..(len + Len(items)) : extended[i] = more[i]
    BY <2>a, <2>5, SliceOfVec
  <2>7. Len(slice) = len /\ \A i \in 1..len : slice[i] = data[i]
    BY <1>1, <1>2, <1>3, <1>5, SliceOfVec
  <2>8. extended = slice \o items
    <3>1. /\ slice \o items \in Seq(V) /\ Len(slice \o items) = len + Len(items)
          /\ \A i \in 1..(len + Len(items)) :
               (slice \o items)[i] = IF i <= len THEN slice[i] ELSE items[i - len]
      BY <2>7, ConcatProperties
    <3>2. ASSUME NEW i \in 1..(len + Len(items)) PROVE extended[i] = (slice \o items)[i]
      <4>1. i \in 1..Len(data)
        BY <1>2, <1>5
      <4>2. extended[i] = IF i - len \in 1..Len(items) THEN items[i - len] ELSE data[i]
        BY <2>1, <2>6, <4>1
      <4>3. CASE i <= len
        BY <2>7, <3>1, <4>2, <4>3
      <4>4. CASE ~ (i <= len)
        <5>1. i - len \in 1..Len(items)
          BY <4>4
        <5> QED
          BY <3>1, <4>2, <4>4, <5>1
      <4> QED
        BY <4>3, <4>4
    <3> QED
      BY <2>6, <3>1, <3>2, SeqEqual
  <2> QED
    BY <1>3, <2>a, <2>5, <2>8
<1> QED
  BY <1>4, <1>5

Iterators == [fields : Seq(Seq(Octet)), rest : Seq(Octet)]

\* A field as it is, nothing missing and nothing behind it.
WholeField(f) == NextLength(f) = Len(f) /\ Len(f) >= 4

LEMMA NextLengthFits ==
  ASSUME NEW s \in Seq(Octet)
  PROVE  \/ NextLength(s) = 0
         \/ /\ NextLength(s) \in 4..Len(s)
            /\ NextLength(s) = 4 + s[3] + 256 * s[4]
<1>1. CASE Len(s) < 4
  BY <1>1 DEF NextLength
<1>2. CASE Len(s) >= 4
  <2>1. s[3] \in 0..255 /\ s[4] \in 0..255
    <3>1. 3 \in 1..Len(s) /\ 4 \in 1..Len(s)
      BY <1>2
    <3> QED
      BY <3>1, ElementOfSeq DEF Octet
  <2>2. PICK low \in 0..255, high \in 0..255 : low = s[3] /\ high = s[4]
    BY <2>1
  <2>3. LeU16(s, 3) = low + 256 * high
    BY <2>2 DEF LeU16
  <2>4. NextLength(s) = IF Len(s) < 4 + (low + 256 * high) THEN 0
                                                           ELSE 4 + (low + 256 * high)
    BY <1>2, <2>3 DEF NextLength
  <2>5. NextLength(s) = 0 \/ NextLength(s) = 4 + (low + 256 * high)
    BY <2>4
  <2>6. 4 + s[3] + 256 * s[4] = 4 + (low + 256 * high)
    BY <2>2
  <2>7. PICK n \in Nat : n = 4 + (low + 256 * high)
    OBVIOUS
  <2>8. n >= 4 /\ (NextLength(s) # 0 => n <= Len(s))
    BY <2>4, <2>7
  <2> QED
    BY <2>5, <2>6, <2>7, <2>8
<1> QED
  BY <1>1, <1>2

\* The beginning of s is what NextLength looks at.
LEMMA NextLengthOfPrefix ==
  ASSUME NEW s \in Seq(Octet), NEW t \in Seq(Octet), WholeField(t), Len(t) <= Len(s),
         \A i \in 1..Len(t) : s[i] = t[i]
  PROVE  NextLength(s) = Len(t)
<1>1. s[3] = t[3] /\ s[4] = t[4] /\ 3 + 1 = 4
  BY DEF WholeField
<1>2. t[3] \in 0..255 /\ t[4] \in 0..255
  BY ElementOfSeq DEF Octet, WholeField
<1>3. Len(t) = 4 + t[3] + 256 * t[4]
  BY NextLengthFits DEF WholeField
<1> QED
  BY <1>1, <1>2, <1>3 DEF NextLength, LeU16, WholeField

LEMMA FirstIsWhole ==
  ASSUME NEW s \in Seq(Octet), NextLength(s) # 0
  PROVE  /\ SubSeq(s, 1, NextLength(s)) \in Seq(Octet)
         /\ Len(SubSeq(s, 1, NextLength(s))) = NextLength(s)
         /\ WholeField(SubSeq(s, 1, NextLength(s)))
<1>1. PICK n \in 4..Len(s) : n = NextLength(s) /\ n = 4 + s[3] + 256 * s[4]
  BY NextLengthFits
<1>2. PICK t \in Seq(Octet) : t = SubSeq(s, 1, n)
  <2>1. SubSeq(s, 1, n) \in Seq(Octet)
    OBVIOUS
  <2> QED
    BY <2>1
<1>3. Len(t) = n /\ t[3] = s[3] /\ t[4] = s[4]
  BY <1>2
<1>4. t[3] \in 0..255 /\ t[4] \in 0..255
  BY <1>3, ElementOfSeq DEF Octet
<1>5. NextLength(t) = n
  BY <1>1, <1>3, <1>4 DEF NextLength, LeU16
<1> QED
  BY <1>1, <1>2, <1>3, <1>5 DEF WholeField

LEMMA Advances ==
  ASSUME NEW i \in Iterators, NextLength(i.rest) # 0
  PROVE  \E f \in Seq(Octet), r \in Seq(Octet) :
           /\ WholeField(f) /\ i.rest = f \o r /\ f = SubSeq(i.rest, 1, NextLength(i.rest))
           /\ r = SubSeq(i.rest, NextLength(i.rest) + 1, Len(i.rest))
           /\ Advance(i) = [fields |-> Append(i.fields, f), rest |-> r]
<1>1. PICK s \in Seq(Octet) : s = i.rest
  BY DEF Iterators
<1>2. PICK n \in 4..Len(s) : n = NextLength(s)
  BY <1>1, NextLengthFits
<1>3. PICK f \in Seq(Octet) : f = SubSeq(s, 1, n) /\ WholeField(f)
  BY <1>1, <1>2, FirstIsWhole
<1>4. PICK r \in Seq(Octet) : r = SubSeq(s, n + 1, Len(s))
  <2>1. SubSeq(s, n + 1, Len(s)) \in Seq(Octet)
    OBVIOUS
  <2> QED
    BY <2>1
<1>5. f \o r = s
  <2>1. 1 \in 1..(Len(s) + 1) /\ n \in 0..Len(s) /\ Len(s) \in n..Len(s)
    OBVIOUS
  <2>2. SubSeq(s, 1, n) \o SubSeq(s, n + 1, Len(s)) = SubSeq(s, 1, Len(s))
    <3>1. \A m \in 1..(Len(s) + 1) : \A k \in (m - 1)..Len(s) : \A l \in k..Len(s) :
            SubSeq(s, m, k) \o SubSeq(s, k + 1, l) = SubSeq(s, m, l)
      BY ConcatAdjacentSubSeq
    <3>2. n \in (1 - 1)..Len(s)
      OBVIOUS
    <3> QED
      BY <2>1, <3>1, <3>2
  <2> QED
    BY <1>3, <1>4, <2>2, SubSeqFull
<1>6. Advance(i) = [fields |-> Append(i.fields, f), rest |-> r]
  BY <1>1, <1>2, <1>3, <1>4 DEF Advance
<1> QED
  BY <1>1, <1>2, <1>3, <1>4, <1>5, <1>6

LEMMA AdvanceType == \A i \in Iterators : Advance(i) \in Iterators
<1> SUFFICES ASSUME NEW i \in Iterators PROVE Advance(i) \in Iterators
  OBVIOUS
<1>1. CASE NextLength(i.rest) = 0
  BY <1>1 DEF Advance
<1>2. CASE NextLength(i.rest) # 0
  <2>1. PICK f \in Seq(Octet), r \in Seq(Octet) :
          Advance(i) = [fields |-> Append(i.fields, f), rest |-> r]
    BY <1>2, Advances
  <2>2. Append(i.fields, f) \in Seq(Seq(Octet))
    BY DEF Iterators
  <2> QED
    BY <2>1, <2>2 DEF Iterators
<1> QED
  BY <1>1, <1>2

\* All positions an iterator over s takes.
Iterates(after, s) ==
  /\ after[0] = [fields |-> <<>>, rest |-> s]
  /\ \A k \in 1..MostFields(s) : after[k] = Advance(after[k - 1])

LEMMA MostFieldsIs ==
  ASSUME NEW s \in Seq(Octet)
  PROVE  /\ MostFields(s) \in Nat
         /\ Len(s) - 4 * MostFields(s) <= 3
<1>1. PICK l \in Nat : l = Len(s)
  OBVIOUS
<1>2. l \div 4 \in Nat /\ l - 4 * (l \div 4) <= 3
  OBVIOUS
<1> QED
  BY <1>1, <1>2 DEF MostFields

LEMMA ParseIterates ==
  ASSUME NEW s \in Seq(Octet)
  PROVE  \E after \in [0..MostFields(s) -> Iterators] :
           Iterates(after, s) /\ Parse(s) = after[MostFields(s)]
<1>1. PICK N \in Nat : N = MostFields(s)
  BY MostFieldsIs
<1>2. PICK start \in Iterators : start = [fields |-> <<>>, rest |-> s]
  <2>1. [fields |-> <<>>, rest |-> s] \in Iterators
    BY DEF Iterators
  <2> QED
    BY <2>1
<1>3. PICK step : step = [a \in (1..N) \X Iterators |-> Advance(a[2])]
  OBVIOUS
<1>4. step \in [(1..N) \X Iterators -> Iterators]
  BY <1>3, AdvanceType
<1>5. PICK f \in [0..N -> Iterators] : Runs(f, start, step, N)
  BY <1>4, Recursion
<1>6. \A k \in 1..N : f[k] = Advance(f[k - 1])
  <2> SUFFICES ASSUME NEW k \in 1..N PROVE f[k] = Advance(f[k - 1])
    OBVIOUS
  <2>1. f[k - 1] \in Iterators /\ f[k] = step[<<k, f[k - 1]>>]
    BY <1>5 DEF Runs
  <2> QED
    BY <1>3, <2>1
<1>7. f[0] = start
  BY <1>5 DEF Runs
<1>8. f = [k \in 0..N |-> IF k = 0 THEN start ELSE Advance(f[k - 1])]
  <2>1. \A k \in 0..N : f[k] = IF k = 0 THEN start ELSE Advance(f[k - 1])
    BY <1>6, <1>7
  <2> QED
    BY <2>1
<1>9. PICK after : /\ after = [k \in 0..N |-> IF k = 0 THEN start ELSE Advance(after[k - 1])]
                   /\ Parse(s) = after[N]
  BY <1>1, <1>2, <1>8, ZenonT(30) DEF Parse
<1>10. \A k \in 0..N : after[k] = IF k = 0 THEN start ELSE Advance(after[k - 1])
  BY <1>9, Zenon
<1> DEFINE S == {k \in 0..N : after[k] = f[k]}
<1>11. 0 \in S
  BY <1>1, <1>7, <1>10
<1>12. ASSUME NEW n \in 1..N, n - 1 \in S PROVE n \in S
  BY <1>6, <1>10, <1>12
<1> HIDE DEF S
<1>13. 0..N \subseteq S
  BY <1>11, <1>12, StepByStep
<1>14. N \in S
  BY <1>13
<1>15. after[N] = f[N]
  BY <1>14 DEF S
<1> QED
  BY <1>1, <1>2, <1>5, <1>6, <1>7, <1>9, <1>15 DEF Iterates

-----------------------------------------------------------------------------

Parsed(s, i) ==
  /\ FlattenSeq(i.fields) \o i.rest = s
  /\ \A k \in 1..Len(i.fields) : WholeField(i.fields[k])

(***************************************************************************)
(* Parse loses nothing, gives only whole fields, and stops where none is.  *)
(***************************************************************************)
LEMMA ParseGives ==
  ASSUME NEW s \in Seq(Octet)
  PROVE  Parse(s) \in Iterators /\ Parsed(s, Parse(s)) /\ NextLength(Parse(s).rest) = 0
<1>1. PICK N \in Nat, L \in Nat : N = MostFields(s) /\ L = Len(s) /\ L - 4 * N <= 3
  BY MostFieldsIs
<1>2. PICK after \in [0..N -> Iterators] : Iterates(after, s) /\ Parse(s) = after[N]
  BY <1>1, ParseIterates
<1> DEFINE room(k) == L - 4 * k
           S == {k \in 0..N : /\ Parsed(s, after[k])
                              /\ \/ NextLength(after[k].rest) = 0
                                 \/ Len(after[k].rest) <= room(k)}
<1>r. /\ room(0) = L /\ room(N) <= 3 /\ room(N) \in Int
      /\ \A n \in 1..N : room(n) = room(n - 1) - 4 /\ room(n - 1) \in Int
  BY <1>1
<1> HIDE DEF room
<1>3. 0 \in S
  <2>1. after[0] = [fields |-> <<>>, rest |-> s]
    BY <1>2 DEF Iterates
  <2>2. FlattenSeq(<<>>) = <<>> /\ Len(<<>>) = 0
    BY DEF FlattenSeq
  <2>3. <<>> \o s = s
    BY ConcatEmptySeq
  <2>4. L <= room(0) /\ 0 \in 0..N
    BY <1>r
  <2>6. after[0].fields = <<>> /\ after[0].rest = s
    BY <2>1
  <2>5. Parsed(s, after[0])
    <3>1. FlattenSeq(after[0].fields) \o after[0].rest = s
      BY <2>2, <2>3, <2>6
    <3>2. 1..Len(after[0].fields) = {}
      BY <2>2, <2>6
    <3> QED
      BY <3>1, <3>2 DEF Parsed
  <2>7. Len(after[0].rest) <= room(0)
    BY <1>1, <2>4, <2>6
  <2> QED
    BY <2>4, <2>5, <2>7
<1>4. ASSUME NEW n \in 1..N, n - 1 \in S PROVE n \in S
  <2>1. PICK i \in Iterators : i = after[n - 1]
    OBVIOUS
  <2>2. after[n] = Advance(i)
    BY <1>1, <1>2, <2>1 DEF Iterates
  <2>3. Parsed(s, i) /\ (NextLength(i.rest) = 0 \/ Len(i.rest) <= room(n - 1))
    BY <1>4, <2>1
  <2>4. CASE NextLength(i.rest) = 0
    <3>1. after[n] = i
      BY <2>2, <2>4 DEF Advance
    <3> QED
      BY <2>3, <2>4, <3>1
  <2>5. CASE NextLength(i.rest) # 0
    <3>1. PICK f \in Seq(Octet), r \in Seq(Octet) :
            /\ WholeField(f) /\ i.rest = f \o r
            /\ Advance(i) = [fields |-> Append(i.fields, f), rest |-> r]
      BY <2>5, Advances
    <3>2. PICK fields \in Seq(Seq(Octet)) : fields = i.fields
      BY DEF Iterators
    <3>3. FlattenSeq(fields) \in Seq(Octet) /\ FlattenSeq(Append(fields, f)) = FlattenSeq(fields) \o f
      BY FlattenAppend
    <3>4. FlattenSeq(Append(fields, f)) \o r = s
      <4>1. FlattenSeq(fields) \o (f \o r) = s
        BY <2>3, <3>1, <3>2 DEF Parsed
      <4>2. PICK flat \in Seq(Octet) : flat = FlattenSeq(fields)
        BY <3>3
      <4>3. (flat \o f) \o r = flat \o (f \o r)
        BY ConcatAssociative, SMTT(30)
      <4> QED
        BY <3>3, <4>1, <4>2, <4>3
    <3>5. \A k \in 1..Len(Append(fields, f)) : WholeField(Append(fields, f)[k])
      BY <2>3, <3>1, <3>2 DEF Parsed
    <3>6. Len(r) <= room(n)
      <4>1. Len(f \o r) = Len(f) + Len(r) /\ Len(f) >= 4
        BY <3>1, ConcatProperties DEF WholeField
      <4>2. PICK u \in Int : u = room(n - 1) /\ room(n) = u - 4
        BY <1>r
      <4>3. PICK a \in Nat, b \in Nat : a = Len(f) /\ b = Len(r)
        OBVIOUS
      <4>4. a + b <= u /\ a >= 4
        BY <2>3, <2>5, <3>1, <4>1, <4>2, <4>3
      <4> QED
        BY <4>2, <4>3, <4>4
    <3>7. after[n].fields = Append(fields, f) /\ after[n].rest = r
      BY <2>2, <3>1, <3>2
    <3>8. Parsed(s, after[n])
      BY <3>4, <3>5, <3>7 DEF Parsed
    <3> QED
      BY <3>6, <3>7, <3>8
  <2> QED
    BY <2>4, <2>5
<1> HIDE DEF S
<1>5. 0..N \subseteq S
  BY <1>3, <1>4, StepByStep
<1>6. N \in S
  BY <1>5
<1>7. after[N] \in Iterators
  OBVIOUS
<1>8. NextLength(after[N].rest) = 0
  <2>1. PICK r \in Seq(Octet) : r = after[N].rest
    BY <1>7 DEF Iterators
  <2>2. NextLength(r) = 0 \/ Len(r) <= room(N)
    BY <1>6, <2>1 DEF S
  <2>3. PICK l \in Nat : l = Len(r)
    OBVIOUS
  <2>4. l <= room(N) => l < 4
    BY <1>r
  <2> QED
    BY <2>1, <2>2, <2>3, <2>4 DEF NextLength
<1> QED
  BY <1>2, <1>6, <1>7, <1>8 DEF S

\* x is found in s behind its first p elements.
Lies(x, s, p) == p + Len(x) <= Len(s) /\ \A j \in 1..Len(x) : s[p + j] = x[j]

\* The seqs are found in s one behind the other, each where ends says.
Laid(seqs, s, ends) ==
  /\ ends[0] = 0
  /\ \A i \in 1..Len(seqs) : /\ ends[i] = ends[i - 1] + Len(seqs[i])
                             /\ Lies(seqs[i], s, ends[i - 1])

LEMMA FlattenLays ==
  ASSUME NEW V, NEW seqs \in Seq(Seq(V)), NEW r \in Seq(V), NEW s \in Seq(V),
         s = FlattenSeq(seqs) \o r
  PROVE  \E ends \in [0..Len(seqs) -> Nat] :
           /\ Laid(seqs, s, ends)
           /\ ends[Len(seqs)] + Len(r) = Len(s) /\ Lies(r, s, ends[Len(seqs)])
<1>1. PICK n \in Nat : n = Len(seqs)
  OBVIOUS
<1>2. PICK f \in [0..n -> Seq(V)] : Joins(f, seqs, n) /\ FlattenSeq(seqs) = f[n]
  BY <1>1, FlattenJoins
<1>3. PICK ends : ends = [i \in 0..n |-> Len(f[i])]
  OBVIOUS
<1>4. ends \in [0..n -> Nat]
  <2>1. \A i \in 0..n : Len(f[i]) \in Nat
    BY LenProperties
  <2> QED
    BY <1>3, <2>1
<1>5. s = f[n] \o r /\ f[n] \in Seq(V)
  BY <1>2
<1>6. /\ Len(s) = Len(f[n]) + Len(r)
      /\ \A i \in 1..(Len(f[n]) + Len(r)) :
           s[i] = IF i <= Len(f[n]) THEN f[n][i] ELSE r[i - Len(f[n])]
  BY <1>5, ConcatProperties
<1> DEFINE S == {k \in 0..n : Lies(f[n - k], s, 0)}
<1>7. 0 \in S
  <2>1. PICK g \in Seq(V) : g = f[n]
    BY <1>5
  <2>2. \A j \in 1..Len(g) : s[0 + j] = g[j]
    BY <1>6, <2>1
  <2> QED
    BY <1>1, <1>6, <2>1, <2>2 DEF Lies
<1>8. ASSUME NEW i \in 1..n
      PROVE  /\ f[i] = f[i - 1] \o seqs[i] /\ f[i - 1] \in Seq(V) /\ seqs[i] \in Seq(V)
             /\ Len(f[i]) = Len(f[i - 1]) + Len(seqs[i])
             /\ \A j \in 1..Len(f[i - 1]) : f[i][j] = f[i - 1][j]
             /\ \A j \in 1..Len(seqs[i]) : f[i][Len(f[i - 1]) + j] = seqs[i][j]
  <2>1. PICK g \in Seq(V) : g = f[i - 1]
    OBVIOUS
  <2>2. PICK x \in Seq(V) : x = seqs[i]
    BY <1>1, ElementOfSeq
  <2>3. f[i] = g \o x
    BY <1>2, <2>1, <2>2 DEF Joins
  <2>4. /\ Len(g \o x) = Len(g) + Len(x)
        /\ \A j \in 1..Len(g) : (g \o x)[j] = g[j]
        /\ \A j \in 1..Len(x) : (g \o x)[Len(g) + j] = x[j]
    OBVIOUS
  <2> QED
    BY <2>1, <2>2, <2>3, <2>4
<1>9. ASSUME NEW k \in 1..n, k - 1 \in S PROVE k \in S
  <2>1. PICK i \in 1..n : i = n - (k - 1)
    OBVIOUS
  <2>2. Lies(f[i], s, 0) /\ n - k = i - 1
    BY <1>9, <2>1
  <2>3. Lies(f[i - 1], s, 0)
    <3>a. PICK g \in Seq(V) : g = f[i - 1]
      BY <1>8
    <3>b. PICK x \in Seq(V) : x = seqs[i]
      BY <1>8
    <3>c. PICK h \in Seq(V) : h = f[i]
      OBVIOUS
    <3>1. g = f[i - 1] /\ h = f[i] /\ x = seqs[i]
      BY <3>a, <3>b, <3>c
    <3>2. Len(h) = Len(g) + Len(x) /\ \A j \in 1..Len(g) : h[j] = g[j]
      BY <1>8, <3>1
    <3>3. Lies(h, s, 0)
      BY <2>2, <3>1
    <3>4. Lies(g, s, 0)
      <4>1. Len(h) <= Len(s) /\ \A j \in 1..Len(h) : s[0 + j] = h[j]
        BY <3>3 DEF Lies
      <4>2. \A j \in 1..Len(g) : j \in 1..Len(h)
        BY <3>2
      <4>3. \A j \in 1..Len(g) : s[0 + j] = g[j]
        BY <3>2, <4>1, <4>2
      <4> QED
        BY <3>2, <4>1, <4>3 DEF Lies
    <3> QED
      BY <3>1, <3>4
  <2> QED
    BY <2>2, <2>3
<1> HIDE DEF S
<1>10. 0..n \subseteq S
  BY <1>7, <1>9, StepByStep
<1>11. ASSUME NEW i \in 0..n PROVE Lies(f[i], s, 0)
  <2>1. n - i \in S /\ n - (n - i) = i
    BY <1>10
  <2> QED
    BY <2>1 DEF S
<1>12. ASSUME NEW i \in 1..n
       PROVE  ends[i] = ends[i - 1] + Len(seqs[i]) /\ Lies(seqs[i], s, ends[i - 1])
  <2>a. PICK g \in Seq(V) : g = f[i - 1]
    BY <1>8
  <2>b. PICK x \in Seq(V) : x = seqs[i]
    BY <1>8
  <2>c. PICK h \in Seq(V) : h = f[i]
    OBVIOUS
  <2>1. g = f[i - 1] /\ h = f[i] /\ x = seqs[i]
    BY <2>a, <2>b, <2>c
  <2>2. Len(h) = Len(g) + Len(x) /\ \A j \in 1..Len(x) : h[Len(g) + j] = x[j]
    BY <1>8, <2>1
  <2>3. Lies(h, s, 0)
    BY <1>11, <2>1
  <2>4. ends[i] = Len(h) /\ ends[i - 1] = Len(g)
    BY <1>3, <2>1
  <2>5. Lies(x, s, Len(g))
    <3>1. Len(h) <= Len(s) /\ \A j \in 1..Len(h) : s[0 + j] = h[j]
      BY <2>3, SMTT(30) DEF Lies
    <3>2. \A j \in 1..Len(x) : Len(g) + j \in 1..Len(h) /\ 0 + (Len(g) + j) = Len(g) + j
      BY <2>2
    <3>3. \A j \in 1..Len(x) : s[Len(g) + j] = x[j]
      BY <2>2, <3>1, <3>2
    <3> QED
      BY <2>2, <3>1, <3>3 DEF Lies
  <2> QED
    BY <2>1, <2>2, <2>4, <2>5
<1>13. ends[0] = 0
  BY <1>2, <1>3 DEF Joins
<1>14. ends[n] + Len(r) = Len(s) /\ Lies(r, s, ends[n])
  <2>1. PICK g \in Seq(V) : g = f[n]
    BY <1>5
  <2>2. ends[n] = Len(g) /\ s = g \o r
    BY <1>3, <1>5, <2>1
  <2>3. Len(g \o r) = Len(g) + Len(r) /\ \A j \in 1..Len(r) : (g \o r)[Len(g) + j] = r[j]
    OBVIOUS
  <2> QED
    BY <2>2, <2>3 DEF Lies
<1> QED
  BY <1>1, <1>4, <1>12, <1>13, <1>14 DEF Laid

(***************************************************************************)
(* Whole fields laid into a beginning of s are the first of those that s   *)
(* is made of, if no field begins where these end.                         *)
(***************************************************************************)
AllWhole(F) == \A i \in 1..Len(F) : WholeField(F[i])
Begins(F, G) == Len(F) <= Len(G) /\ \A i \in 1..Len(F) : F[i] = G[i]

LEMMA SameFields ==
  ASSUME NEW s \in Seq(Octet), NEW cut \in Seq(Octet), Lies(cut, s, 0),
         NEW F \in Seq(Seq(Octet)), NEW p \in [0..Len(F) -> Nat], Laid(F, cut, p),
         NEW G \in Seq(Seq(Octet)), NEW q \in [0..Len(G) -> Nat], Laid(G, s, q),
         NEW r \in Seq(Octet), q[Len(G)] + Len(r) = Len(s), Lies(r, s, q[Len(G)]),
         NextLength(r) = 0,
         AllWhole(F), AllWhole(G)
  PROVE  Begins(F, G)
<1>1. PICK m \in Nat, n \in Nat : m = Len(F) /\ n = Len(G)
  OBVIOUS
<1> DEFINE S == {i \in 0..m : i <= n /\ p[i] = q[i] /\ \A j \in 1..i : F[j] = G[j]}
<1>2. 0 \in S
  BY DEF Laid
<1>3. ASSUME NEW i \in 1..m, i - 1 \in S PROVE i \in S
  <2>1. PICK f \in Seq(Octet) : f = F[i] /\ WholeField(f)
    BY <1>1, ElementOfSeq DEF AllWhole
  <2>2. PICK a \in Nat : a = p[i - 1]
    <3>1. i - 1 \in 0..Len(F)
      BY <1>1
    <3> QED
      BY <3>1
  <2>3. a = q[i - 1] /\ i - 1 <= n /\ \A j \in 1..(i - 1) : F[j] = G[j]
    BY <1>3, <2>2
  <2>4. Lies(f, s, a)
    <3>1. Lies(f, cut, a)
      BY <1>1, <2>1, <2>2 DEF Laid
    <3>2. \A j \in 1..Len(cut) : s[j] = cut[j]
      BY DEF Lies
    <3>3. \A j \in 1..Len(f) : s[a + j] = f[j]
      BY <3>1, <3>2 DEF Lies
    <3>4. Len(cut) <= Len(s)
      BY DEF Lies
    <3> QED
      BY <3>1, <3>3, <3>4 DEF Lies
  <2>5. i <= n
    <3> SUFFICES ASSUME i - 1 = n PROVE FALSE
      BY <2>3
    <3>1. Lies(r, s, a) /\ a + Len(r) = Len(s)
      BY <1>1, <2>3
    <3>2. Len(f) <= Len(r) /\ \A j \in 1..Len(f) : r[j] = f[j]
      <4>1. Len(f) <= Len(r)
        BY <2>4, <3>1 DEF Lies
      <4>2. \A j \in 1..Len(f) : j \in 1..Len(r)
        BY <4>1
      <4> QED
        BY <2>4, <3>1, <4>1, <4>2 DEF Lies
    <3>3. NextLength(r) = Len(f)
      BY <2>1, <3>2, NextLengthOfPrefix
    <3> QED
      BY <2>1, <3>3 DEF WholeField
  <2>6. PICK g \in Seq(Octet) : g = G[i] /\ WholeField(g)
    BY <1>1, <2>5, ElementOfSeq DEF AllWhole
  <2>7. Lies(g, s, a)
    BY <1>1, <2>3, <2>5, <2>6 DEF Laid
  <2>8. Len(f) = Len(g)
    <3>1. 3 \in 1..Len(f) /\ 4 \in 1..Len(f) /\ 3 \in 1..Len(g) /\ 4 \in 1..Len(g)
      BY <2>1, <2>6, SMTT(30) DEF WholeField
    <3>2. f[3] = s[a + 3] /\ g[3] = s[a + 3] /\ f[4] = s[a + 4] /\ g[4] = s[a + 4]
      BY <2>4, <2>7, <3>1 DEF Lies
    <3>3. Len(f) = 4 + f[3] + 256 * f[4]
      <4>1. NextLength(f) = Len(f) /\ Len(f) # 0
        BY <2>1 DEF WholeField
      <4> QED
        BY <4>1, NextLengthFits, ZenonT(30)
    <3>4. Len(g) = 4 + g[3] + 256 * g[4]
      <4>1. NextLength(g) = Len(g) /\ Len(g) # 0
        BY <2>6 DEF WholeField
      <4> QED
        BY <4>1, NextLengthFits
    <3> QED
      BY <3>2, <3>3, <3>4
  <2>9. f = g
    <3>1. \A j \in 1..Len(f) : f[j] = g[j]
      BY <2>4, <2>7, <2>8 DEF Lies
    <3> QED
      BY <2>8, <3>1, SeqEqual
  <2>10. p[i] = q[i]
    <3>1. p[i] = a + Len(f)
      BY <1>1, <2>1, <2>2 DEF Laid
    <3>2. q[i] = a + Len(g)
      BY <1>1, <2>3, <2>5, <2>6 DEF Laid
    <3> QED
      BY <2>9, <3>1, <3>2
  <2>11. \A j \in 1..i : F[j] = G[j]
    <3> SUFFICES ASSUME NEW j \in 1..i PROVE F[j] = G[j]
      OBVIOUS
    <3>1. CASE j = i
      BY <2>1, <2>6, <2>9, <3>1
    <3>2. CASE j # i
      BY <2>3, <3>2
    <3> QED
      BY <3>1, <3>2
  <2> QED
    BY <2>5, <2>10, <2>11
<1> HIDE DEF S
<1>4. 0..m \subseteq S
  BY <1>2, <1>3, StepByStep
<1>5. m \in S
  BY <1>4
<1> QED
  BY <1>1, <1>5 DEF S, Begins

LEMMA LiesInItself ==
  ASSUME NEW V, NEW s \in Seq(V)
  PROVE  Lies(s, s, 0)
<1>1. \A j \in 1..Len(s) : s[0 + j] = s[j]
  OBVIOUS
<1> QED
  BY <1>1 DEF Lies

(***************************************************************************)
(* Whole fields one behind the other, and then none: that is what Parse    *)
(* finds.                                                                  *)
(***************************************************************************)
LEMMA ParseFinds ==
  ASSUME NEW F \in Seq(Seq(Octet)), AllWhole(F),
         NEW r \in Seq(Octet), NextLength(r) = 0
  PROVE  Parse(FlattenSeq(F) \o r) = [fields |-> F, rest |-> r]
<1>1. FlattenSeq(F) \in Seq(Octet)
  BY FlattenAppend, EmptySeq
<1>2. PICK s \in Seq(Octet) : s = FlattenSeq(F) \o r
  <2>1. FlattenSeq(F) \o r \in Seq(Octet)
    BY <1>1, ConcatProperties
  <2> QED
    BY <2>1
<1>3. PICK P \in Iterators : P = Parse(s) /\ Parsed(s, P) /\ NextLength(P.rest) = 0
  BY ParseGives
<1>4. PICK G \in Seq(Seq(Octet)), t \in Seq(Octet) : G = P.fields /\ t = P.rest
  BY DEF Iterators
<1>5. P = [fields |-> G, rest |-> t]
  BY <1>4 DEF Iterators
<1>6. s = FlattenSeq(G) \o t /\ AllWhole(G)
  BY <1>3, <1>4 DEF Parsed, AllWhole
<1>7. PICK p \in [0..Len(F) -> Nat] :
        Laid(F, s, p) /\ p[Len(F)] + Len(r) = Len(s) /\ Lies(r, s, p[Len(F)])
  BY <1>2, FlattenLays
<1>8. PICK q \in [0..Len(G) -> Nat] :
        Laid(G, s, q) /\ q[Len(G)] + Len(t) = Len(s) /\ Lies(t, s, q[Len(G)])
  BY <1>6, FlattenLays
<1>9. Lies(s, s, 0)
  BY LiesInItself
<1>10. NextLength(t) = 0
  BY <1>3, <1>4
<1>11. Begins(F, G)
  BY <1>6, <1>7, <1>8, <1>9, <1>10, SameFields
<1>12. Begins(G, F)
  BY <1>6, <1>7, <1>8, <1>9, SameFields
<1>13. F = G
  <2>1. Len(F) = Len(G) /\ \A i \in 1..Len(F) : F[i] = G[i]
    BY <1>11, <1>12 DEF Begins
  <2> QED
    BY <2>1, SeqEqual
<1>14. r = t
  <2>1. \A u, v, w \in Seq(Octet) : u \o v = u \o w => v = w
    BY ConcatSimplifications
  <2> QED
    BY <1>1, <1>2, <1>6, <1>13, <2>1
<1> QED
  BY <1>2, <1>3, <1>5, <1>13, <1>14

\* Cut off anywhere, the bytes begin with the same fields.
LEMMA ParseOfPrefix ==
  ASSUME NEW s \in Seq(Octet), NEW n \in 0..Len(s)
  PROVE  IsPrefix(Parse(SubSeq(s, 1, n)).fields, Parse(s).fields)
<1>1. PICK cut \in Seq(Octet) :
        cut = SubSeq(s, 1, n) /\ Len(cut) = n /\ \A j \in 1..n : cut[j] = s[j]
  <2>1. /\ SubSeq(s, 1, n) \in Seq(Octet) /\ Len(SubSeq(s, 1, n)) = n
        /\ \A j \in 1..n : SubSeq(s, 1, n)[j] = s[j]
    OBVIOUS
  <2> QED
    BY <2>1
<1>2. PICK P \in Iterators : P = Parse(cut) /\ Parsed(cut, P)
  BY ParseGives
<1>3. PICK Q \in Iterators : Q = Parse(s) /\ Parsed(s, Q) /\ NextLength(Q.rest) = 0
  BY ParseGives
<1>4. PICK F \in Seq(Seq(Octet)), u \in Seq(Octet) : F = P.fields /\ u = P.rest
  BY DEF Iterators
<1>5. PICK G \in Seq(Seq(Octet)), r \in Seq(Octet) : G = Q.fields /\ r = Q.rest
  BY DEF Iterators
<1>6. cut = FlattenSeq(F) \o u /\ AllWhole(F)
  BY <1>2, <1>4 DEF Parsed, AllWhole
<1>7. s = FlattenSeq(G) \o r /\ AllWhole(G)
  BY <1>3, <1>5 DEF Parsed, AllWhole
<1>8. PICK p \in [0..Len(F) -> Nat] : Laid(F, cut, p)
  BY <1>6, FlattenLays
<1>9. PICK q \in [0..Len(G) -> Nat] :
        Laid(G, s, q) /\ q[Len(G)] + Len(r) = Len(s) /\ Lies(r, s, q[Len(G)])
  BY <1>7, FlattenLays
<1>10. Lies(cut, s, 0)
  BY <1>1 DEF Lies
<1>11. NextLength(r) = 0
  BY <1>3, <1>5
<1>12. Begins(F, G)
  BY <1>6, <1>7, <1>8, <1>9, <1>10, <1>11, SameFields
<1>13. SubSeq(F, 1, Len(F)) = SubSeq(G, 1, Len(F))
  BY <1>12, FrontsEqual DEF Begins
<1> QED
  BY <1>1, <1>2, <1>3, <1>4, <1>5, <1>12, <1>13 DEF IsPrefix, Begins

LEMMA LastOfFront ==
  ASSUME NEW V, NEW s \in Seq(V), NEW n \in 1..Len(s)
  PROVE  /\ SubSeq(s, 1, n - 1) \in Seq(V) /\ s[n] \in V
         /\ SubSeq(s, 1, n) = Append(SubSeq(s, 1, n - 1), s[n])
<1>1. /\ SubSeq(s, 1, n - 1) \in Seq(V) /\ Len(SubSeq(s, 1, n - 1)) = n - 1
      /\ \A i \in 1..(n - 1) : SubSeq(s, 1, n - 1)[i] = s[i]
  OBVIOUS
<1>2. /\ SubSeq(s, 1, n) \in Seq(V) /\ Len(SubSeq(s, 1, n)) = n
      /\ \A i \in 1..n : SubSeq(s, 1, n)[i] = s[i]
  OBVIOUS
<1>3. s[n] \in V
  OBVIOUS
<1>4. PICK t \in Seq(V) : t = SubSeq(s, 1, n - 1)
  BY <1>1
<1>5. /\ Append(t, s[n]) \in Seq(V) /\ Len(Append(t, s[n])) = n
      /\ \A i \in 1..n : Append(t, s[n])[i] = s[i]
  BY <1>1, <1>3, <1>4
<1> QED
  BY <1>1, <1>2, <1>3, <1>4, <1>5, SeqEqual

-----------------------------------------------------------------------------

\* Fields as add_field lets them in.
Fitting == {f \in Field : 4 + Len(f.body) <= MaxExtra}

\* Fields as bytes.
All(fields) == [i \in 1..Len(fields) |-> Bytes(fields[i])]

LEMMA TwoBytes ==
  ASSUME NEW n \in Nat, n <= 65535
  PROVE  /\ n % 256 \in Octet /\ n \div 256 \in Octet
         /\ n = (n % 256) + 256 * (n \div 256)
<1>1. n % 256 \in 0..255
  OBVIOUS
<1>2. n \div 256 \in 0..255
  OBVIOUS
<1>3. n = (n % 256) + 256 * (n \div 256)
  OBVIOUS
<1>4. n % 256 \in Octet /\ n \div 256 \in Octet
  BY <1>1, <1>2 DEF Octet
<1> QED
  BY <1>3, <1>4

LEMMA BytesWhole ==
  ASSUME NEW f \in Fitting
  PROVE  /\ Bytes(f) \in Seq(Octet) /\ Len(Bytes(f)) = 4 + Len(f.body)
         /\ WholeField(Bytes(f)) /\ HeadBytes(f) \in Seq(Octet) /\ f.body \in Seq(Octet)
<1>1. PICK body \in Seq(Octet) : body = f.body /\ 4 + Len(body) <= 65535
  <2>1. f.body \in Seq(Octet) /\ 4 + Len(f.body) <= MaxExtra
    BY DEF Fitting, Field, Octet
  <2>2. MaxExtra \in Int /\ MaxExtra <= 65535
    BY FieldsAssumption
  <2>3. Len(f.body) \in Nat
    BY <2>1
  <2>4. 4 + Len(f.body) <= 65535
    BY <2>1, <2>2, <2>3
  <2> QED
    BY <2>1, <2>4
<1>2. PICK id \in Octet : id = f.id
  BY DEF Fitting, Field, Octet
<1>3. PICK n \in Nat : n = Len(body) /\ n <= 65535
  <2>1. Len(body) \in Nat
    OBVIOUS
  <2> QED
    BY <1>1, <2>1
<1>11. n % 256 \in Octet /\ n \div 256 \in Octet
  BY <1>3, TwoBytes
<1>12. PICK low \in Octet : low = n % 256
  BY <1>11
<1>14. PICK high \in Octet : high = n \div 256
  BY <1>11
<1>13. Len(body) = low + 256 * high
  BY <1>3, <1>12, <1>14, TwoBytes
<1>4. PICK head \in Seq(Octet) : head = <<id, 0, low, high>> /\ Len(head) = 4
  <2>1. 0 \in Octet
    BY DEF Octet
  <2>2. <<id, 0, low, high>> \in Seq(Octet) /\ Len(<<id, 0, low, high>>) = 4
    BY <2>1
  <2> QED
    BY <2>2
<1>5. HeadBytes(f) = head
  <2>1. HeadBytes(f) = <<f.id, 0, Len(f.body) % 256, Len(f.body) \div 256>>
    BY DEF HeadBytes
  <2> QED
    BY <1>1, <1>2, <1>3, <1>12, <1>14, <1>4, <2>1
<1>6. PICK s \in Seq(Octet) : s = head \o body /\ Len(s) = 4 + Len(body)
  <2>1. head \o body \in Seq(Octet) /\ Len(head \o body) = 4 + Len(body)
    BY <1>4, ConcatProperties
  <2> QED
    BY <2>1
<1>7. s[3] = low /\ s[4] = high
  <2>1. 3 \in 1..(Len(head) + Len(body)) /\ 4 \in 1..(Len(head) + Len(body))
    BY <1>4
  <2>2. s[3] = head[3] /\ s[4] = head[4]
    BY <1>4, <1>6, <2>1, ConcatProperties
  <2> QED
    BY <1>4, <2>2
<1>8. NextLength(s) = Len(s)
  <2>1. LeU16(s, 3) = Len(body)
    BY <1>13, <1>7 DEF LeU16
  <2> QED
    BY <1>6, <2>1 DEF NextLength
<1> QED
  BY <1>1, <1>4, <1>5, <1>6, <1>8 DEF WholeField, Bytes

LEMMA AllGrows ==
  ASSUME NEW fs \in Seq(Fitting)
  PROVE  /\ All(fs) \in Seq(Seq(Octet)) /\ AllWhole(All(fs)) /\ Len(All(fs)) = Len(fs)
         /\ \A f \in Fitting : All(Append(fs, f)) = Append(All(fs), Bytes(f))
<1>1. \A i \in 1..Len(fs) : fs[i] \in Fitting
  OBVIOUS
<1>2. \A i \in 1..Len(fs) : Bytes(fs[i]) \in Seq(Octet) /\ WholeField(Bytes(fs[i]))
  BY <1>1, BytesWhole
<1>3. All(fs) \in Seq(Seq(Octet)) /\ Len(All(fs)) = Len(fs)
  BY <1>2 DEF All
<1>4. AllWhole(All(fs))
  BY <1>2, <1>3 DEF AllWhole, All
<1>5. ASSUME NEW f \in Fitting PROVE All(Append(fs, f)) = Append(All(fs), Bytes(f))
  <2>1. PICK n \in Nat : n = Len(fs)
    OBVIOUS
  <2>2. PICK more \in Seq(Fitting) : more = Append(fs, f)
    <3>1. Append(fs, f) \in Seq(Fitting)
      BY AppendProperties
    <3> QED
      BY <3>1
  <2>3. Len(more) = n + 1 /\ more[n + 1] = f /\ \A i \in 1..n : more[i] = fs[i]
    BY <2>1, <2>2
  <2>4. PICK all \in Seq(Seq(Octet)) : all = All(fs) /\ Len(all) = n
    BY <1>3, <2>1
  <2>5. Bytes(f) \in Seq(Octet)
    BY BytesWhole
  <2>6. /\ Append(all, Bytes(f)) \in Seq(Seq(Octet)) /\ Len(Append(all, Bytes(f))) = n + 1
        /\ Append(all, Bytes(f))[n + 1] = Bytes(f)
        /\ \A i \in 1..n : Append(all, Bytes(f))[i] = all[i]
    BY <2>4, <2>5, AppendProperties
  <2>7. ASSUME NEW i \in 1..(n + 1) PROVE Bytes(more[i]) = Append(all, Bytes(f))[i]
    <3>1. CASE i = n + 1
      BY <2>3, <2>6, <3>1
    <3>2. CASE i # n + 1
      <4>1. i \in 1..n
        BY <3>2
      <4>2. all[i] = Bytes(fs[i])
        BY <2>1, <2>4, <4>1 DEF All
      <4> QED
        BY <2>3, <2>6, <4>1, <4>2
    <3> QED
      BY <3>1, <3>2
  <2>8. All(more) = [i \in 1..(n + 1) |-> Append(all, Bytes(f))[i]]
    BY <2>3, <2>7 DEF All
  <2>9. Append(all, Bytes(f)) = [i \in 1..(n + 1) |-> Append(all, Bytes(f))[i]]
    <3>1. PICK t \in Seq(Seq(Octet)) : t = Append(all, Bytes(f)) /\ Len(t) = n + 1
      BY <2>6
    <3>2. t \in [1..(n + 1) -> Seq(Octet)]
      BY <3>1, LenProperties
    <3>3. t = [i \in 1..(n + 1) |-> t[i]]
      BY <3>2
    <3> QED
      BY <3>1, <3>3
  <2> QED
    BY <2>2, <2>4, <2>8, <2>9
<1> QED
  BY <1>3, <1>4, <1>5

\* The function For is defined by.
Chooses(chosen, h, fs, n) ==
  /\ chosen[0] = <<>>
  /\ \A i \in 1..n :
       chosen[i] = IF h \in fs[i].locations THEN Append(chosen[i - 1], Bytes(fs[i]))
                                            ELSE chosen[i - 1]

LEMMA ForChooses ==
  ASSUME NEW h, NEW fs \in Seq(Fitting)
  PROVE  \E chosen \in [0..Len(fs) -> Seq(Seq(Octet))] :
           Chooses(chosen, h, fs, Len(fs)) /\ For(h, fs) = chosen[Len(fs)]
<1>1. PICK N \in Nat : N = Len(fs)
  OBVIOUS
<1> DEFINE T == Seq(Seq(Octet))
           Next(i, c) == IF h \in fs[i].locations THEN Append(c, Bytes(fs[i])) ELSE c
<1>2. <<>> \in T
  OBVIOUS
<1>3. \A i \in 1..N, c \in T : Next(i, c) \in T
  <2>1. \A i \in 1..N : Bytes(fs[i]) \in Seq(Octet)
    BY <1>1, BytesWhole, ElementOfSeq
  <2> QED
    BY <2>1, AppendProperties
<1>4. PICK step : step = [a \in (1..N) \X T |-> Next(a[1], a[2])]
  OBVIOUS
<1>5. step \in [(1..N) \X T -> T]
  BY <1>3, <1>4
<1>6. PICK f \in [0..N -> T] : Runs(f, <<>>, step, N)
  BY <1>2, <1>5, Recursion
<1>7. \A k \in 1..N : f[k] = Next(k, f[k - 1])
  <2> SUFFICES ASSUME NEW k \in 1..N PROVE f[k] = Next(k, f[k - 1])
    OBVIOUS
  <2>1. f[k - 1] \in T /\ f[k] = step[<<k, f[k - 1]>>]
    BY <1>6 DEF Runs
  <2> QED
    BY <1>4, <2>1
<1>8. f[0] = <<>>
  BY <1>6 DEF Runs
<1>9. f = [k \in 0..N |-> IF k = 0 THEN <<>> ELSE Next(k, f[k - 1])]
  <2> HIDE DEF Next, T
  <2>1. \A k \in 0..N : f[k] = IF k = 0 THEN <<>> ELSE Next(k, f[k - 1])
    BY <1>7, <1>8
  <2> QED
    BY <2>1
<1>10. f = [k \in 0..N |-> IF k = 0 THEN <<>>
                           ELSE IF h \in fs[k].locations THEN Append(f[k - 1], Bytes(fs[k]))
                                                         ELSE f[k - 1]]
  BY <1>9, Zenon
<1>11. PICK g : /\ g = [k \in 0..N |-> IF k = 0 THEN <<>>
                           ELSE IF h \in fs[k].locations THEN Append(g[k - 1], Bytes(fs[k]))
                                                         ELSE g[k - 1]]
                /\ For(h, fs) = g[N]
  BY <1>1, <1>10 DEF For
<1>12. \A k \in 0..N : g[k] = IF k = 0 THEN <<>> ELSE Next(k, g[k - 1])
  BY <1>11, Zenon
<1> HIDE DEF Next, T
<1> DEFINE S == {k \in 0..N : g[k] = f[k]}
<1>13. 0 \in S
  BY <1>1, <1>8, <1>12
<1>14. ASSUME NEW n \in 1..N, n - 1 \in S PROVE n \in S
  BY <1>7, <1>12, <1>14
<1> HIDE DEF S
<1>15. 0..N \subseteq S
  BY <1>13, <1>14, StepByStep
<1>16. N \in S
  BY <1>15
<1>17. g[N] = f[N]
  BY <1>16 DEF S
<1>18. Chooses(f, h, fs, N)
  BY <1>7, <1>8 DEF Chooses, Next
<1> QED
  BY <1>1, <1>6, <1>11, <1>17, <1>18 DEF T

LEMMA ForEmpty == ASSUME NEW h PROVE For(h, <<>>) = <<>>
<1>1. <<>> \in Seq(Fitting) /\ Len(<<>>) = 0
  OBVIOUS
<1>2. PICK chosen : Chooses(chosen, h, <<>>, 0) /\ For(h, <<>>) = chosen[0]
  BY <1>1, ForChooses
<1> QED
  BY <1>2 DEF Chooses

LEMMA ForGrows ==
  ASSUME NEW h, NEW fs \in Seq(Fitting), NEW f \in Fitting
  PROVE  /\ For(h, fs) \in Seq(Seq(Octet))
         /\ For(h, Append(fs, f)) = IF h \in f.locations THEN Append(For(h, fs), Bytes(f))
                                                         ELSE For(h, fs)
<1>1. PICK n \in Nat : n = Len(fs)
  OBVIOUS
<1>2. PICK more \in Seq(Fitting) : more = Append(fs, f)
  <2>1. Append(fs, f) \in Seq(Fitting)
    BY AppendProperties
  <2> QED
    BY <2>1
<1>3. Len(more) = n + 1 /\ more[n + 1] = f /\ \A i \in 1..n : more[i] = fs[i]
  BY <1>1, <1>2
<1>4. PICK c \in [0..n -> Seq(Seq(Octet))] : Chooses(c, h, fs, n) /\ For(h, fs) = c[n]
  BY <1>1, ForChooses
<1>5. PICK d \in [0..(n + 1) -> Seq(Seq(Octet))] :
        Chooses(d, h, more, n + 1) /\ For(h, more) = d[n + 1]
  BY <1>3, ForChooses
<1> DEFINE S == {i \in 0..n : c[i] = d[i]}
<1>6. 0 \in S
  BY <1>4, <1>5 DEF Chooses
<1>7. ASSUME NEW i \in 1..n, i - 1 \in S PROVE i \in S
  <2>1. i \in 1..(n + 1) /\ i \in 0..n
    OBVIOUS
  <2> QED
    BY <1>3, <1>4, <1>5, <1>7, <2>1 DEF Chooses
<1> HIDE DEF S
<1>8. 0..n \subseteq S
  BY <1>6, <1>7, StepByStep
<1>9. n \in S
  BY <1>8
<1>10. c[n] = d[n]
  BY <1>9 DEF S
<1>11. d[n + 1] = IF h \in f.locations THEN Append(d[n], Bytes(f)) ELSE d[n]
  <2>1. n + 1 \in 1..(n + 1) /\ (n + 1) - 1 = n
    OBVIOUS
  <2> QED
    BY <1>3, <1>5, <2>1 DEF Chooses
<1>12. c[n] \in Seq(Seq(Octet))
  OBVIOUS
<1> QED
  BY <1>2, <1>4, <1>5, <1>10, <1>11, <1>12

\* The bytes of the fields for h, in place of the others nothing.
Sieved(h, fs) ==
  [i \in 1..Len(fs) |-> IF h \in fs[i].locations THEN Bytes(fs[i]) ELSE <<>>]

(***************************************************************************)
(* What holds of the fields for the header h, each way they are reached.   *)
(***************************************************************************)
Sorted(h, fs) ==
  /\ For(h, fs) \in Seq(Seq(Octet)) /\ AllWhole(For(h, fs))
  /\ Sieved(h, fs) \in Seq(Seq(Octet)) /\ Len(Sieved(h, fs)) = Len(fs)
  /\ FlattenSeq(Sieved(h, fs)) = FlattenSeq(For(h, fs))
  /\ (\A i \in 1..Len(fs) : h \in fs[i].locations) => For(h, fs) = All(fs)
  /\ Len(FlattenSeq(For(h, fs))) = 0 <=> \A i \in 1..Len(fs) : h \notin fs[i].locations

LEMMA NothingSorted == ASSUME NEW h PROVE Sorted(h, <<>>)
<1>1. For(h, <<>>) = <<>>
  BY ForEmpty
<1>2. Sieved(h, <<>>) = <<>> /\ All(<<>>) = <<>> /\ Len(<<>>) = 0
  BY DEF Sieved, All
<1>3. FlattenSeq(<<>>) = <<>>
  BY DEF FlattenSeq
<1>4. <<>> \in Seq(Seq(Octet))
  OBVIOUS
<1>5. AllWhole(<<>>)
  BY <1>2 DEF AllWhole
<1>6. PICK none \in Seq(Seq(Octet)) : none = <<>> /\ Len(none) = 0 /\ FlattenSeq(none) = none
  BY <1>2, <1>3, <1>4
<1>7. \A i \in 1..Len(none) : FALSE
  BY <1>6
<1>8. For(h, none) = none /\ Sieved(h, none) = none /\ All(none) = none /\ AllWhole(none)
  BY <1>1, <1>2, <1>5, <1>6
<1>9. Sorted(h, none)
  BY <1>6, <1>7, <1>8 DEF Sorted
<1> QED
  BY <1>6, <1>9

LEMMA SievedGrows ==
  ASSUME NEW h, NEW fs \in Seq(Fitting), NEW f \in Fitting,
         Sieved(h, fs) \in Seq(Seq(Octet)), Len(Sieved(h, fs)) = Len(fs)
  PROVE  Sieved(h, Append(fs, f)) =
           Append(Sieved(h, fs), IF h \in f.locations THEN Bytes(f) ELSE <<>>)
<1>1. PICK n \in Nat : n = Len(fs)
  OBVIOUS
<1>2. PICK more \in Seq(Fitting) : more = Append(fs, f)
  <2>1. Append(fs, f) \in Seq(Fitting)
    BY AppendProperties
  <2> QED
    BY <2>1
<1>3. Len(more) = n + 1 /\ more[n + 1] = f /\ \A i \in 1..n : more[i] = fs[i]
  BY <1>1, <1>2
<1>4. PICK sieved \in Seq(Seq(Octet)) : sieved = Sieved(h, fs) /\ Len(sieved) = n
  BY <1>1
<1>5. PICK last \in Seq(Octet) : last = IF h \in f.locations THEN Bytes(f) ELSE <<>>
  <2>1. Bytes(f) \in Seq(Octet) /\ <<>> \in Seq(Octet)
    BY BytesWhole
  <2> QED
    BY <2>1
<1>6. PICK all \in Seq(Seq(Octet)) : all = Append(sieved, last)
  BY AppendProperties
<1>7. Len(all) = n + 1 /\ all[n + 1] = last /\ \A i \in 1..n : all[i] = sieved[i]
  BY <1>4, <1>6
<1>8. ASSUME NEW i \in 1..(n + 1)
      PROVE  all[i] = IF h \in more[i].locations THEN Bytes(more[i]) ELSE <<>>
  <2>1. CASE i = n + 1
    BY <1>3, <1>5, <1>7, <2>1
  <2>2. CASE i # n + 1
    <3>1. i \in 1..n
      BY <2>2
    <3>2. sieved[i] = IF h \in fs[i].locations THEN Bytes(fs[i]) ELSE <<>>
      BY <1>1, <1>4, <3>1 DEF Sieved
    <3> QED
      BY <1>3, <1>7, <3>1, <3>2
  <2> QED
    BY <2>1, <2>2
<1>9. all = [i \in 1..(n + 1) |-> all[i]]
  <2>1. all \in [1..(n + 1) -> Seq(Octet)]
    BY <1>7, LenProperties
  <2> QED
    BY <2>1
<1>10. Sieved(h, more) = [i \in 1..(n + 1) |-> all[i]]
  BY <1>3, <1>8 DEF Sieved
<1> QED
  BY <1>2, <1>4, <1>5, <1>6, <1>9, <1>10

LEMMA SortedGrows ==
  ASSUME NEW h, NEW fs \in Seq(Fitting), NEW f \in Fitting, Sorted(h, fs)
  PROVE  /\ Sorted(h, Append(fs, f))
         /\ Len(FlattenSeq(For(h, Append(fs, f)))) =
              Len(FlattenSeq(For(h, fs))) + (IF h \in f.locations THEN 4 + Len(f.body) ELSE 0)
<1>1. PICK n \in Nat : n = Len(fs)
  OBVIOUS
<1>2. PICK more \in Seq(Fitting) : more = Append(fs, f)
  <2>1. Append(fs, f) \in Seq(Fitting)
    BY AppendProperties
  <2> QED
    BY <2>1
<1>3. Len(more) = n + 1 /\ more[n + 1] = f /\ \A i \in 1..n : more[i] = fs[i]
  BY <1>1, <1>2
<1>4. PICK b \in Seq(Octet) :
        b = Bytes(f) /\ WholeField(b) /\ Len(b) = 4 + Len(f.body) /\ Len(b) >= 4
  BY BytesWhole DEF WholeField
<1>5. PICK F \in Seq(Seq(Octet)) : F = For(h, fs) /\ AllWhole(F)
  BY DEF Sorted
<1>6. PICK X \in Seq(Seq(Octet)) : X = Sieved(h, fs) /\ Len(X) = n
  BY <1>1 DEF Sorted
<1>7. PICK A \in Seq(Seq(Octet)) : A = All(fs) /\ All(more) = Append(A, b)
  BY <1>2, <1>4, AllGrows
<1>8. PICK flat \in Seq(Octet) : flat = FlattenSeq(F) /\ flat = FlattenSeq(X)
  BY <1>5, <1>6, FlattenAppend DEF Sorted
<1>9. Len(more) = Len(fs) + 1
  BY <1>1, <1>3
<1>10. /\ (\A i \in 1..n : h \in fs[i].locations) => F = A
       /\ Len(flat) = 0 <=> \A i \in 1..n : h \notin fs[i].locations
  BY <1>1, <1>5, <1>7, <1>8 DEF Sorted
<1>11. CASE h \in f.locations
  <2>1. For(h, more) = Append(F, b)
    BY <1>2, <1>4, <1>5, <1>11, ForGrows
  <2>2. Sieved(h, more) = Append(X, b)
    BY <1>1, <1>2, <1>4, <1>6, <1>11, SievedGrows
  <2>3. Append(F, b) \in Seq(Seq(Octet)) /\ AllWhole(Append(F, b))
    <3>1. Append(F, b) \in Seq(Seq(Octet))
      BY AppendProperties
    <3>2. ASSUME NEW i \in 1..Len(Append(F, b)) PROVE WholeField(Append(F, b)[i])
      <4>1. PICK m \in Nat : m = Len(F)
        OBVIOUS
      <4>2. /\ Len(Append(F, b)) = m + 1 /\ Append(F, b)[m + 1] = b
            /\ \A j \in 1..m : Append(F, b)[j] = F[j]
        BY <4>1
      <4>3. i = m + 1 \/ i \in 1..m
        BY <4>2
      <4> QED
        BY <1>4, <1>5, <4>1, <4>2, <4>3 DEF AllWhole
    <3> QED
      BY <3>1, <3>2 DEF AllWhole
  <2>4. Append(X, b) \in Seq(Seq(Octet)) /\ Len(Append(X, b)) = n + 1
    BY <1>6, AppendProperties
  <2>5. FlattenSeq(Append(F, b)) = flat \o b /\ FlattenSeq(Append(X, b)) = flat \o b
    BY <1>8, FlattenAppend
  <2>6. Len(flat \o b) = Len(flat) + Len(b)
    BY ConcatProperties
  <2>7. (\A i \in 1..(n + 1) : h \in more[i].locations) => Append(F, b) = Append(A, b)
    <3>1. SUFFICES ASSUME \A i \in 1..(n + 1) : h \in more[i].locations PROVE F = A
      OBVIOUS
    <3>2. \A i \in 1..n : h \in fs[i].locations
      <4>1. \A i \in 1..n : i \in 1..(n + 1)
        OBVIOUS
      <4> QED
        BY <1>3, <3>1, <4>1
    <3> QED
      BY <1>10, <3>2
  <2>8. Len(flat \o b) # 0 /\ ~ (\A i \in 1..(n + 1) : h \notin more[i].locations)
    <3>1. n + 1 \in 1..(n + 1)
      OBVIOUS
    <3>2. Len(flat \o b) # 0
      BY <1>4, <2>6
    <3> QED
      BY <1>3, <1>11, <3>1, <3>2
  <2>9. Sorted(h, more)
    BY <1>3, <1>7, <2>1, <2>2, <2>3, <2>4, <2>5, <2>7, <2>8 DEF Sorted
  <2> QED
    BY <1>2, <1>4, <1>5, <1>8, <1>11, <2>1, <2>5, <2>6, <2>9
<1>12. CASE h \notin f.locations
  <2>1. For(h, more) = F
    BY <1>2, <1>5, <1>12, ForGrows
  <2>a. PICK none \in Seq(Octet) : none = <<>>
    <3>1. <<>> \in Seq(Octet)
      OBVIOUS
    <3> QED
      BY <3>1
  <2>2. Sieved(h, more) = Append(X, none)
    BY <1>1, <1>2, <1>6, <1>12, <2>a, SievedGrows
  <2>3. Append(X, none) \in Seq(Seq(Octet)) /\ Len(Append(X, none)) = n + 1
    BY <1>6, AppendProperties
  <2>4. FlattenSeq(Append(X, none)) = flat
    <3>1. FlattenSeq(Append(X, none)) = flat \o none
      BY <1>8, FlattenAppend
    <3>2. flat \o none = flat
      BY <2>a, ConcatEmptySeq
    <3> QED
      BY <3>1, <3>2
  <2>5. ~ (\A i \in 1..(n + 1) : h \in more[i].locations)
    <3>1. n + 1 \in 1..(n + 1)
      OBVIOUS
    <3> QED
      BY <1>3, <1>12, <3>1
  <2>6. (\A i \in 1..(n + 1) : h \notin more[i].locations)
          <=> \A i \in 1..n : h \notin fs[i].locations
    <3>1. \A i \in 1..(n + 1) : i = n + 1 \/ i \in 1..n
      OBVIOUS
    <3>2. \A i \in 1..n : i \in 1..(n + 1)
      OBVIOUS
    <3> QED
      BY <1>3, <1>12, <3>1, <3>2
  <2>7. Sorted(h, more)
    BY <1>3, <1>5, <1>8, <1>10, <2>1, <2>2, <2>3, <2>4, <2>5, <2>6 DEF Sorted
  <2>8. Len(flat) + 0 = Len(flat)
    BY LenProperties
  <2> QED
    BY <1>2, <1>5, <1>8, <1>12, <2>1, <2>7, <2>8
<1> QED
  BY <1>11, <1>12

Places(fs) == [i \in 1..Len(fs) |-> fs[i].locations]

\* The container c holds the fields fs.
Holds(c, fs) ==
  /\ fs \in Seq(Fitting)
  /\ IsVec(c.entries, SUBSET Headers) /\ AsSlice(c.entries) = Places(fs)
  /\ IsVec(c.data_buffer, Octet) /\ AsSlice(c.data_buffer) = FlattenSeq(All(fs))
  /\ Sorted("local", fs) /\ Sorted("central", fs)
  /\ c.local = Len(FlattenSeq(For("local", fs))) /\ c.local <= MaxExtra
  /\ c.central = Len(FlattenSeq(For("central", fs))) /\ c.central <= MaxExtra

LEMMA PlacesGrow ==
  ASSUME NEW fs \in Seq(Fitting), NEW f \in Fitting
  PROVE  /\ Places(fs) \in Seq(SUBSET Headers) /\ f.locations \in SUBSET Headers
         /\ Places(Append(fs, f)) = Append(Places(fs), f.locations)
<1>1. PICK n \in Nat : n = Len(fs)
  OBVIOUS
<1>2. PICK more \in Seq(Fitting) : more = Append(fs, f)
  <2>1. Append(fs, f) \in Seq(Fitting)
    BY AppendProperties
  <2> QED
    BY <2>1
<1>3. Len(more) = n + 1 /\ more[n + 1] = f /\ \A i \in 1..n : more[i] = fs[i]
  BY <1>1, <1>2
<1>4. f.locations \in SUBSET Headers /\ \A i \in 1..n : fs[i].locations \in SUBSET Headers
  <2>1. \A g \in Fitting : g.locations \in SUBSET Headers
    BY DEF Fitting, Field
  <2>2. \A i \in 1..n : fs[i] \in Fitting
    BY <1>1
  <2> QED
    BY <2>1, <2>2
<1>5. PICK places \in Seq(SUBSET Headers) : places = Places(fs) /\ Len(places) = n
  <2>1. Places(fs) \in Seq(SUBSET Headers) /\ Len(Places(fs)) = n
    BY <1>1, <1>4 DEF Places
  <2> QED
    BY <2>1
<1>6. PICK place \in SUBSET Headers : place = f.locations
  BY <1>4
<1>7. PICK all \in Seq(SUBSET Headers) : all = Append(places, place)
  BY AppendProperties
<1>8. Len(all) = n + 1 /\ all[n + 1] = place /\ \A i \in 1..n : all[i] = places[i]
  BY <1>5, <1>7
<1>9. ASSUME NEW i \in 1..(n + 1) PROVE all[i] = more[i].locations
  <2>1. CASE i = n + 1
    BY <1>3, <1>6, <1>8, <2>1
  <2>2. CASE i # n + 1
    <3>1. i \in 1..n
      BY <2>2
    <3>2. places[i] = fs[i].locations
      BY <1>1, <1>5, <3>1 DEF Places
    <3> QED
      BY <1>3, <1>8, <3>1, <3>2
  <2> QED
    BY <2>1, <2>2
<1>10. all = [i \in 1..(n + 1) |-> all[i]]
  <2>1. all \in [1..(n + 1) -> SUBSET Headers]
    BY <1>8, LenProperties
  <2> QED
    BY <2>1
<1>11. Places(more) = [i \in 1..(n + 1) |-> all[i]]
  BY <1>3, <1>9 DEF Places
<1> QED
  BY <1>2, <1>4, <1>5, <1>6, <1>7, <1>10, <1>11

LEMMA NewHolds == Holds(NewContainer, <<>>)
<1>1. PICK e : e = NewVec(InlineEntries, {})
  OBVIOUS
<1>2. PICK b : b = NewVec(InlineBytes, 0)
  OBVIOUS
<1>3. IsVec(e, SUBSET Headers) /\ AsSlice(e) = <<>>
  <2>1. {} \in SUBSET Headers
    OBVIOUS
  <2> QED
    BY <1>1, <2>1, NewVecIsEmpty, FieldsAssumption
<1>4. IsVec(b, Octet) /\ AsSlice(b) = <<>>
  <2>1. 0 \in Octet
    BY DEF Octet
  <2> QED
    BY <1>2, <2>1, NewVecIsEmpty, FieldsAssumption
<1>5. PICK c : c = [entries |-> e, data_buffer |-> b, local |-> 0, central |-> 0]
  OBVIOUS
<1>6. c.entries = e /\ c.data_buffer = b /\ c.local = 0 /\ c.central = 0
  BY <1>5
<1>7. NewContainer = c
  BY <1>1, <1>2, <1>5 DEF NewContainer
<1>8. PICK none : none = <<>>
  OBVIOUS
<1>9. /\ none \in Seq(Fitting) /\ Len(none) = 0 /\ FlattenSeq(none) = none
      /\ Places(none) = none /\ All(none) = none
      /\ For("local", none) = none /\ For("central", none) = none
  <2>1. <<>> \in Seq(Fitting) /\ Len(<<>>) = 0 /\ Places(<<>>) = <<>> /\ All(<<>>) = <<>>
    BY DEF Places, All
  <2>2. FlattenSeq(<<>>) = <<>>
    BY DEF FlattenSeq
  <2> QED
    BY <1>8, <2>1, <2>2, ForEmpty
<1>10. Sorted("local", none) /\ Sorted("central", none)
  BY <1>8, NothingSorted
<1>11. 0 <= MaxExtra
  BY FieldsAssumption
<1>12. Holds(c, none)
  BY <1>3, <1>4, <1>6, <1>8, <1>9, <1>10, <1>11 DEF Holds
<1> QED
  BY <1>7, <1>8, <1>12

LEMMA FitsIsFitting ==
  ASSUME NEW c, NEW fs, Holds(c, fs), NEW f \in Field, Fits(c, f)
  PROVE  /\ f \in Fitting
         /\ "local" \in f.locations => c.local + 4 + Len(f.body) <= MaxExtra
         /\ "central" \in f.locations => c.central + 4 + Len(f.body) <= MaxExtra
<1>1. PICK n \in Nat : n = Len(f.body)
  <2>1. f.body \in Seq(0..255)
    BY DEF Field
  <2>2. Len(f.body) \in Nat
    BY <2>1
  <2> QED
    BY <2>2
<1>2. PICK l \in Nat, r \in Nat : l = c.local /\ r = c.central
  <2>1. \A s \in Seq(Octet) : Len(s) \in Nat
    OBVIOUS
  <2>2. FlattenSeq(For("local", fs)) \in Seq(Octet) /\ FlattenSeq(For("central", fs)) \in Seq(Octet)
    BY FlattenAppend DEF Holds, Sorted
  <2> QED
    BY <2>1, <2>2 DEF Holds
<1>3. MaxExtra \in Nat
  BY FieldsAssumption
<1>4. 4 + n + Current(c, f) <= MaxExtra
  BY <1>1 DEF Fits
<1>5. Current(c, f) = IF "central" \in f.locations
                         /\ r > (IF "local" \in f.locations THEN l ELSE 0)
                      THEN r ELSE IF "local" \in f.locations THEN l ELSE 0
  BY <1>2 DEF Current
<1>6. /\ 4 + n <= MaxExtra
      /\ "local" \in f.locations => l + 4 + n <= MaxExtra
      /\ "central" \in f.locations => r + 4 + n <= MaxExtra
  BY <1>3, <1>4, <1>5
<1> QED
  BY <1>1, <1>2, <1>6 DEF Fitting

LEMMA Grown ==
  ASSUME NEW l \in Nat, NEW n \in Nat, l + 4 + n <= MaxExtra
  PROVE  (l + 4 + n) % (MaxExtra + 1) = l + (4 + n)
<1>1. MaxExtra \in Nat
  BY FieldsAssumption
<1>2. PICK k \in Nat : k = l + 4 + n
  OBVIOUS
<1>3. PICK m \in Nat : m = MaxExtra + 1
  BY <1>1
<1>4. k < m
  BY <1>1, <1>2, <1>3
<1>5. k % m = k
  BY <1>4
<1> QED
  BY <1>2, <1>3, <1>5

(***************************************************************************)
(* add_field: the container holds one more field, and no length wraps.     *)
(***************************************************************************)
LEMMA AddingHolds ==
  ASSUME NEW c, NEW fs, Holds(c, fs), NEW f \in Field, Fits(c, f)
  PROVE  Holds(Adding(c, f), Append(fs, f))
<1>1. /\ f \in Fitting
      /\ "local" \in f.locations => c.local + 4 + Len(f.body) <= MaxExtra
      /\ "central" \in f.locations => c.central + 4 + Len(f.body) <= MaxExtra
  BY FitsIsFitting
<1>2. fs \in Seq(Fitting)
  BY DEF Holds
<1>3. PICK more \in Seq(Fitting) : more = Append(fs, f)
  <2>1. Append(fs, f) \in Seq(Fitting)
    BY <1>1, <1>2, AppendProperties
  <2> QED
    BY <2>1
<1>4. PICK e : /\ e = Push(c.entries, f.locations) /\ IsVec(e, SUBSET Headers)
               /\ AsSlice(e) = Places(more)
  <2>1. f.locations \in SUBSET Headers /\ Places(more) = Append(Places(fs), f.locations)
    BY <1>1, <1>2, <1>3, PlacesGrow
  <2>2. IsVec(c.entries, SUBSET Headers) /\ AsSlice(c.entries) = Places(fs)
    BY DEF Holds
  <2>3. /\ IsVec(Push(c.entries, f.locations), SUBSET Headers)
        /\ AsSlice(Push(c.entries, f.locations)) = Append(Places(fs), f.locations)
    BY <2>1, <2>2, Pushed
  <2> QED
    BY <2>1, <2>3
<1>5. PICK d : /\ d = Extend(Extend(c.data_buffer, HeadBytes(f)), f.body)
               /\ IsVec(d, Octet) /\ AsSlice(d) = FlattenSeq(All(more))
  <2>1. PICK head \in Seq(Octet), body \in Seq(Octet) :
          head = HeadBytes(f) /\ body = f.body /\ head \o body = Bytes(f)
    BY <1>1, BytesWhole DEF Bytes
  <2>2. IsVec(c.data_buffer, Octet) /\ AsSlice(c.data_buffer) = FlattenSeq(All(fs))
    BY DEF Holds
  <2>3. All(fs) \in Seq(Seq(Octet)) /\ All(more) = Append(All(fs), Bytes(f))
    BY <1>1, <1>2, <1>3, AllGrows
  <2>4. PICK flat \in Seq(Octet) : /\ flat = FlattenSeq(All(fs))
                                  /\ FlattenSeq(All(more)) = flat \o (head \o body)
    <3>1. Bytes(f) \in Seq(Octet)
      BY <1>1, BytesWhole
    <3>2. /\ FlattenSeq(All(fs)) \in Seq(Octet)
          /\ FlattenSeq(Append(All(fs), Bytes(f))) = FlattenSeq(All(fs)) \o Bytes(f)
      BY <2>3, <3>1, FlattenAppend
    <3> QED
      BY <2>1, <2>3, <3>2
  <2>5. PICK x : /\ x = Extend(c.data_buffer, head) /\ IsVec(x, Octet)
                 /\ AsSlice(x) = flat \o head
    BY <2>2, <2>4, Extended
  <2>6. IsVec(Extend(x, body), Octet) /\ AsSlice(Extend(x, body)) = (flat \o head) \o body
    BY <2>5, Extended
  <2>7. (flat \o head) \o body = flat \o (head \o body)
    BY ConcatAssociative, SMTT(30)
  <2> QED
    BY <2>1, <2>4, <2>5, <2>6, <2>7
<1>6. PICK n \in Nat : n = Len(f.body)
  <2>1. f.body \in Seq(Octet)
    BY <1>1, BytesWhole
  <2>2. Len(f.body) \in Nat
    BY <2>1
  <2> QED
    BY <2>2
<1>7. MaxExtra \in Nat
  BY FieldsAssumption
<1>8. ASSUME NEW h, Sorted(h, fs), NEW len, len = Len(FlattenSeq(For(h, fs))), len <= MaxExtra,
             h \in f.locations => len + 4 + n <= MaxExtra,
             NEW grown, grown = IF h \in f.locations THEN (len + 4 + n) % (MaxExtra + 1) ELSE len
      PROVE  Sorted(h, more) /\ grown = Len(FlattenSeq(For(h, more))) /\ grown <= MaxExtra
  <2>1. PICK l \in Nat : l = len
    <3>1. FlattenSeq(For(h, fs)) \in Seq(Octet)
      BY <1>8, FlattenAppend DEF Sorted
    <3>2. Len(FlattenSeq(For(h, fs))) \in Nat
      BY <3>1
    <3> QED
      BY <1>8, <3>2
  <2>2. /\ Sorted(h, more)
        /\ Len(FlattenSeq(For(h, more))) = l + (IF h \in f.locations THEN 4 + n ELSE 0)
    BY <1>1, <1>2, <1>3, <1>6, <1>8, <2>1, SortedGrows
  <2>3. CASE h \in f.locations
    <3>1. l + 4 + n <= MaxExtra
      BY <1>8, <2>1, <2>3
    <3>2. grown = l + (4 + n)
      BY <1>8, <2>1, <2>3, <3>1, Grown
    <3>3. grown <= MaxExtra
      BY <3>1, <3>2
    <3> QED
      BY <2>2, <2>3, <3>2, <3>3
  <2>4. CASE h \notin f.locations
    <3>1. l + 0 = l
      OBVIOUS
    <3> QED
      BY <1>8, <2>1, <2>2, <2>4, <3>1
  <2> QED
    BY <2>3, <2>4
<1>9. PICK l : /\ l = IF "local" \in f.locations
                      THEN (c.local + 4 + n) % (MaxExtra + 1) ELSE c.local
               /\ Sorted("local", more) /\ l = Len(FlattenSeq(For("local", more)))
               /\ l <= MaxExtra
  BY <1>1, <1>6, <1>8 DEF Holds
<1>10. PICK r : /\ r = IF "central" \in f.locations
                       THEN (c.central + 4 + n) % (MaxExtra + 1) ELSE c.central
                /\ Sorted("central", more) /\ r = Len(FlattenSeq(For("central", more)))
                /\ r <= MaxExtra
  BY <1>1, <1>6, <1>8 DEF Holds
<1>11. PICK a : a = [entries |-> e, data_buffer |-> d, local |-> l, central |-> r]
  OBVIOUS
<1>12. a.entries = e /\ a.data_buffer = d /\ a.local = l /\ a.central = r
  BY <1>11
<1>13. Adding(c, f) = a
  BY <1>4, <1>5, <1>6, <1>9, <1>10, <1>11 DEF Adding
<1>14. Holds(a, more)
  BY <1>4, <1>5, <1>9, <1>10, <1>12 DEF Holds
<1> QED
  BY <1>3, <1>13, <1>14

(***************************************************************************)
(* The iterator gives back the fields that were laid one behind the other, *)
(* and leaves nothing.                                                     *)
(***************************************************************************)
LEMMA ParseOfAll ==
  ASSUME NEW F \in Seq(Seq(Octet)), AllWhole(F)
  PROVE  Parse(FlattenSeq(F)) = [fields |-> F, rest |-> <<>>]
<1>1. PICK none \in Seq(Octet) : none = <<>> /\ Len(none) = 0
  <2>1. <<>> \in Seq(Octet) /\ Len(<<>>) = 0
    OBVIOUS
  <2> QED
    BY <2>1
<1>2. NextLength(none) = 0
  BY <1>1 DEF NextLength
<1>3. PICK flat \in Seq(Octet) : flat = FlattenSeq(F)
  BY FlattenAppend
<1>4. flat \o none = flat
  BY <1>1, ConcatEmptySeq
<1>5. Parse(FlattenSeq(F) \o none) = [fields |-> F, rest |-> none]
  BY <1>2, ParseFinds
<1> QED
  BY <1>1, <1>3, <1>4, <1>5

(***************************************************************************)
(* write_extra_fields gives the fields of the header, or all; all only     *)
(* where that is the same, unless a field is for no header.                *)
(***************************************************************************)
LEMMA WrittenBytes ==
  ASSUME NEW c, NEW fs, Holds(c, fs), NEW h \in Headers
  PROVE  /\ \/ Written(c, h) = FlattenSeq(For(h, fs))
            \/ Written(c, h) = FlattenSeq(All(fs)) /\ c[h] # 0
         /\ ~ Stray(fs) => Written(c, h) = FlattenSeq(For(h, fs))
         /\ c[h] = Len(FlattenSeq(For(h, fs))) /\ Sorted(h, fs)
<1>1. PICK o \in Headers : {h, o} = Headers /\ o # h
  <2>1. CASE h = "local"
    BY <2>1 DEF Headers
  <2>2. CASE h = "central"
    BY <2>2 DEF Headers
  <2> QED
    BY <2>1, <2>2 DEF Headers
<1>2. /\ Sorted(h, fs) /\ c[h] = Len(FlattenSeq(For(h, fs)))
      /\ Sorted(o, fs) /\ c[o] = Len(FlattenSeq(For(o, fs)))
  <2>1. h = "local" \/ h = "central"
    BY DEF Headers
  <2>2. o = "local" \/ o = "central"
    BY DEF Headers
  <2> QED
    BY <2>1, <2>2 DEF Holds
<1>3. PICK n \in Nat : n = Len(fs) /\ fs \in Seq(Fitting)
  <2>1. fs \in Seq(Fitting)
    BY DEF Holds
  <2>2. Len(fs) \in Nat
    BY <2>1
  <2> QED
    BY <2>1, <2>2
<1>4. PICK F \in Seq(Seq(Octet)) : F = For(h, fs) /\ AllWhole(F)
  BY <1>2 DEF Sorted
<1>5. PICK flat \in Seq(Octet) : flat = FlattenSeq(F)
  BY FlattenAppend
<1>6. c[h] = Len(flat)
  BY <1>2, <1>4, <1>5
<1>7. \/ c.local = 0 <=> (h = "local" /\ c[h] = 0) \/ (h = "central" /\ c[o] = 0)
  BY <1>1 DEF Headers
<1>8. c.local = 0 \/ c.central = 0 <=> c[h] = 0 \/ c[o] = 0
  BY <1>1 DEF Headers
<1>9. AsSlice(c.data_buffer) = FlattenSeq(All(fs))
  BY DEF Holds
<1>10. CASE c[h] = 0
  <2>1. Written(c, h) = <<>>
    BY <1>10 DEF Written
  <2>2. flat = <<>>
    BY <1>6, <1>10, EmptySeq
  <2> QED
    BY <1>2, <1>4, <1>5, <2>1, <2>2
<1>11. CASE c[h] # 0 /\ c[o] = 0
  <2>1. Written(c, h) = FlattenSeq(All(fs))
    BY <1>8, <1>9, <1>11 DEF Written
  <2>2. \A i \in 1..n : o \notin fs[i].locations
    BY <1>2, <1>3, <1>11 DEF Sorted
  <2>3. ASSUME ~ Stray(fs) PROVE For(h, fs) = All(fs)
    <3>1. \A i \in 1..n : fs[i].locations # {}
      BY <1>3, <2>2, <2>3 DEF Stray
    <3>2. \A i \in 1..n : fs[i].locations \in SUBSET Headers
      <4>1. \A g \in Fitting : g.locations \in SUBSET Headers
        BY DEF Fitting, Field
      <4>2. \A i \in 1..n : fs[i] \in Fitting
        BY <1>3
      <4> QED
        BY <4>1, <4>2
    <3>3. \A i \in 1..n : h \in fs[i].locations
      BY <1>1, <2>2, <3>1, <3>2
    <3> QED
      BY <1>2, <1>3, <3>3 DEF Sorted
  <2> QED
    BY <1>2, <1>11, <2>1, <2>3
<1>12. CASE c[h] # 0 /\ c[o] # 0
  <2>1. Written(c, h) = Filtered(c, h)
    BY <1>8, <1>12 DEF Written
  <2>2. PICK A \in Seq(Seq(Octet)) : A = All(fs) /\ AllWhole(A) /\ Len(A) = n
    BY <1>3, AllGrows
  <2>3. Parse(AsSlice(c.data_buffer)).fields = A
    BY <1>9, <2>2, ParseOfAll
  <2>4. PICK places \in Seq(SUBSET Headers) :
          places = Places(fs) /\ places = AsSlice(c.entries) /\ Len(places) = n
    <3>1. AsSlice(c.entries) \in Seq(SUBSET Headers) /\ AsSlice(c.entries) = Places(fs)
      BY SliceOfVec DEF Holds
    <3>2. Len(Places(fs)) = n
      BY <1>3 DEF Places
    <3> QED
      BY <3>1, <3>2
  <2>5. DOMAIN places = 1..n
    BY <2>4
  <2>6. ASSUME NEW i \in 1..n
        PROVE  (IF h \in places[i] THEN A[i] ELSE <<>>)
                 = (IF h \in fs[i].locations THEN Bytes(fs[i]) ELSE <<>>)
    <3>1. places[i] = fs[i].locations
      BY <1>3, <2>4 DEF Places
    <3>2. A[i] = Bytes(fs[i])
      BY <1>3, <2>2 DEF All
    <3> QED
      BY <3>1, <3>2
  <2>7. [i \in 1..n |-> IF h \in places[i] THEN A[i] ELSE <<>>] = Sieved(h, fs)
    BY <1>3, <2>6 DEF Sieved
  <2>8. Filtered(c, h) = FlattenSeq([i \in DOMAIN places |->
                                       IF h \in places[i] THEN A[i] ELSE <<>>])
    BY <2>3, <2>4 DEF Filtered
  <2>9. Filtered(c, h) = FlattenSeq(Sieved(h, fs))
    BY <2>5, <2>7, <2>8
  <2> QED
    BY <1>2, <2>1, <2>9 DEF Sorted
<1> QED
  BY <1>10, <1>11, <1>12

-----------------------------------------------------------------------------
(* Timestamps.                                                             *)

\* The function BestTimestamp is defined by.
Bests(best, F, n) ==
  /\ best[0] = <<>>
  /\ \A k \in 1..n : best[k] = IF TimesOf(F[k]) = <<>> THEN best[k - 1] ELSE TimesOf(F[k])

LEMMA BestIsLast ==
  ASSUME NEW F \in Seq(Seq(Octet)), AllWhole(F)
  PROVE  \E best : Bests(best, F, Len(F)) /\ BestTimestamp(FlattenSeq(F)) = best[Len(F)]
<1>1. PICK N \in Nat : N = Len(F)
  OBVIOUS
<1> DEFINE T == {<<>>} \cup {TimesOf(F[i]) : i \in 1..N}
           Next(i, b) == IF TimesOf(F[i]) = <<>> THEN b ELSE TimesOf(F[i])
<1>2. <<>> \in T
  OBVIOUS
<1>3. \A i \in 1..N, b \in T : Next(i, b) \in T
  OBVIOUS
<1>4. PICK step : step = [a \in (1..N) \X T |-> Next(a[1], a[2])]
  OBVIOUS
<1>5. step \in [(1..N) \X T -> T]
  BY <1>3, <1>4
<1>6. PICK f \in [0..N -> T] : Runs(f, <<>>, step, N)
  BY <1>2, <1>5, Recursion
<1>7. \A k \in 1..N : f[k] = Next(k, f[k - 1])
  <2> SUFFICES ASSUME NEW k \in 1..N PROVE f[k] = Next(k, f[k - 1])
    OBVIOUS
  <2>1. f[k - 1] \in T /\ f[k] = step[<<k, f[k - 1]>>]
    BY <1>6 DEF Runs
  <2> QED
    BY <1>4, <2>1
<1>8. f[0] = <<>>
  BY <1>6 DEF Runs
<1>9. f = [k \in 0..N |-> IF k = 0 THEN <<>> ELSE Next(k, f[k - 1])]
  <2> HIDE DEF Next, T
  <2>1. \A k \in 0..N : f[k] = IF k = 0 THEN <<>> ELSE Next(k, f[k - 1])
    BY <1>7, <1>8
  <2> QED
    BY <2>1
<1>10. f = [k \in 0..N |-> IF k = 0 THEN <<>>
                           ELSE IF TimesOf(F[k]) = <<>> THEN f[k - 1] ELSE TimesOf(F[k])]
  BY <1>9, Zenon
<1>a. Parse(FlattenSeq(F)).fields = F
  BY ParseOfAll
<1>b. \E g : g = [k \in 0..Len(Parse(FlattenSeq(F)).fields) |->
                   IF k = 0 THEN <<>>
                   ELSE IF TimesOf(Parse(FlattenSeq(F)).fields[k]) = <<>> THEN g[k - 1]
                        ELSE TimesOf(Parse(FlattenSeq(F)).fields[k])]
  BY <1>1, <1>10, <1>a
<1>11. PICK g : /\ g = [k \in 0..Len(Parse(FlattenSeq(F)).fields) |->
                   IF k = 0 THEN <<>>
                   ELSE IF TimesOf(Parse(FlattenSeq(F)).fields[k]) = <<>> THEN g[k - 1]
                        ELSE TimesOf(Parse(FlattenSeq(F)).fields[k])]
                /\ BestTimestamp(FlattenSeq(F)) = g[Len(Parse(FlattenSeq(F)).fields)]
  BY <1>b DEF BestTimestamp
<1>12. \A k \in 0..N : g[k] = IF k = 0 THEN <<>> ELSE Next(k, g[k - 1])
  BY <1>1, <1>a, <1>11
<1>13. Bests(g, F, N)
  <2>1. g[0] = <<>>
    BY <1>1, <1>12
  <2>2. ASSUME NEW k \in 1..N PROVE g[k] = Next(k, g[k - 1])
    <3> HIDE DEF Next
    <3>1. k \in 0..N /\ k # 0
      OBVIOUS
    <3> QED
      BY <1>12, <3>1
  <2> QED
    BY <2>1, <2>2 DEF Bests
<1> QED
  BY <1>1, <1>a, <1>11, <1>13

\* A last timestamp is found, alone at the end or before a field without one.
LEMMA BestAtEnd ==
  ASSUME NEW F \in Seq(Seq(Octet)), NEW t \in Seq(Octet), TimesOf(t) # <<>>,
         AllWhole(Append(F, t))
  PROVE  BestTimestamp(FlattenSeq(Append(F, t))) = TimesOf(t)
<1>1. PICK n \in Nat : n = Len(F)
  OBVIOUS
<1>2. PICK G \in Seq(Seq(Octet)) : G = Append(F, t) /\ Len(G) = n + 1 /\ G[n + 1] = t
  <2>1. /\ Append(F, t) \in Seq(Seq(Octet)) /\ Len(Append(F, t)) = n + 1
        /\ Append(F, t)[n + 1] = t
    BY <1>1, AppendProperties
  <2> QED
    BY <2>1
<1>3. PICK best : Bests(best, G, n + 1) /\ BestTimestamp(FlattenSeq(G)) = best[n + 1]
  BY <1>2, BestIsLast
<1>4. n + 1 \in 1..(n + 1)
  OBVIOUS
<1> QED
  BY <1>2, <1>3, <1>4 DEF Bests

LEMMA BestBeforeEnd ==
  ASSUME NEW F \in Seq(Seq(Octet)), NEW t \in Seq(Octet), TimesOf(t) # <<>>,
         NEW z \in Seq(Octet), TimesOf(z) = <<>>, AllWhole(Append(Append(F, t), z))
  PROVE  BestTimestamp(FlattenSeq(Append(Append(F, t), z))) = TimesOf(t)
<1>1. PICK n \in Nat : n = Len(F)
  OBVIOUS
<1>2. PICK E \in Seq(Seq(Octet)) : E = Append(F, t) /\ Len(E) = n + 1 /\ E[n + 1] = t
  <2>1. /\ Append(F, t) \in Seq(Seq(Octet)) /\ Len(Append(F, t)) = n + 1
        /\ Append(F, t)[n + 1] = t
    BY <1>1, AppendProperties
  <2> QED
    BY <2>1
<1>3. PICK G \in Seq(Seq(Octet)) : /\ G = Append(E, z) /\ Len(G) = n + 2
                                  /\ G[n + 1] = t /\ G[n + 2] = z
  <2>1. Append(E, z) \in Seq(Seq(Octet)) /\ Len(Append(E, z)) = n + 2
    BY <1>2, AppendProperties
  <2>2. n + 1 \in 1..Len(E) /\ n + 2 = Len(E) + 1
    BY <1>2
  <2>3. Append(E, z)[n + 1] = t /\ Append(E, z)[n + 2] = z
    BY <1>2, <2>2, AppendProperties
  <2> QED
    BY <2>1, <2>3
<1>4. PICK best : Bests(best, G, n + 2) /\ BestTimestamp(FlattenSeq(G)) = best[n + 2]
  BY <1>2, <1>3, BestIsLast
<1>5. n + 2 \in 1..(n + 2) /\ n + 1 \in 1..(n + 2) /\ (n + 2) - 1 = n + 1
  OBVIOUS
<1>6. best[n + 2] = best[n + 1]
  BY <1>3, <1>4, <1>5 DEF Bests
<1>7. best[n + 1] = TimesOf(t)
  BY <1>3, <1>4, <1>5 DEF Bests
<1> QED
  BY <1>2, <1>3, <1>4, <1>6, <1>7

(***************************************************************************)
(* The field that start() adds for modification_time goes to the central   *)
(* header, and a reader takes its time.                                    *)
(***************************************************************************)
LEMMA TimeFieldIs ==
  /\ TimeField \in Field /\ TimeField.locations = {"central"} /\ TimeField.body[2] = 7
  /\ TimesOf(Bytes(TimeField)) = <<7>>
<1>1. PICK body \in Seq(Octet) : body = <<1, 7, 0, 0, 0>> /\ Len(body) = 5
  <2>1. 0 \in Octet /\ 1 \in Octet /\ 7 \in Octet
    BY DEF Octet
  <2>2. <<1, 7, 0, 0, 0>> \in Seq(Octet) /\ Len(<<1, 7, 0, 0, 0>>) = 5
    BY <2>1
  <2> QED
    BY <2>2
<1>2. PICK f : f = [id |-> 85, body |-> body, locations |-> {"central"}]
  OBVIOUS
<1>3. TimeField = f
  BY <1>1, <1>2 DEF TimeField, EXTENDED_TIMESTAMP
<1>4. f.id = 85 /\ f.body = body /\ f.locations = {"central"}
  BY <1>2
<1>5. f \in Field
  <2>1. 85 \in 0..255 /\ body \in Seq(0..255) /\ {"central"} \in SUBSET Headers
    BY DEF Octet, Headers
  <2> QED
    BY <1>2, <2>1 DEF Field
<1>6. PICK head \in Seq(Octet) : head = <<85, 0, 5, 0>> /\ Len(head) = 4
  <2>1. 85 \in Octet /\ 0 \in Octet /\ 5 \in Octet
    BY DEF Octet
  <2>2. <<85, 0, 5, 0>> \in Seq(Octet) /\ Len(<<85, 0, 5, 0>>) = 4
    BY <2>1
  <2> QED
    BY <2>2
<1>7. HeadBytes(f) = head
  <2>1. 5 % 256 = 5 /\ 5 \div 256 = 0
    OBVIOUS
  <2> QED
    BY <1>1, <1>4, <1>6, <2>1 DEF HeadBytes
<1>8. PICK s \in Seq(Octet) : s = head \o body /\ s = Bytes(f)
  <2>1. head \o body \in Seq(Octet)
    BY ConcatProperties
  <2> QED
    BY <1>4, <1>7, <2>1 DEF Bytes
<1>9. /\ Len(s) = 9 /\ s[1] = 85 /\ s[2] = 0
      /\ SubSeq(s, 5, 9) = body
  <2>1. Len(s) = 9
    BY <1>1, <1>6, <1>8, ConcatProperties
  <2>2. 1 \in 1..(4 + 5) /\ 2 \in 1..(4 + 5)
    OBVIOUS
  <2>3. s[1] = head[1] /\ s[2] = head[2]
    BY <1>1, <1>6, <1>8, <2>2, ConcatProperties
  <2>4. SubSeq(s, 5, 9) = body
    <3>1. \A i \in 1..5 : 4 + i \in 1..9
      OBVIOUS
    <3>2. \A i \in 1..5 : s[4 + i] = body[i]
      BY <1>1, <1>6, <1>8, SecondOfConcat
    <3>3. SubSeq(s, 5, 9) \in Seq(Octet) /\ Len(SubSeq(s, 5, 9)) = 5
      <4>1. \A m \in 5..9 : s[m] \in Octet
        <5>1. \A m \in 5..9 : m \in 1..Len(s)
          BY <2>1
        <5> QED
          BY <5>1, ElementOfSeq
      <4>2. 5 <= 9 + 1 /\ 9 - 5 + 1 = 5 /\ 5 \in Int /\ 9 \in Int
        OBVIOUS
      <4> QED
        BY <4>1, <4>2, SubSeqProperties
    <3>4. \A i \in 1..5 : SubSeq(s, 5, 9)[i] = body[i]
      <4>1. \A i \in 1..5 : SubSeq(s, 5, 9)[i] = s[5 + i - 1]
        BY <2>1, SubSeqProperties
      <4>2. \A i \in 1..5 : 5 + i - 1 = 4 + i
        OBVIOUS
      <4> QED
        BY <3>2, <4>1, <4>2
    <3> QED
      BY <1>1, <3>3, <3>4, SeqEqual
  <2> QED
    BY <1>6, <2>1, <2>3, <2>4
<1>10. TimesOf(s) = Times(85, body)
  <2>1. LeU16(s, 1) = 85
    BY <1>9 DEF LeU16
  <2> QED
    BY <1>9, <2>1 DEF TimesOf
<1>11. Times(85, body) = <<7>>
  <2>1. body[1] = 1 /\ body[2] = 7 /\ 1 % 2 = 1
    BY <1>1
  <2>2. ~ (85 = NTFS) /\ 85 = EXTENDED_TIMESTAMP
    BY DEF NTFS, EXTENDED_TIMESTAMP
  <2>3. Times(85, body) = IF Len(body) >= 5 /\ body[1] % 2 = 1 THEN <<body[2]>> ELSE <<>>
    BY DEF Times, NTFS, EXTENDED_TIMESTAMP, INFO_ZIP_UNIX_ORIGINAL
  <2> QED
    BY <1>1, <2>1, <2>3
<1> QED
  BY <1>1, <1>3, <1>4, <1>5, <1>8, <1>10, <1>11

LEMMA Zip64FieldIs ==
  ASSUME NEW n \in Nat
  PROVE  /\ Zip64Field(n) \in Field /\ Zip64Field(n).locations = {"central"}
         /\ Zip64Field(n) \in Fitting => TimesOf(Bytes(Zip64Field(n))) = <<>>
<1>1. PICK body : body = [i \in 1..(8 * n) |-> 9]
  OBVIOUS
<1>2. PICK f : f = [id |-> 1, body |-> body, locations |-> {"central"}]
  OBVIOUS
<1>3. Zip64Field(n) = f
  BY <1>1, <1>2 DEF Zip64Field, ZIP64
<1>4. f.id = 1 /\ f.body = body /\ f.locations = {"central"}
  BY <1>2
<1>5. f \in Field
  <2>1. body \in Seq(0..255)
    <3>1. 8 * n \in Nat /\ 9 \in 0..255
      OBVIOUS
    <3> QED
      BY <1>1, <3>1
  <2>2. 1 \in 0..255 /\ {"central"} \in SUBSET Headers
    BY DEF Headers
  <2> QED
    BY <1>2, <2>1, <2>2 DEF Field
<1>6. ASSUME f \in Fitting PROVE TimesOf(Bytes(f)) = <<>>
  <2>1. PICK head \in Seq(Octet), b \in Seq(Octet) :
          head = HeadBytes(f) /\ b = f.body /\ Bytes(f) = head \o b
    BY <1>6, BytesWhole DEF Bytes
  <2>2. Len(head) = 4 /\ head[1] = 1 /\ head[2] = 0
    BY <1>4, <2>1 DEF HeadBytes
  <2>3. 1 \in 1..(Len(head) + Len(b)) /\ 2 \in 1..(Len(head) + Len(b))
    BY <2>2
  <2>4. (head \o b)[1] = 1 /\ (head \o b)[2] = 0
    BY <2>2, <2>3, ConcatProperties
  <2>5. PICK s : s = Bytes(f) /\ s[1] = 1 /\ s[2] = 0
    BY <2>1, <2>4
  <2>6. LeU16(s, 1) = 1
    BY <2>5 DEF LeU16
  <2>7. \A x : Times(1, x) = <<>>
    BY DEF Times, NTFS, EXTENDED_TIMESTAMP, INFO_ZIP_UNIX_ORIGINAL
  <2> QED
    BY <2>5, <2>6, <2>7 DEF TimesOf
<1> QED
  BY <1>3, <1>4, <1>5, <1>6

\* The time of an entry is found in the central header, written with or without zip64 field.
LEMMA TimeFound ==
  ASSUME NEW c, NEW a \in Seq(Fitting), TimeField \in Fitting,
         NEW fs, Holds(c, fs),
         \/ fs = Append(a, TimeField)
         \/ \E n \in Nat : Zip64Field(n) \in Fitting
                           /\ fs = Append(Append(a, TimeField), Zip64Field(n))
  PROVE  BestTimestamp(Written(c, "central")) = <<7>>
<1>1. PICK t \in Seq(Octet) : t = Bytes(TimeField) /\ TimesOf(t) = <<7>>
  BY BytesWhole, TimeFieldIs
<1>2. PICK timed \in Seq(Fitting) : timed = Append(a, TimeField)
  BY AppendProperties
<1>3. "central" \in TimeField.locations
  BY TimeFieldIs
<1>4. PICK F \in Seq(Seq(Octet)), A \in Seq(Seq(Octet)) :
        F = For("central", a) /\ A = All(a)
  BY ForGrows, AllGrows
<1>5. For("central", timed) = Append(F, t) /\ All(timed) = Append(A, t)
  BY <1>1, <1>2, <1>3, <1>4, ForGrows, AllGrows
<1>6. AllWhole(For("central", fs)) /\ fs \in Seq(Fitting)
  BY DEF Holds, Sorted
<1>7. AllWhole(All(fs))
  BY <1>6, AllGrows
<1>8. \/ Written(c, "central") = FlattenSeq(For("central", fs))
      \/ Written(c, "central") = FlattenSeq(All(fs))
  <2>1. "central" \in Headers
    BY DEF Headers
  <2> QED
    BY <2>1, WrittenBytes
<1>9. <<7>> # <<>>
  OBVIOUS
<1>10. CASE fs = timed
  <2>1. BestTimestamp(FlattenSeq(For("central", fs))) = <<7>>
    BY <1>1, <1>5, <1>6, <1>9, <1>10, BestAtEnd
  <2>2. BestTimestamp(FlattenSeq(All(fs))) = <<7>>
    BY <1>1, <1>5, <1>7, <1>9, <1>10, BestAtEnd
  <2> QED
    BY <1>8, <2>1, <2>2
<1>11. ASSUME NEW n \in Nat, Zip64Field(n) \in Fitting, fs = Append(timed, Zip64Field(n))
       PROVE  BestTimestamp(Written(c, "central")) = <<7>>
  <2>1. PICK z \in Seq(Octet) : z = Bytes(Zip64Field(n)) /\ TimesOf(z) = <<>>
    BY <1>11, BytesWhole, Zip64FieldIs
  <2>2. "central" \in Zip64Field(n).locations
    BY Zip64FieldIs
  <2>3. For("central", fs) = Append(Append(F, t), z) /\ All(fs) = Append(Append(A, t), z)
    BY <1>5, <1>11, <2>1, <2>2, ForGrows, AllGrows
  <2>4. /\ AllWhole(Append(Append(F, t), z)) /\ AllWhole(Append(Append(A, t), z))
        /\ TimesOf(t) # <<>> /\ TimesOf(z) = <<>>
    BY <1>1, <1>6, <1>7, <1>9, <2>1, <2>3
  <2>5. BestTimestamp(FlattenSeq(For("central", fs))) = <<7>>
    <3>1. BestTimestamp(FlattenSeq(Append(Append(F, t), z))) = TimesOf(t)
      BY <2>4, BestBeforeEnd
    <3> QED
      BY <1>1, <2>3, <3>1
  <2>6. BestTimestamp(FlattenSeq(All(fs))) = <<7>>
    <3>1. BestTimestamp(FlattenSeq(Append(Append(A, t), z))) = TimesOf(t)
      BY <2>4, BestBeforeEnd
    <3> QED
      BY <1>1, <2>3, <3>1
  <2> QED
    BY <1>8, <2>5, <2>6
<1> QED
  BY <1>2, <1>10, <1>11

-----------------------------------------------------------------------------
(* The invariant.                                                          *)

HeaderSet == [len : Nat, bytes : Seq(Octet), fields : Nat]

\* The k-th header is what was asked for it, unless there are stray fields.
Fulfils(header, k) ==
  /\ header.fields <= Len(added)
  /\ Asked(k) \in Seq(Seq(Octet)) /\ AllWhole(Asked(k))
  /\ header.len = Len(FlattenSeq(Asked(k)))
  /\ ~ Stray(SubSeq(added, 1, header.fields)) => header.bytes = FlattenSeq(Asked(k))

(***************************************************************************)
(* What carries both: the container holds the fields that were added, each *)
(* header has been written with those for it, and the time field stands    *)
(* behind them.                                                            *)
(***************************************************************************)
FieldsInv ==
  /\ Holds(container, added)
  /\ headers \in Seq(HeaderSet)
  /\ stage \in {"building", "started", "timed", "done", "dated", "failed"}
  /\ stage = "building" => headers = <<>>
  /\ stage \in {"started", "timed"} => Len(headers) = 1
  /\ \A k \in 1..Len(headers) : Fulfils(headers[k], k)
  /\ stage = "timed" => \E a \in Seq(Fitting) : added = Append(a, TimeField)
  /\ stage = "dated" => Len(headers) = 2 /\ BestTimestamp(headers[2].bytes) = <<7>>

LEMMA Started ==
  ASSUME NEW c, NEW fs, Holds(c, fs), NEW h \in Headers,
         NEW header, header = [len |-> c[h], bytes |-> Written(c, h), fields |-> Len(fs)]
  PROVE  /\ header \in HeaderSet
         /\ SubSeq(fs, 1, header.fields) = fs
         /\ For(h, fs) \in Seq(Seq(Octet)) /\ AllWhole(For(h, fs))
         /\ header.len = Len(FlattenSeq(For(h, fs)))
         /\ header.bytes = Written(c, h)
         /\ ~ Stray(fs) => header.bytes = FlattenSeq(For(h, fs))
<1>1. fs \in Seq(Fitting)
  BY DEF Holds
<1>2. /\ \/ Written(c, h) = FlattenSeq(For(h, fs))
         \/ Written(c, h) = FlattenSeq(All(fs))
      /\ ~ Stray(fs) => Written(c, h) = FlattenSeq(For(h, fs))
      /\ c[h] = Len(FlattenSeq(For(h, fs))) /\ Sorted(h, fs)
  BY WrittenBytes
<1>3. For(h, fs) \in Seq(Seq(Octet)) /\ AllWhole(For(h, fs))
  BY <1>2 DEF Sorted
<1>4. FlattenSeq(For(h, fs)) \in Seq(Octet) /\ FlattenSeq(All(fs)) \in Seq(Octet)
  BY <1>1, <1>3, AllGrows, FlattenAppend
<1>5. header.len = c[h] /\ header.bytes = Written(c, h) /\ header.fields = Len(fs)
  OBVIOUS
<1>6. c[h] \in Nat /\ Written(c, h) \in Seq(Octet) /\ Len(fs) \in Nat
  BY <1>1, <1>2, <1>4, LenProperties
<1>7. SubSeq(fs, 1, Len(fs)) = fs
  BY <1>1, SubSeqFull
<1> QED
  BY <1>2, <1>3, <1>5, <1>6, <1>7 DEF HeaderSet

LEMMA FieldsStart == FieldsInit => FieldsInv
<1> SUFFICES ASSUME FieldsInit PROVE FieldsInv
  OBVIOUS
<1> USE DEF FieldsInit
<1>1. Holds(container, added)
  BY NewHolds
<1>2. headers \in Seq(HeaderSet) /\ Len(headers) = 0
  <2>1. <<>> \in Seq(HeaderSet) /\ Len(<<>>) = 0
    OBVIOUS
  <2> QED
    BY <2>1
<1>3. \A k \in 1..Len(headers) : Fulfils(headers[k], k)
  BY <1>2
<1> QED
  BY <1>1, <1>2, <1>3 DEF FieldsInv

\* Headers already written stay right when a field for the other one is added.
LEMMA Unmoved ==
  ASSUME FieldsInv, NEW f \in Fitting, "local" \notin f.locations,
         added' = Append(added, f), NEW k \in 1..Len(headers), Kind(k) = "local"
  PROVE  /\ Asked(k)' = Asked(k)
         /\ \A header \in HeaderSet : Fulfils(header, k) => Fulfils(header, k)'
<1>1. added \in Seq(Fitting)
  BY DEF FieldsInv, Holds
<1>2. Asked(k)' = Asked(k)
  <2>1. For("local", Append(added, f)) = For("local", added)
    BY <1>1, ForGrows
  <2>2. Kind(k)' = Kind(k)
    BY DEF Kind
  <2>3. Asked(k)' = For(Kind(k), added')
    BY <2>2 DEF Asked
  <2> QED
    BY <2>1, <2>3 DEF Asked
<1>3. ASSUME NEW header \in HeaderSet, Fulfils(header, k) PROVE Fulfils(header, k)'
  <2>1. PICK n \in Nat : n = header.fields /\ n <= Len(added)
    BY <1>3 DEF HeaderSet, Fulfils
  <2>2. PICK m \in Nat : m = Len(added)
    BY <1>1, LenProperties
  <2>3. Len(Append(added, f)) = m + 1 /\ \A i \in 1..m : Append(added, f)[i] = added[i]
    BY <1>1, <2>2
  <2>4. SubSeq(Append(added, f), 1, n) = SubSeq(added, 1, n)
    <3>1. Append(added, f) \in Seq(Fitting)
      BY <1>1, AppendProperties
    <3>2. n <= m + 1 /\ n <= m /\ \A i \in 1..n : i \in 1..m
      BY <2>1, <2>2
    <3>3. \A i \in 1..n : Append(added, f)[i] = added[i]
      BY <2>3, <3>2
    <3> QED
      BY <1>1, <2>2, <2>3, <3>1, <3>2, <3>3, FrontsEqual
  <2>5. header.fields <= Len(added')
    BY <2>1, <2>2, <2>3
  <2>6. SubSeq(added', 1, header.fields) = SubSeq(added, 1, header.fields)
    BY <2>1, <2>4
  <2> QED
    BY <1>2, <1>3, <2>5, <2>6 DEF Fulfils
<1> QED
  BY <1>2, <1>3

(***************************************************************************)
(* Every call keeps FieldsInv.                                             *)
(***************************************************************************)
LEMMA FieldsStep == FieldsInv /\ [FieldsNext]_fieldVars => FieldsInv'
<1> SUFFICES ASSUME FieldsInv, [FieldsNext]_fieldVars PROVE FieldsInv'
  OBVIOUS
<1>1. Holds(container, added) /\ added \in Seq(Fitting) /\ headers \in Seq(HeaderSet)
  BY DEF FieldsInv, Holds
<1>2. \A k : Kind(k)' = Kind(k)
  BY DEF Kind
<1>3. ASSUME UNCHANGED <<container, added, headers>>, stage' = "failed"
      PROVE  FieldsInv'
  <2>1. \A k : Asked(k)' = Asked(k)
    BY <1>2, <1>3 DEF Asked
  <2>2. \A k \in 1..Len(headers) : Fulfils(headers[k], k)'
    BY <1>3, <2>1 DEF FieldsInv, Fulfils
  <2> QED
    BY <1>3, <2>2 DEF FieldsInv
<1>4. ASSUME NEW f \in Fields, AddField(f) PROVE FieldsInv'
  <2>1. stage = "building" /\ headers = <<>> /\ headers' = headers
    BY <1>4 DEF AddField, FieldsInv
  <2>2. CASE Fits(container, f)
    <3>1. container' = Adding(container, f) /\ added' = Append(added, f) /\ stage' = stage
      BY <1>4, <2>2 DEF AddField, Keep
    <3>2. f \in Field
      BY FieldsAssumption
    <3>3. Holds(container', added')
      BY <1>1, <2>2, <3>1, <3>2, AddingHolds
    <3>4. Len(headers') = 0 /\ headers' \in Seq(HeaderSet)
      BY <1>1, <2>1
    <3>5. \A k \in 1..Len(headers') : Fulfils(headers[k], k)'
      BY <3>4
    <3> QED
      BY <2>1, <3>1, <3>3, <3>4, <3>5 DEF FieldsInv
  <2>3. CASE ~ Fits(container, f)
    BY <1>3, <1>4, <2>3 DEF AddField
  <2> QED
    BY <2>2, <2>3
<1>5. ASSUME NEW mtime \in BOOLEAN, Start(mtime) PROVE FieldsInv'
  <2>1. CASE mtime /\ ~ Fits(container, TimeField)
    BY <1>3, <1>5, <2>1 DEF Start
  <2>2. CASE ~ (mtime /\ ~ Fits(container, TimeField))
    <3>1. /\ IF mtime THEN Keep(TimeField) ELSE UNCHANGED <<container, added>>
          /\ stage' = IF mtime THEN "timed" ELSE "started"
          /\ headers' = <<Header(container', "local")>>
          /\ stage = "building"
      BY <1>5, <2>2 DEF Start
    <3>2. /\ Holds(container', added') /\ added' \in Seq(Fitting)
          /\ mtime => added' = Append(added, TimeField)
      <4>1. CASE mtime
        <5>1. TimeField \in Field /\ Fits(container, TimeField)
          BY <2>2, <4>1, TimeFieldIs
        <5>2. Holds(Adding(container, TimeField), Append(added, TimeField))
          BY <1>1, <5>1, AddingHolds
        <5>3. Holds(container', added') /\ added' = Append(added, TimeField)
          BY <3>1, <4>1, <5>2 DEF Keep
        <5> QED
          BY <5>3 DEF Holds
      <4>2. CASE ~ mtime
        BY <1>1, <3>1, <4>2
      <4> QED
        BY <4>1, <4>2
    <3>3. PICK header : header = Header(container', "local")
      OBVIOUS
    <3>4. header = [len |-> container'["local"], bytes |-> Written(container', "local"),
                    fields |-> Len(added')]
      BY <3>3 DEF Header
    <3>5. "local" \in Headers
      BY DEF Headers
    <3>6. /\ header \in HeaderSet /\ header.fields = Len(added')
          /\ SubSeq(added', 1, header.fields) = added'
          /\ For("local", added') \in Seq(Seq(Octet)) /\ AllWhole(For("local", added'))
          /\ header.len = Len(FlattenSeq(For("local", added')))
          /\ ~ Stray(added') => header.bytes = FlattenSeq(For("local", added'))
      BY <3>2, <3>4, <3>5, Started
    <3>7. Asked(1)' = For("local", added')
      BY DEF Asked, Kind
    <3>8. header.fields <= Len(added')
      <4>1. Len(added') \in Nat
        BY <3>2
      <4> QED
        BY <3>6, <4>1
    <3>9. Fulfils(header, 1)'
      <4>1. header' = header
        OBVIOUS
      <4> QED
        BY <3>6, <3>7, <3>8 DEF Fulfils
    <3>10. headers' = <<header>> /\ headers' \in Seq(HeaderSet) /\ Len(headers') = 1
           /\ headers'[1] = header
      BY <3>1, <3>3, <3>6
    <3>11. \A k \in 1..Len(headers') : Fulfils(headers[k], k)'
      BY <3>9, <3>10
    <3> QED
      BY <1>1, <3>1, <3>2, <3>10, <3>11 DEF FieldsInv
  <2> QED
    BY <2>1, <2>2
<1>6. ASSUME NEW n \in 0..MaxWords, Finish(n) PROVE FieldsInv'
  <2>1. CASE n > 0 /\ ~ Fits(container, Zip64Field(n))
    BY <1>3, <1>6, <2>1 DEF Finish
  <2>2. CASE ~ (n > 0 /\ ~ Fits(container, Zip64Field(n)))
    <3>1. /\ IF n > 0 THEN Keep(Zip64Field(n)) ELSE UNCHANGED <<container, added>>
          /\ stage' = IF stage = "timed" THEN "dated" ELSE "done"
          /\ headers' = Append(headers, Header(container', "central"))
          /\ stage \in {"started", "timed"}
      BY <1>6, <2>2 DEF Finish
    <3>2. Len(headers) = 1 /\ n \in Nat
      BY <3>1, FieldsAssumption DEF FieldsInv
    <3>3. PICK first \in HeaderSet : first = headers[1] /\ Fulfils(first, 1)
      <4>1. 1 \in 1..Len(headers)
        BY <3>2
      <4>2. headers[1] \in HeaderSet /\ Fulfils(headers[1], 1)
        BY <1>1, <4>1, ElementOfSeq DEF FieldsInv
      <4> QED
        BY <4>2
    <3>4. /\ Holds(container', added')
          /\ \/ added' = added
             \/ added' = Append(added, Zip64Field(n)) /\ Zip64Field(n) \in Fitting
          /\ Fulfils(first, 1)'
      <4>1. CASE n > 0
        <5>1. Zip64Field(n) \in Field /\ Fits(container, Zip64Field(n))
          BY <2>2, <3>2, <4>1, Zip64FieldIs
        <5>2. Zip64Field(n) \in Fitting
          BY <1>1, <5>1, FitsIsFitting
        <5>3. Holds(Adding(container, Zip64Field(n)), Append(added, Zip64Field(n)))
          BY <1>1, <5>1, AddingHolds
        <5>4. Holds(container', added') /\ added' = Append(added, Zip64Field(n))
          BY <3>1, <4>1, <5>3 DEF Keep
        <5>5. "local" \notin Zip64Field(n).locations
          BY <3>2, Zip64FieldIs
        <5>6. 1 \in 1..Len(headers) /\ Kind(1) = "local"
          BY <3>2 DEF Kind
        <5>7. \A header \in HeaderSet : Fulfils(header, 1) => Fulfils(header, 1)'
          BY <5>2, <5>4, <5>5, <5>6, Unmoved
        <5> QED
          BY <3>3, <5>2, <5>4, <5>7
      <4>2. CASE ~ (n > 0)
        <5>1. container' = container /\ added' = added
          BY <3>1, <4>2
        <5>2. Asked(1)' = Asked(1)
          BY <1>2, <5>1 DEF Asked
        <5> QED
          BY <1>1, <3>3, <5>1, <5>2 DEF Fulfils
      <4> QED
        BY <4>1, <4>2
    <3>5. PICK header : header = Header(container', "central")
      OBVIOUS
    <3>6. header = [len |-> container'["central"], bytes |-> Written(container', "central"),
                    fields |-> Len(added')]
      BY <3>5 DEF Header
    <3>7. "central" \in Headers
      BY DEF Headers
    <3>8. /\ header \in HeaderSet /\ header.fields = Len(added')
          /\ SubSeq(added', 1, header.fields) = added'
          /\ For("central", added') \in Seq(Seq(Octet)) /\ AllWhole(For("central", added'))
          /\ header.len = Len(FlattenSeq(For("central", added')))
          /\ header.bytes = Written(container', "central")
          /\ ~ Stray(added') => header.bytes = FlattenSeq(For("central", added'))
      BY <3>4, <3>6, <3>7, Started
    <3>9. Asked(2)' = For("central", added')
      BY DEF Asked, Kind
    <3>10. added' \in Seq(Fitting)
      BY <3>4 DEF Holds
    <3>11. header.fields <= Len(added')
      BY <3>8, <3>10, LenProperties
    <3>12. Fulfils(header, 2)'
      BY <3>8, <3>9, <3>11 DEF Fulfils
    <3>13. /\ headers' \in Seq(HeaderSet) /\ Len(headers') = 2
           /\ headers'[1] = first /\ headers'[2] = header
      <4>1. 1 \in 1..Len(headers) /\ Len(headers) + 1 = 2
        BY <3>2
      <4>2. headers' = Append(headers, header)
        BY <3>1, <3>5
      <4>3. /\ Append(headers, header) \in Seq(HeaderSet)
            /\ Len(Append(headers, header)) = Len(headers) + 1
            /\ Append(headers, header)[Len(headers) + 1] = header
            /\ Append(headers, header)[1] = headers[1]
        BY <1>1, <3>8, <4>1, AppendProperties
      <4> QED
        BY <3>3, <4>1, <4>2, <4>3
    <3>14. \A k \in 1..Len(headers') : Fulfils(headers[k], k)'
      <4>1. \A k \in 1..2 : k = 1 \/ k = 2
        OBVIOUS
      <4>2. Fulfils(headers[1], 1)'
        BY <3>4, <3>13 DEF Fulfils
      <4>3. Fulfils(headers[2], 2)'
        BY <3>12, <3>13 DEF Fulfils
      <4> QED
        BY <3>13, <4>1, <4>2, <4>3
    <3>15. stage = "timed" => BestTimestamp(headers'[2].bytes) = <<7>>
      <4> SUFFICES ASSUME stage = "timed" PROVE BestTimestamp(headers'[2].bytes) = <<7>>
        OBVIOUS
      <4>1. PICK a \in Seq(Fitting) : added = Append(a, TimeField)
        BY DEF FieldsInv
      <4>2. TimeField \in Fitting
        <5>1. PICK m \in Nat : m = Len(a) + 1
          OBVIOUS
        <5>2. Len(added) = m /\ added[m] = TimeField /\ m \in 1..m
          BY <4>1, <5>1
        <5> QED
          BY <1>1, <5>2, ElementOfSeq
      <4>3. BestTimestamp(Written(container', "central")) = <<7>>
        BY <3>2, <3>4, <4>1, <4>2, TimeFound
      <4> QED
        BY <3>8, <3>13, <4>3
    <3> QED
      BY <3>1, <3>4, <3>13, <3>14, <3>15 DEF FieldsInv
  <2> QED
    BY <2>1, <2>2
<1>7. ASSUME UNCHANGED fieldVars PROVE FieldsInv'
  <2>1. \A k : Asked(k)' = Asked(k)
    BY <1>2, <1>7 DEF Asked, fieldVars
  <2>2. \A k \in 1..Len(headers) : Fulfils(headers[k], k)'
    BY <1>7, <2>1 DEF FieldsInv, Fulfils, fieldVars
  <2> QED
    BY <1>7, <2>2 DEF FieldsInv, fieldVars
<1> QED
  BY <1>4, <1>5, <1>6, <1>7 DEF FieldsNext

LEMMA FieldsInvariant == FieldsSpec => []FieldsInv
BY FieldsStart, FieldsStep, PTL DEF FieldsSpec

(***************************************************************************)
(* Cut anywhere, such bytes are parsed into the fields before the cut, and *)
(* the rest.                                                               *)
(***************************************************************************)
LEMMA FrontIsParsed ==
  ASSUME NEW F \in Seq(Seq(Octet)), AllWhole(F), NEW s, s = FlattenSeq(F)
  PROVE  /\ Parse(s) = [fields |-> F, rest |-> <<>>]
         /\ \A n \in 0..Len(s) :
              LET cut == SubSeq(s, 1, n)
                  parsed == Parse(cut)
              IN  /\ IsPrefix(parsed.fields, F)
                  /\ FlattenSeq(parsed.fields) \o parsed.rest = cut
<1>1. Parse(s) = [fields |-> F, rest |-> <<>>] /\ Parse(s).fields = F
  BY ParseOfAll
<1>2. PICK t \in Seq(Octet) : t = s
  BY FlattenAppend
<1>3. ASSUME NEW n \in 0..Len(t)
      PROVE  /\ IsPrefix(Parse(SubSeq(t, 1, n)).fields, F)
             /\ FlattenSeq(Parse(SubSeq(t, 1, n)).fields) \o Parse(SubSeq(t, 1, n)).rest
                  = SubSeq(t, 1, n)
  <2>1. SubSeq(t, 1, n) \in Seq(Octet)
    OBVIOUS
  <2>2. IsPrefix(Parse(SubSeq(t, 1, n)).fields, Parse(t).fields)
    BY ParseOfPrefix
  <2>3. Parsed(SubSeq(t, 1, n), Parse(SubSeq(t, 1, n)))
    BY <2>1, ParseGives
  <2> QED
    BY <1>1, <1>2, <2>2, <2>3 DEF Parsed
<1> QED
  BY <1>1, <1>2, <1>3

(***************************************************************************)
(* FieldsAsAsked, for any number of fields of any content, added in any    *)
(* order to either header or both, and for any limit: what add_field       *)
(* counted is what write_extra_fields writes, and the iterator gives back  *)
(* the fields asked for.                                                   *)
(***************************************************************************)
THEOREM FieldsCorrect == FieldsSpec => []FieldsAsAsked
<1>1. FieldsInv => FieldsAsAsked
  <2> SUFFICES ASSUME FieldsInv PROVE FieldsAsAsked
    OBVIOUS
  <2>1. headers \in Seq(HeaderSet)
    BY DEF FieldsInv
  <2>2. DOMAIN headers = 1..Len(headers)
    BY <2>1
  <2>3. ASSUME NEW k \in 1..Len(headers), ~ Stray(Then(k))
        PROVE  /\ headers[k].len = Len(headers[k].bytes)
               /\ Parse(headers[k].bytes) = [fields |-> Asked(k), rest |-> <<>>]
               /\ \A n \in 0..Len(headers[k].bytes) :
                    LET cut == SubSeq(headers[k].bytes, 1, n)
                        parsed == Parse(cut)
                    IN  /\ IsPrefix(parsed.fields, Asked(k))
                        /\ FlattenSeq(parsed.fields) \o parsed.rest = cut
    <3>1. Fulfils(headers[k], k)
      BY DEF FieldsInv
    <3>2. /\ Asked(k) \in Seq(Seq(Octet)) /\ AllWhole(Asked(k))
          /\ headers[k].len = Len(FlattenSeq(Asked(k)))
          /\ headers[k].bytes = FlattenSeq(Asked(k))
      BY <2>3, <3>1 DEF Fulfils, Then
    <3> QED
      BY <3>2, FrontIsParsed
  <2> QED
    BY <2>2, <2>3 DEF FieldsAsAsked
<1> QED
  BY <1>1, FieldsInvariant, PTL

(***************************************************************************)
(* OwnTimeWins: extract_best_timestamp takes the last timestamp that is    *)
(* well-formed, and the field that start() adds for modification_time is   *)
(* the last of the central fields, or the last but the zip64 field, which  *)
(* holds no time.                                                          *)
(***************************************************************************)
THEOREM TimeCorrect == FieldsSpec => []OwnTimeWins
<1>1. FieldsInv => OwnTimeWins
  BY TimeFieldIs DEF FieldsInv, OwnTimeWins
<1> QED
  BY <1>1, FieldsInvariant, PTL

-----------------------------------------------------------------------------
(* Records.                                                                *)

(***************************************************************************)
(* What Cut and From return.                                               *)
(***************************************************************************)
LEMMA CutProperties ==
  ASSUME NEW V, NEW s \in Seq(V), NEW a \in Nat, NEW b \in Nat, a <= b, b <= Len(s)
  PROVE  /\ Cut(s, a, b) \in Seq(V) /\ Len(Cut(s, a, b)) = b - a
         /\ \A i \in 1..(b - a) : Cut(s, a, b)[i] = s[a + i]
<1>1. Cut(s, a, b) = SubSeq(s, a + 1, b)
  BY DEF Cut
<1>2. SubSeq(s, a + 1, b) \in Seq(V)
  OBVIOUS
<1>3. Len(SubSeq(s, a + 1, b)) = b - a
  OBVIOUS
<1>4. \A i \in 1..(b - a) : SubSeq(s, a + 1, b)[i] = s[a + i]
  OBVIOUS
<1> QED
  BY <1>1, <1>2, <1>3, <1>4

\* The same, for bounds that are terms of any kind.
LEMMA CutBounds ==
  ASSUME NEW V, NEW s \in Seq(V), NEW a, NEW b, a \in Nat, b \in Nat, a <= b, b <= Len(s)
  PROVE  /\ Cut(s, a, b) \in Seq(V) /\ Len(Cut(s, a, b)) = b - a
         /\ \A i \in 1..(b - a) : Cut(s, a, b)[i] = s[a + i]
BY CutProperties

\* What lies behind a position is a cut that ends at the end.
LEMMA FromIsCut ==
  ASSUME NEW s, NEW a
  PROVE  From(s, a) = Cut(s, a, Len(s))
BY DEF From, Cut

(***************************************************************************)
(* A cut of a cut is a cut.                                                *)
(***************************************************************************)
LEMMA CutOfCut ==
  ASSUME NEW V, NEW s \in Seq(V), NEW a \in Nat, NEW b \in Nat, a <= b, b <= Len(s),
         NEW c \in Nat, NEW d \in Nat, c <= d, a + d <= b
  PROVE  Cut(Cut(s, a, b), c, d) = Cut(s, a + c, a + d)
<1> DEFINE t == Cut(s, a, b)
<1>1. t \in Seq(V) /\ Len(t) = b - a /\ \A i \in 1..(b - a) : t[i] = s[a + i]
  BY CutProperties
<1>2. /\ Cut(t, c, d) \in Seq(V) /\ Len(Cut(t, c, d)) = d - c
      /\ \A i \in 1..(d - c) : Cut(t, c, d)[i] = t[c + i]
  <2>1. d <= Len(t) /\ Len(t) \in Nat /\ t \in Seq(V)
    BY <1>1
  <2> HIDE DEF t
  <2> QED
    BY <2>1, CutProperties
<1>3. /\ Cut(s, a + c, a + d) \in Seq(V) /\ Len(Cut(s, a + c, a + d)) = d - c
      /\ \A i \in 1..(d - c) : Cut(s, a + c, a + d)[i] = s[a + c + i]
  <2>1. a + c \in Nat /\ a + d \in Nat /\ a + c <= a + d /\ a + d <= Len(s)
        /\ (a + d) - (a + c) = d - c
    OBVIOUS
  <2> HIDE DEF t
  <2>2. /\ Cut(s, a + c, a + d) \in Seq(V) /\ Len(Cut(s, a + c, a + d)) = (a + d) - (a + c)
        /\ \A i \in 1..((a + d) - (a + c)) : Cut(s, a + c, a + d)[i] = s[a + c + i]
    BY <2>1, CutProperties, ZenonT(30)
  <2> QED
    BY <2>1, <2>2
<1>4. \A i \in 1..(d - c) : Cut(t, c, d)[i] = Cut(s, a + c, a + d)[i]
  <2>1. SUFFICES ASSUME NEW i \in 1..(d - c) PROVE Cut(t, c, d)[i] = Cut(s, a + c, a + d)[i]
    OBVIOUS
  <2>2. c + i \in 1..(b - a) /\ a + (c + i) = a + c + i
    OBVIOUS
  <2>3. t[c + i] = s[a + (c + i)]
    BY <1>1, <2>2
  <2> QED
    BY <1>2, <1>3, <2>2, <2>3
<1> QED
  BY <1>2, <1>3, <1>4, SeqEqual

LEMMA CutTwice ==
  ASSUME NEW V, NEW s \in Seq(V), NEW a, NEW b, a \in Nat, b \in Nat, a <= b, b <= Len(s),
         NEW c, NEW d, c \in Nat, d \in Nat, c <= d, a + d <= b
  PROVE  Cut(Cut(s, a, b), c, d) = Cut(s, a + c, a + d)
BY CutOfCut

(***************************************************************************)
(* Eight bytes are a number; it is small if the upper five are zero.       *)
(***************************************************************************)
LEMMA EightBytes ==
  ASSUME NEW w \in Words(8)
  PROVE  /\ w[1] \in Nat /\ w[1] <= 255 /\ w[2] \in Nat /\ w[2] <= 255
         /\ w[3] \in Nat /\ w[3] <= 255 /\ w[4] \in Nat /\ w[4] <= 255
         /\ w[5] \in Nat /\ w[5] <= 255 /\ w[6] \in Nat /\ w[6] <= 255
         /\ w[7] \in Nat /\ w[7] <= 255 /\ w[8] \in Nat /\ w[8] <= 255
<1>1. w \in [1..8 -> Octet]
  BY DEF Words, Octet
<1>2. \A i \in Octet : i \in Nat /\ i <= 255
  BY DEF Octet
<1>3. /\ 1 \in 1..8 /\ 2 \in 1..8 /\ 3 \in 1..8 /\ 4 \in 1..8
      /\ 5 \in 1..8 /\ 6 \in 1..8 /\ 7 \in 1..8 /\ 8 \in 1..8
  OBVIOUS
<1>4. /\ w[1] \in Octet /\ w[2] \in Octet /\ w[3] \in Octet /\ w[4] \in Octet
      /\ w[5] \in Octet /\ w[6] \in Octet /\ w[7] \in Octet /\ w[8] \in Octet
  BY <1>1, <1>3
<1> QED
  BY <1>2, <1>4

\* Bytes as one number, the first three and the rest, and the five behind them.
Three(a, b, c, d) == a + 256 * (b + 256 * (c + 256 * d))
Five(a, b, c, d, e) == a + 256 * (b + 256 * (c + 256 * (d + 256 * e)))

\* Three bytes and a number above them: below 2^24 only if that number is zero.
LEMMA FromThird ==
  ASSUME NEW a, NEW b, NEW c, NEW d,
         a \in Nat, b \in Nat, c \in Nat, d \in Nat, a <= 255, b <= 255, c <= 255
  PROVE  /\ Three(a, b, c, d) \in Nat
         /\ Three(a, b, c, d) >= TwoTo24 <=> d # 0
         /\ d = 0 => Three(a, b, c, d) = a + 256 * b + 65536 * c
BY SMT DEF TwoTo24, Three

\* Five bytes as one number are zero only if each is.
LEMMA UpperFive ==
  ASSUME NEW a, NEW b, NEW c, NEW d, NEW e,
         a \in Nat, b \in Nat, c \in Nat, d \in Nat, e \in Nat
  PROVE  /\ Five(a, b, c, d, e) \in Nat
         /\ Five(a, b, c, d, e) = 0 <=> a = 0 /\ b = 0 /\ c = 0 /\ d = 0 /\ e = 0
BY DEF Five

\* The number of eight bytes is a number, and below 2^24 if the word is small.
LEMMA ValueCounts ==
  ASSUME NEW w \in Words(8)
  PROVE  /\ Value(w) \in Nat
         /\ Value(w) >= TwoTo24 <=> ~ IsSmall(w)
         /\ IsSmall(w) => Value(w) = w[1] + 256 * w[2] + 65536 * w[3]
<1> DEFINE upper == Five(w[4], w[5], w[6], w[7], w[8])
<1>1. /\ w[1] \in Nat /\ w[1] <= 255 /\ w[2] \in Nat /\ w[2] <= 255
      /\ w[3] \in Nat /\ w[3] <= 255 /\ w[4] \in Nat /\ w[5] \in Nat
      /\ w[6] \in Nat /\ w[7] \in Nat /\ w[8] \in Nat
  BY EightBytes
<1>2. /\ upper \in Nat
      /\ upper = 0 <=> w[4] = 0 /\ w[5] = 0 /\ w[6] = 0 /\ w[7] = 0 /\ w[8] = 0
  BY <1>1, UpperFive
<1>3. Value(w) = Three(w[1], w[2], w[3], upper)
  BY DEF Value, Three, Five
<1>4. IsSmall(w) <=> w[4] = 0 /\ w[5] = 0 /\ w[6] = 0 /\ w[7] = 0 /\ w[8] = 0
  <2>1. 4..8 = {4, 5, 6, 7, 8}
    OBVIOUS
  <2> QED
    BY <2>1 DEF IsSmall
<1> HIDE DEF upper
<1> QED
  BY <1>1, <1>2, <1>3, <1>4, FromThird

\* AtMost is the comparison of the numbers, up to the longest file.
LEMMA AtMostCompares ==
  ASSUME NEW w \in Words(8), NEW n \in Int
  PROVE  AtMost(w, n) <=> Value(w) <= n
<1>1. TwoTo24 \in Nat
  BY SMT DEF TwoTo24
<1> QED
  BY <1>1, ValueCounts DEF AtMost

\* No file of ours is longer.
Longest == 67108864

LEMMA TopByte ==
  ASSUME NEW a, NEW b, NEW c, NEW d, NEW e, NEW f, NEW g, NEW h,
         a \in Nat, b \in Nat, c \in Nat, d \in Nat,
         e \in Nat, f \in Nat, g \in Nat, h \in Nat,
         Three(a, b, c, Five(d, e, f, g, h)) <= Longest
  PROVE  h = 0
<1>1. Five(d, e, f, g, h) \in Nat
  BY DEF Five
<1>2. Five(d, e, f, g, h) <= 4
  BY <1>1, SMT DEF Longest, Three
<1> QED
  BY <1>2 DEF Five

(***************************************************************************)
(* What a number below 2^26 lacks of 2^64 - 1 is more than 2^26.           *)
(***************************************************************************)
LEMMA NoOverflow ==
  ASSUME NEW w \in Words(8), NEW n \in Nat, Value(w) <= Longest, n <= Longest
  PROVE  ~ Overflows(w, n)
<1> DEFINE lack == [i \in 1..8 |-> 255 - w[i]]
<1>1. \A i \in 1..8 : 255 - w[i] \in Octet
  <2>1. w \in [1..8 -> Octet] /\ \A k \in Octet : 255 - k \in Octet
    BY DEF Words, Octet
  <2> QED
    BY <2>1
<1>2. lack \in [1..8 -> Octet]
  BY <1>1
<1>3. lack \in Words(8)
  BY <1>2 DEF Words, Octet
<1>4. \A v \in Words(8) : Value(v) <= Longest => v[8] = 0
  <2>1. SUFFICES ASSUME NEW v \in Words(8), Value(v) <= Longest PROVE v[8] = 0
    OBVIOUS
  <2>2. /\ v[1] \in Nat /\ v[2] \in Nat /\ v[3] \in Nat /\ v[4] \in Nat
        /\ v[5] \in Nat /\ v[6] \in Nat /\ v[7] \in Nat /\ v[8] \in Nat
    BY EightBytes
  <2>3. Value(v) = Three(v[1], v[2], v[3], Five(v[4], v[5], v[6], v[7], v[8]))
    BY DEF Value, Three, Five
  <2> QED
    BY <2>1, <2>2, <2>3, TopByte
<1>5. lack[8] = 255
  <2>1. w[8] = 0
    BY <1>4
  <2> QED
    BY <2>1
<1> HIDE DEF lack
<1>6. ~ (Value(lack) <= Longest) /\ Longest \in Nat
  <2>1. Longest \in Nat
    BY SMT DEF Longest
  <2> QED
    BY <1>3, <1>4, <1>5, <2>1
<1>7. ~ AtMost(lack, n - 1)
  <2>1. n - 1 \in Int
    OBVIOUS
  <2> QED
    BY <2>1, <1>3, <1>6, AtMostCompares, ValueCounts
<1> QED
  BY <1>7 DEF Overflows, lack

\* The fields of a layout lie within the first n bytes.
Within(layout, n) ==
  \A f \in DOMAIN layout :
    /\ layout[f][1] \in Nat /\ layout[f][2] \in Nat
    /\ layout[f][1] <= layout[f][2] /\ layout[f][2] <= n

(***************************************************************************)
(* The size of a layout is the end of its last field.                      *)
(***************************************************************************)
LEMMA SizeIs ==
  ASSUME NEW layout, NEW n \in 0..64, Within(layout, n), NEW l \in DOMAIN layout,
         layout[l][2] = n
  PROVE  SizeOf(layout) = n
<1>1. \A m \in 0..64 : /\ \E f \in DOMAIN layout : layout[f][2] = m
                       /\ \A f \in DOMAIN layout : layout[f][2] <= m
                       => m = n
  BY DEF Within
<1>2. \A f \in DOMAIN layout : layout[f][2] <= n
  BY DEF Within
<1> QED
  BY <1>1, <1>2 DEF SizeOf

\* The layouts of a local header have 30 bytes.
LEMMA LocalLayout ==
  /\ Within(LocalParsed, 30) /\ SizeOf(LocalParsed) = 30
  /\ Within(LocalWritten, 30) /\ SizeOf(LocalWritten) = 30
<1>1. Within(LocalParsed, 30) /\ Within(LocalWritten, 30)
  BY DEF Within, LocalParsed, LocalWritten
<1>2. /\ "extra_field_len" \in DOMAIN LocalParsed /\ LocalParsed["extra_field_len"][2] = 30
      /\ "extra_field_len" \in DOMAIN LocalWritten /\ LocalWritten["extra_field_len"][2] = 30
  BY DEF LocalParsed, LocalWritten
<1> QED
  BY <1>1, <1>2, SizeIs

\* What is cut from the front does not depend on what follows.
LEMMA CutOfFront ==
  ASSUME NEW V, NEW s \in Seq(V), NEW n \in Nat, n <= Len(s),
         NEW a, NEW b, a \in Nat, b \in Nat, a <= b, b <= n
  PROVE  Cut(Cut(s, 0, n), a, b) = Cut(s, a, b)
<1>1. PICK c \in Nat, d \in Nat : a = c /\ b = d
  OBVIOUS
<1>2. 0 \in Nat /\ 0 <= n /\ c <= d /\ 0 + d <= n /\ 0 + c = c /\ 0 + d = d
  BY <1>1
<1>3. Cut(Cut(s, 0, n), c, d) = Cut(s, 0 + c, 0 + d)
  BY <1>2, CutTwice
<1> QED
  BY <1>1, <1>2, <1>3

(***************************************************************************)
(* The fields of a record do not depend on what follows it.                *)
(***************************************************************************)
LEMMA GetOfFront ==
  ASSUME NEW V, NEW s \in Seq(V), NEW n \in Nat, n <= Len(s), NEW layout, Within(layout, n)
  PROVE  Get(layout, Cut(s, 0, n)) = Get(layout, s)
<1>1. \A f \in DOMAIN layout :
        Cut(Cut(s, 0, n), layout[f][1], layout[f][2]) = Cut(s, layout[f][1], layout[f][2])
  <2>1. SUFFICES ASSUME NEW f \in DOMAIN layout
                 PROVE  Cut(Cut(s, 0, n), layout[f][1], layout[f][2])
                          = Cut(s, layout[f][1], layout[f][2])
    OBVIOUS
  <2> DEFINE a == layout[f][1]
             b == layout[f][2]
  <2>2. a \in Nat /\ b \in Nat /\ a <= b /\ b <= n
    BY DEF Within
  <2> HIDE DEF a, b
  <2>3. Cut(Cut(s, 0, n), a, b) = Cut(s, a, b)
    BY <2>2, CutOfFront
  <2> QED
    BY <2>3 DEF a, b
<1> QED
  BY <1>1 DEF Get

\* What a descriptor says, behind its signature.
Tells(body, width) ==
  [crc |-> Cut(body, 0, 4), compressed_size |-> Widen(Cut(body, 4, 4 + width)),
   uncompressed_size |-> Widen(Cut(body, 4 + width, 4 + 2 * width))]

\* Two sequences have their first n elements in common.
Alike(t, s, n) ==
  /\ n <= Len(t) /\ n <= Len(s)
  /\ \A c \in Nat, d \in Nat : c <= d /\ d <= n => Cut(t, c, d) = Cut(s, c, d)

\* Two sequences alike are so behind their first elements.
LEMMA AlikeFrom ==
  ASSUME NEW V, NEW s \in Seq(V), NEW t \in Seq(V), Alike(t, s, 24)
  PROVE  /\ Alike(From(t, 4), From(s, 4), 20)
         /\ From(t, 4) \in Seq(V) /\ From(s, 4) \in Seq(V)
<1>1. Len(s) \in Nat /\ Len(t) \in Nat /\ Len(s) >= 24 /\ Len(t) >= 24
  BY DEF Alike
<1>2. From(t, 4) = Cut(t, 4, Len(t)) /\ From(s, 4) = Cut(s, 4, Len(s))
  BY FromIsCut
<1>3. \A u \in Seq(V) : Len(u) \in Nat /\ Len(u) >= 24 =>
        /\ Cut(u, 4, Len(u)) \in Seq(V) /\ Len(Cut(u, 4, Len(u))) >= 20
        /\ \A c \in Nat, d \in Nat : c <= d /\ d <= 20 =>
             Cut(Cut(u, 4, Len(u)), c, d) = Cut(u, 4 + c, 4 + d)
  <2>1. SUFFICES ASSUME NEW u \in Seq(V), NEW n \in Nat, n = Len(u), n >= 24
                 PROVE  /\ Cut(u, 4, n) \in Seq(V) /\ Len(Cut(u, 4, n)) >= 20
                        /\ \A c \in Nat, d \in Nat : c <= d /\ d <= 20 =>
                             Cut(Cut(u, 4, n), c, d) = Cut(u, 4 + c, 4 + d)
    OBVIOUS
  <2>2. 4 \in Nat /\ 4 <= n /\ n <= Len(u) /\ n - 4 >= 20
    BY <2>1
  <2>3. Cut(u, 4, n) \in Seq(V) /\ Len(Cut(u, 4, n)) = n - 4
    BY <2>1, <2>2, CutBounds
  <2>4. ASSUME NEW c \in Nat, NEW d \in Nat, c <= d, d <= 20
        PROVE  Cut(Cut(u, 4, n), c, d) = Cut(u, 4 + c, 4 + d)
    <3>1. 4 + d <= n /\ c \in Nat /\ d \in Nat
      BY <2>1, <2>4
    <3>2. \A k \in Nat : k <= n /\ k + d <= n =>
            Cut(Cut(u, k, n), c, d) = Cut(u, k + c, k + d)
      BY <2>2, <2>4, CutOfCut
    <3> QED
      BY <2>2, <3>1, <3>2
  <2> QED
    BY <2>2, <2>3, <2>4
<1>4. \A c \in Nat, d \in Nat : c <= d /\ d <= 20 =>
        Cut(From(t, 4), c, d) = Cut(From(s, 4), c, d)
  <2>1. SUFFICES ASSUME NEW c \in Nat, NEW d \in Nat, c <= d, d <= 20
                 PROVE  Cut(From(t, 4), c, d) = Cut(From(s, 4), c, d)
    OBVIOUS
  <2>2. 4 + c \in Nat /\ 4 + d \in Nat /\ 4 + c <= 4 + d /\ 4 + d <= 24
    BY <2>1
  <2>3. Cut(t, 4 + c, 4 + d) = Cut(s, 4 + c, 4 + d)
    BY <2>2 DEF Alike
  <2> QED
    BY <1>1, <1>2, <1>3, <2>1, <2>3
<1> QED
  BY <1>1, <1>2, <1>3, <1>4 DEF Alike

\* Two sequences alike in 20 bytes have the same numbers of a descriptor.
LEMMA AlikeTells ==
  ASSUME NEW V, NEW s \in Seq(V), NEW t \in Seq(V), NEW width \in {4, 8}, Alike(t, s, 20)
  PROVE  /\ Tells(t, width) = Tells(s, width)
         /\ ~ Len(t) < 4 + 2 * width /\ ~ Len(s) < 4 + 2 * width
<1>1. /\ 0 \in Nat /\ 4 \in Nat /\ 4 + width \in Nat /\ 4 + 2 * width \in Nat
      /\ 0 <= 4 /\ 4 <= 4 + width /\ 4 + width <= 4 + 2 * width
      /\ 4 <= 20 /\ 4 + width <= 20 /\ 4 + 2 * width <= 20
  OBVIOUS
<1>2. /\ Cut(t, 0, 4) = Cut(s, 0, 4)
      /\ Cut(t, 4, 4 + width) = Cut(s, 4, 4 + width)
      /\ Cut(t, 4 + width, 4 + 2 * width) = Cut(s, 4 + width, 4 + 2 * width)
  BY <1>1 DEF Alike
<1>3. Len(t) \in Nat /\ Len(s) \in Nat /\ 20 <= Len(t) /\ 20 <= Len(s)
  BY DEF Alike
<1> QED
  BY <1>1, <1>2, <1>3 DEF Tells

(***************************************************************************)
(* A descriptor does not depend on what follows its longest form.          *)
(***************************************************************************)
LEMMA AlikeDescriptors ==
  ASSUME NEW V, NEW s \in Seq(V), NEW t \in Seq(V), Alike(t, s, 24), NEW wide
  PROVE  ParseDescriptor(t, wide) = ParseDescriptor(s, wide)
<1> DEFINE width == IF wide THEN 8 ELSE 4
           signed(u) == Len(u) >= 4 /\ Cut(u, 0, 4) = DescriptorSignature
           body(u) == IF signed(u) THEN From(u, 4) ELSE u
<1>1. width \in {4, 8}
  OBVIOUS
<1>2. \A u : ParseDescriptor(u, wide) =
               IF Len(body(u)) < 4 + 2 * width THEN {} ELSE {Tells(body(u), width)}
  BY DEF ParseDescriptor, Tells
<1> HIDE DEF width
<1>3. signed(t) <=> signed(s)
  <2>1. 0 \in Nat /\ 4 \in Nat /\ 0 <= 4 /\ 4 <= 24
    OBVIOUS
  <2>2. Cut(t, 0, 4) = Cut(s, 0, 4)
    BY <2>1 DEF Alike
  <2>3. Len(t) \in Nat /\ Len(s) \in Nat /\ 24 <= Len(t) /\ 24 <= Len(s)
    BY DEF Alike
  <2> QED
    BY <2>2, <2>3
<1>4. /\ Alike(body(t), body(s), 20)
      /\ body(t) \in Seq(V) /\ body(s) \in Seq(V)
  <2>1. CASE signed(s)
    <3>1. body(t) = From(t, 4) /\ body(s) = From(s, 4)
      BY <1>3, <2>1
    <3> QED
      BY <3>1, AlikeFrom
  <2>2. CASE ~ signed(s)
    <3>1. body(t) = t /\ body(s) = s
      BY <1>3, <2>2
    <3>2. Alike(t, s, 20)
      <4>1. /\ Len(t) \in Nat /\ Len(s) \in Nat /\ 24 <= Len(t) /\ 24 <= Len(s)
            /\ \A c \in Nat, d \in Nat : c <= d /\ d <= 24 => Cut(t, c, d) = Cut(s, c, d)
        BY DEF Alike
      <4> QED
        BY <4>1 DEF Alike
    <3> QED
      BY <3>1, <3>2
  <2> QED
    BY <2>1, <2>2
<1> HIDE DEF body
<1>5. /\ Tells(body(t), width) = Tells(body(s), width)
      /\ ~ Len(body(t)) < 4 + 2 * width /\ ~ Len(body(s)) < 4 + 2 * width
  BY <1>1, <1>4, AlikeTells
<1> QED
  BY <1>2, <1>5

LEMMA DescriptorOfFront ==
  ASSUME NEW V, NEW s \in Seq(V), NEW n \in Nat, n <= Len(s), n >= 24 \/ n = Len(s), NEW wide
  PROVE  ParseDescriptor(Cut(s, 0, n), wide) = ParseDescriptor(s, wide)
<1> DEFINE t == Cut(s, 0, n)
<1>1. t \in Seq(V) /\ Len(t) = n /\ \A i \in 1..n : t[i] = s[0 + i]
  <2>1. 0 \in Nat /\ n - 0 = n /\ 0 <= n
    OBVIOUS
  <2>2. /\ t \in Seq(V) /\ Len(t) = n - 0
        /\ \A i \in 1..(n - 0) : t[i] = s[0 + i]
    BY <2>1, CutBounds
  <2> HIDE DEF t
  <2> QED
    BY <2>1, <2>2
<1>2. CASE n = Len(s)
  <2>1. t = s
    <3>1. \A i \in 1..n : t[i] = s[i]
      BY <1>1
    <3> QED
      BY <1>1, <1>2, <3>1, SeqEqual
  <2> QED
    BY <2>1
<1>3. CASE n >= 24
  <2>1. \A c \in Nat, d \in Nat : c <= d /\ d <= 24 => Cut(t, c, d) = Cut(s, c, d)
    BY <1>3, CutOfFront
  <2> HIDE DEF t
  <2>2. 24 <= Len(t) /\ 24 <= Len(s)
    BY <1>1, <1>3
  <2>3. Alike(t, s, 24)
    BY <2>1, <2>2 DEF Alike
  <2>4. ParseDescriptor(t, wide) = ParseDescriptor(s, wide)
    BY <1>1, <2>3, AlikeDescriptors
  <2> QED
    BY <2>4 DEF t
<1> QED
  BY <1>2, <1>3

(***************************************************************************)
(* The file and what is known of the entry are bytes.                      *)
(***************************************************************************)
ViewsInv ==
  /\ bytes \in Seq(Octet) /\ Len(bytes) <= Longest
  /\ wayfinder.compressed_size \in Words(8)
  /\ wayfinder.local_header_offset \in Words(8)

\* Where both views look for the entry, and what they find.
HeaderStart == Behind(0, wayfinder.local_header_offset)
HeaderBytes == From(bytes, HeaderStart)
LocalFixed == Get(LocalParsed, HeaderBytes)
BodyStart == 30 + VariableLength(LocalFixed)

\* min(data.len()): a position that lies in the file is kept.
LEMMA BehindIs ==
  ASSUME ViewsInv, NEW w, w \in Words(8), NEW n, n \in Nat, n <= Len(bytes)
  PROVE  /\ Behind(n, w) \in Nat /\ Behind(n, w) <= Len(bytes)
         /\ Value(w) <= Len(bytes) - n => Behind(n, w) = n + Value(w)
<1>1. Len(bytes) \in Nat
  BY DEF ViewsInv
<1>2. Len(bytes) - n \in Int
  BY <1>1
<1>3. AtMost(w, Len(bytes) - n) <=> Value(w) <= Len(bytes) - n
  BY <1>2, AtMostCompares
<1>4. Value(w) \in Nat
  BY ValueCounts
<1> QED
  BY <1>1, <1>3, <1>4 DEF Behind

\* From the start of the header on, the slice has the rest of the file.
LEMMA HeaderFound ==
  ASSUME ViewsInv
  PROVE  /\ HeaderStart \in Nat /\ HeaderStart <= Len(bytes)
         /\ HeaderBytes = Cut(bytes, HeaderStart, Len(bytes))
         /\ HeaderBytes \in Seq(Octet) /\ Len(HeaderBytes) = Len(bytes) - HeaderStart
<1>1. bytes \in Seq(Octet) /\ Len(bytes) \in Nat /\ 0 \in Nat /\ 0 <= Len(bytes)
  BY DEF ViewsInv
<1>2. HeaderStart \in Nat /\ HeaderStart <= Len(bytes)
  BY <1>1, BehindIs DEF HeaderStart, ViewsInv
<1>3. HeaderBytes = Cut(bytes, HeaderStart, Len(bytes))
  BY FromIsCut DEF HeaderBytes
<1>4. /\ Cut(bytes, HeaderStart, Len(bytes)) \in Seq(Octet)
      /\ Len(Cut(bytes, HeaderStart, Len(bytes))) = Len(bytes) - HeaderStart
  BY <1>1, <1>2, CutBounds
<1> QED
  BY <1>2, <1>3, <1>4

LEMMA OctetCounts == \A o \in Octet : o \in Nat /\ o <= 255
BY DEF Octet

\* Two bytes are a number.
LEMMA LeU16Counts ==
  ASSUME NEW s \in Seq(Octet), Len(s) = 2
  PROVE  LeU16(s, 1) \in Nat
<1>1. 1 \in 1..Len(s) /\ 2 \in 1..Len(s)
  BY SMT
<1>2. s[1] \in Octet /\ s[2] \in Octet
  BY <1>1, ElementOfSeq
<1>3. s[1] \in Nat /\ s[2] \in Nat
  BY <1>2, OctetCounts
<1>4. 1 + 1 = 2
  OBVIOUS
<1> QED
  BY <1>3, <1>4 DEF LeU16

\* The length of what is variable in a local header is a number.
LEMMA VariableCounts ==
  ASSUME NEW s \in Seq(Octet), Len(s) >= 30
  PROVE  VariableLength(Get(LocalParsed, s)) \in Nat
<1>2. /\ Cut(s, 26, 28) \in Seq(Octet) /\ Len(Cut(s, 26, 28)) = 2
      /\ Cut(s, 28, 30) \in Seq(Octet) /\ Len(Cut(s, 28, 30)) = 2
  BY DEF Cut
<1>3. /\ Get(LocalParsed, s).file_name_len = Cut(s, 26, 28)
      /\ Get(LocalParsed, s).extra_field_len = Cut(s, 28, 30)
  BY DEF Get, LocalParsed
<1>4. LeU16(Cut(s, 26, 28), 1) \in Nat /\ LeU16(Cut(s, 28, 30), 1) \in Nat
  BY <1>2, LeU16Counts
<1> QED
  BY <1>3, <1>4 DEF VariableLength

(***************************************************************************)
(* The 30 bytes that the reader takes are those the slice begins with.     *)
(***************************************************************************)
LEMMA SameHeader ==
  ASSUME ViewsInv, HeaderStart + 30 <= Len(bytes)
  PROVE  LET s == Cut(bytes, HeaderStart, HeaderStart + 30)
         IN  /\ s = Cut(HeaderBytes, 0, 30)
             /\ Get(LocalParsed, s) = LocalFixed
             /\ LocalReadable(s) <=> LocalReadable(HeaderBytes)
<1> DEFINE s == Cut(bytes, HeaderStart, HeaderStart + 30)
<1>1. /\ HeaderStart \in Nat /\ HeaderStart <= Len(bytes) /\ Len(bytes) \in Nat
      /\ HeaderBytes = Cut(bytes, HeaderStart, Len(bytes))
      /\ HeaderBytes \in Seq(Octet) /\ Len(HeaderBytes) = Len(bytes) - HeaderStart
      /\ bytes \in Seq(Octet)
  BY HeaderFound DEF ViewsInv
<1>2. s = Cut(HeaderBytes, 0, 30)
  <2>1. /\ 0 \in Nat /\ 30 \in Nat /\ 0 <= 30 /\ HeaderStart + 0 = HeaderStart
        /\ Len(bytes) <= Len(bytes)
    BY <1>1
  <2>2. bytes \in Seq(Octet) /\ HeaderStart \in Nat /\ Len(bytes) \in Nat
        /\ HeaderStart <= Len(bytes)
    BY <1>1
  <2>3. Cut(Cut(bytes, HeaderStart, Len(bytes)), 0, 30)
          = Cut(bytes, HeaderStart + 0, HeaderStart + 30)
    BY <2>1, <2>2, CutTwice
  <2> QED
    BY <1>1, <2>1, <2>3
<1>3. 30 <= Len(HeaderBytes) /\ 30 \in Nat
  BY <1>1
<1>4. Get(LocalParsed, s) = LocalFixed
  BY <1>1, <1>2, <1>3, LocalLayout, GetOfFront DEF LocalFixed
<1>5. Cut(s, 0, 4) = Cut(HeaderBytes, 0, 4)
  <2>1. 0 \in Nat /\ 4 \in Nat /\ 0 <= 4 /\ 4 <= 30
    OBVIOUS
  <2> QED
    BY <1>1, <1>2, <1>3, <2>1, CutOfFront
<1>6. Len(s) = 30
  <2>1. bytes \in Seq(Octet) /\ HeaderStart \in Nat
    BY <1>1
  <2> QED
    BY <2>1 DEF Cut
<1>7. LocalReadable(s) <=> LocalReadable(HeaderBytes)
  <2> HIDE DEF s
  <2>1. Len(s) >= 30 /\ Len(HeaderBytes) >= 30
    <3>1. Len(s) >= 30
      BY <1>6
    <3> QED
      BY <3>1, <1>3
  <2> QED
    BY <1>5, <2>1, LocalLayout DEF LocalReadable, Readable
<1> QED
  BY <1>2, <1>4, <1>7

\* Both views find the data at the same place, or neither finds a header.
LEMMA ReaderBodyIs ==
  ASSUME ViewsInv
  PROVE  ReaderBody = IF LocalReadable(HeaderBytes) THEN {HeaderStart + BodyStart} ELSE {}
<1> DEFINE s == Cut(bytes, HeaderStart, HeaderStart + 30)
<1>1. /\ HeaderStart \in Nat /\ Len(bytes) \in Nat
      /\ Len(HeaderBytes) = Len(bytes) - HeaderStart
  BY HeaderFound DEF ViewsInv
<1>2. ReaderBody = {HeaderStart + 30 + VariableLength(Get(LocalParsed, u)) :
                      u \in {t \in ReadExactAt(HeaderStart, 30) : LocalReadable(t)}}
  BY LocalLayout DEF ReaderBody, HeaderStart
<1>3. CASE HeaderStart + 30 <= Len(bytes)
  <2>1. ReadExactAt(HeaderStart, 30) = {s}
    BY <1>3 DEF ReadExactAt
  <2>2. Get(LocalParsed, s) = LocalFixed /\ (LocalReadable(s) <=> LocalReadable(HeaderBytes))
    BY <1>3, SameHeader
  <2>3. LocalReadable(HeaderBytes) => VariableLength(LocalFixed) \in Nat
    <3>1. Len(HeaderBytes) >= 30 /\ HeaderBytes \in Seq(Octet)
      BY <1>1, <1>3, HeaderFound
    <3> QED
      BY <3>1, VariableCounts DEF LocalFixed
  <2>4. LocalReadable(HeaderBytes) =>
          HeaderStart + 30 + VariableLength(LocalFixed) = HeaderStart + BodyStart
    BY <1>1, <2>3 DEF BodyStart
  <2> HIDE DEF s
  <2> QED
    BY <1>2, <2>1, <2>2, <2>4
<1>4. CASE ~ (HeaderStart + 30 <= Len(bytes))
  <2>1. ReadExactAt(HeaderStart, 30) = {}
    BY <1>4 DEF ReadExactAt
  <2>2. ~ LocalReadable(HeaderBytes)
    BY <1>1, <1>4, LocalLayout DEF LocalReadable, Readable
  <2> QED
    BY <1>2, <2>1, <2>2
<1> QED
  BY <1>3, <1>4

\* How long the rest is behind a position, and what is cut from it.
LEMMA FromBounds ==
  ASSUME NEW V, NEW s \in Seq(V), NEW a, a \in Nat, a <= Len(s)
  PROVE  From(s, a) \in Seq(V) /\ Len(From(s, a)) = Len(s) - a
<1>1. Len(s) \in Nat
  OBVIOUS
<1>2. PICK n \in Nat : n = Len(s)
  BY <1>1
<1>3. n <= Len(s)
  BY <1>2
<1>4. Cut(s, a, n) \in Seq(V) /\ Len(Cut(s, a, n)) = n - a
  BY <1>2, <1>3, CutBounds
<1> QED
  BY <1>2, <1>4, FromIsCut

LEMMA CutOfFrom ==
  ASSUME NEW V, NEW s \in Seq(V), NEW a, NEW c, NEW d, a \in Nat, c \in Nat, d \in Nat,
         c <= d, a + d <= Len(s)
  PROVE  Cut(From(s, a), c, d) = Cut(s, a + c, a + d)
<1>1. Len(s) \in Nat
  OBVIOUS
<1>2. PICK n : n = Len(s)
  OBVIOUS
<1>3. n \in Nat /\ n <= Len(s) /\ a + d <= n /\ a <= n
  BY <1>1, <1>2
<1>4. Cut(Cut(s, a, n), c, d) = Cut(s, a + c, a + d)
  BY <1>3, CutTwice
<1> QED
  BY <1>2, <1>4, FromIsCut

LEMMA FromOfFrom ==
  ASSUME NEW V, NEW s \in Seq(V), NEW a, NEW c, a \in Nat, c \in Nat, a + c <= Len(s)
  PROVE  From(From(s, a), c) = From(s, a + c)
<1>1. Len(s) \in Nat /\ a <= Len(s)
  OBVIOUS
<1>2. From(s, a) \in Seq(V) /\ Len(From(s, a)) = Len(s) - a
  BY <1>1, FromBounds
<1>3. PICK n \in Nat : n = Len(s) - a
  BY <1>1
<1>4. c <= n /\ a + n <= Len(s)
  BY <1>1, <1>3
<1>5. Cut(From(s, a), c, n) = Cut(s, a + c, a + n)
  BY <1>4, CutOfFrom
<1>6. a + n = Len(s)
  BY <1>1, <1>3
<1> QED
  BY <1>2, <1>3, <1>5, <1>6, FromIsCut

\* What the slice says of the entry.
SliceSays ==
  [local |-> LocalView(LocalFixed, Cut(HeaderBytes, 30, BodyStart)),
   range |-> <<HeaderStart + BodyStart,
               HeaderStart + (BodyStart + Value(wayfinder.compressed_size))>>,
   descriptor |->
     IF wayfinder.has_data_descriptor
     THEN ParseDescriptor(From(HeaderBytes, BodyStart + Value(wayfinder.compressed_size)),
                          wayfinder.data_descriptor_uses_zip64_sizes)
     ELSE NoDescriptor]

\* The slice gives the entry if its header is there and its data is.
LEMMA SliceIs ==
  SliceView = IF /\ LocalReadable(HeaderBytes)
                 /\ AtMost(wayfinder.compressed_size, Len(HeaderBytes) - BodyStart)
              THEN {SliceSays} ELSE {}
BY LocalLayout DEF SliceView, SliceSays, HeaderStart, HeaderBytes, LocalFixed, BodyStart

\* What the slice gives lies in the file.
LEMMA SliceHolds ==
  ASSUME ViewsInv, LocalReadable(HeaderBytes)
  PROVE  /\ Len(HeaderBytes) - 30 \in Nat /\ VariableLength(LocalFixed) \in Nat
         /\ BodyStart \in Nat /\ HeaderStart + 30 <= Len(bytes)
         /\ HeaderStart \in Nat /\ Len(bytes) \in Nat /\ bytes \in Seq(Octet)
         /\ HeaderBytes \in Seq(Octet) /\ Len(HeaderBytes) = Len(bytes) - HeaderStart
         /\ Value(wayfinder.compressed_size) \in Nat
         /\ AtMost(wayfinder.compressed_size, Len(HeaderBytes) - BodyStart) <=>
              HeaderStart + BodyStart + Value(wayfinder.compressed_size) <= Len(bytes)
<1>1. /\ HeaderStart \in Nat /\ Len(bytes) \in Nat /\ bytes \in Seq(Octet)
      /\ HeaderBytes \in Seq(Octet) /\ Len(HeaderBytes) = Len(bytes) - HeaderStart
  BY HeaderFound DEF ViewsInv
<1>2. Len(HeaderBytes) >= 30
  BY LocalLayout DEF LocalReadable, Readable
<1>3. VariableLength(LocalFixed) \in Nat
  BY <1>1, <1>2, VariableCounts DEF LocalFixed
<1>4. BodyStart \in Nat
  BY <1>3 DEF BodyStart
<1>5. Value(wayfinder.compressed_size) \in Nat
  BY ValueCounts DEF ViewsInv
<1>6. AtMost(wayfinder.compressed_size, Len(HeaderBytes) - BodyStart) <=>
        Value(wayfinder.compressed_size) <= Len(HeaderBytes) - BodyStart
  <2>1. Len(HeaderBytes) - BodyStart \in Int
    BY <1>1, <1>4
  <2> QED
    BY <2>1, AtMostCompares DEF ViewsInv
<1> QED
  BY <1>1, <1>2, <1>3, <1>4, <1>5, <1>6

(***************************************************************************)
(* What the slice gives, the reader gives.                                 *)
(***************************************************************************)
LEMMA ReaderDescribes ==
  ASSUME ViewsInv, LocalReadable(HeaderBytes),
         AtMost(wayfinder.compressed_size, Len(HeaderBytes) - BodyStart)
  PROVE  ReaderDescriptor = SliceSays.descriptor
<1> DEFINE body == HeaderStart + BodyStart
           end == body + Value(wayfinder.compressed_size)
           upTo == IF end + 24 <= Len(bytes) THEN end + 24 ELSE Len(bytes)
           wide == wayfinder.data_descriptor_uses_zip64_sizes
           rest == From(HeaderBytes, BodyStart + Value(wayfinder.compressed_size))
<1>1. /\ BodyStart \in Nat /\ HeaderStart \in Nat /\ Len(bytes) \in Nat
      /\ bytes \in Seq(Octet) /\ HeaderStart + 30 <= Len(bytes)
      /\ Len(HeaderBytes) = Len(bytes) - HeaderStart
      /\ Value(wayfinder.compressed_size) \in Nat /\ end <= Len(bytes)
  BY SliceHolds
<1>2. end \in Nat /\ body \in Nat /\ body <= Len(bytes)
  BY <1>1
<1>3. Behind(body, wayfinder.compressed_size) = end
  <2>1. Value(wayfinder.compressed_size) <= Len(bytes) - body
    BY <1>1, <1>2
  <2> HIDE DEF body
  <2> QED
    BY <1>2, <2>1, BehindIs DEF ViewsInv, body
<1>4. rest = From(bytes, end)
  <2> DEFINE k == BodyStart + Value(wayfinder.compressed_size)
  <2>1. k \in Nat /\ HeaderStart + k <= Len(bytes) /\ HeaderStart + k = end
    BY <1>1, <1>2
  <2> HIDE DEF k, end
  <2>2. From(From(bytes, HeaderStart), k) = From(bytes, HeaderStart + k)
    BY <1>1, <2>1, FromOfFrom
  <2> QED
    BY <2>1, <2>2 DEF HeaderBytes, k
<1>5. ParseDescriptor(Cut(bytes, end, upTo), wide) = ParseDescriptor(rest, wide)
  <2> HIDE DEF end, rest, wide
  <2>1. /\ upTo \in Nat /\ end <= upTo /\ upTo <= Len(bytes)
        /\ upTo - end >= 24 \/ upTo = Len(bytes)
    BY <1>1, <1>2
  <2> HIDE DEF upTo
  <2>2. rest \in Seq(Octet) /\ Len(rest) = Len(bytes) - end
    BY <1>1, <1>2, <1>4, FromBounds
  <2> DEFINE n == upTo - end
  <2>3. /\ n \in Nat /\ n <= Len(rest) /\ (n >= 24 \/ n = Len(rest))
        /\ end + n = upTo /\ end + 0 = end
    BY <1>1, <1>2, <2>1, <2>2
  <2>4. Cut(rest, 0, n) = Cut(bytes, end, upTo)
    <3>1. 0 \in Nat /\ 0 <= n /\ end + n <= Len(bytes)
      BY <1>1, <2>1, <2>3
    <3> HIDE DEF n
    <3>2. Cut(From(bytes, end), 0, n) = Cut(bytes, end + 0, end + n)
      BY <1>1, <1>2, <2>3, <3>1, CutOfFrom
    <3> QED
      BY <1>4, <2>3, <3>2
  <2> HIDE DEF n
  <2>5. ParseDescriptor(Cut(rest, 0, n), wide) = ParseDescriptor(rest, wide)
    BY <2>2, <2>3, DescriptorOfFront
  <2> QED
    BY <2>4, <2>5
<1>6. ReaderBody = {body}
  BY ReaderBodyIs
<1>7. DescriptorAt(end) = ParseDescriptor(Cut(bytes, end, upTo), wide)
  BY DEF DescriptorAt
<1>8. ReaderDescriptor = IF wayfinder.has_data_descriptor THEN DescriptorAt(end)
                                                          ELSE NoDescriptor
  <2> HIDE DEF body, end
  <2>1. UNION {DescriptorAt(Behind(b, wayfinder.compressed_size)) : b \in {body}}
          = DescriptorAt(end)
    BY <1>3
  <2> QED
    BY <1>6, <2>1 DEF ReaderDescriptor
<1>9. SliceSays.descriptor = IF wayfinder.has_data_descriptor
                             THEN ParseDescriptor(rest, wide) ELSE NoDescriptor
  BY DEF SliceSays
<1> HIDE DEF end, upTo, wide, rest
<1> QED
  BY <1>5, <1>7, <1>8, <1>9

\* With a large enough buffer a reader's local header is the slice's.
LEMMA ReaderGivesLocal ==
  ASSUME ViewsInv, LocalReadable(HeaderBytes),
         AtMost(wayfinder.compressed_size, Len(HeaderBytes) - BodyStart), NEW buffer
  PROVE  ReaderLocal(buffer) = IF buffer < VariableLength(LocalFixed)
                               THEN {} ELSE {SliceSays.local}
<1> DEFINE length == VariableLength(LocalFixed)
           first == HeaderStart + 30
<1>1. /\ length \in Nat /\ HeaderStart \in Nat /\ Len(bytes) \in Nat
      /\ HeaderStart + BodyStart <= Len(bytes) /\ bytes \in Seq(Octet)
      /\ HeaderStart + 30 <= Len(bytes)
  BY SliceHolds
<1>2. BodyStart = 30 + length
  BY DEF BodyStart
<1>3. Get(LocalParsed, Cut(bytes, HeaderStart, HeaderStart + 30)) = LocalFixed
  BY <1>1, SameHeader
<1>4. ReaderLocal(buffer) = IF buffer < length THEN {}
                            ELSE {LocalView(LocalFixed, s) : s \in ReadExactAt(first, length)}
  <2> HIDE DEF length
  <2> QED
    BY <1>3, LocalLayout DEF ReaderLocal, HeaderStart, length
<1>5. ReadExactAt(first, length) = {Cut(bytes, first, first + length)}
  <2>1. first + length <= Len(bytes)
    BY <1>1, <1>2
  <2> HIDE DEF first, length
  <2> QED
    BY <2>1 DEF ReadExactAt
<1>6. Cut(bytes, first, first + length) = Cut(HeaderBytes, 30, BodyStart)
  <2>1. /\ 30 \in Nat /\ BodyStart \in Nat /\ 30 <= BodyStart
        /\ HeaderStart + BodyStart = first + length
    BY <1>1, <1>2
  <2> HIDE DEF length
  <2>2. Cut(From(bytes, HeaderStart), 30, BodyStart)
          = Cut(bytes, HeaderStart + 30, HeaderStart + BodyStart)
    BY <1>1, <2>1, CutOfFrom
  <2> QED
    BY <2>1, <2>2 DEF HeaderBytes
<1>7. SliceSays.local = LocalView(LocalFixed, Cut(HeaderBytes, 30, BodyStart))
  BY DEF SliceSays
<1> HIDE DEF first, length
<1>8. {LocalView(LocalFixed, s) : s \in ReadExactAt(first, length)} = {SliceSays.local}
  BY <1>5, <1>6, <1>7
<1> QED
  BY <1>4, <1>8 DEF length

\* Of any file of bytes the two views say the same.
LEMMA ViewsDoAgree == ViewsInv => ViewsAgree
<1> SUFFICES ASSUME ViewsInv PROVE ViewsAgree
  OBVIOUS
<1> DEFINE body == HeaderStart + BodyStart
<1>1. ASSUME NEW v \in SliceView
      PROVE  /\ ReaderOpens /\ ReaderBody = {v.range[1]}
             /\ v.range[2] = v.range[1] + Value(wayfinder.compressed_size)
             /\ ReaderDescriptor = v.descriptor
             /\ \A buffer \in Buffers :
                  ReaderLocal(buffer) = IF buffer < VariableLength(v.local.header)
                                        THEN {} ELSE {v.local}
  <2>1. /\ v = SliceSays /\ LocalReadable(HeaderBytes)
        /\ AtMost(wayfinder.compressed_size, Len(HeaderBytes) - BodyStart)
    BY <1>1, SliceIs
  <2>2. /\ HeaderStart \in Nat /\ BodyStart \in Nat /\ Len(bytes) \in Nat
        /\ Value(wayfinder.compressed_size) \in Nat
        /\ HeaderStart + BodyStart + Value(wayfinder.compressed_size) <= Len(bytes)
    BY <2>1, SliceHolds
  <2>3. v.range[1] = body /\ v.range[2] = body + Value(wayfinder.compressed_size)
    BY <2>1, <2>2 DEF SliceSays
  <2>4. ReaderBody = {body}
    BY <2>1, ReaderBodyIs
  <2>5. ReaderOpens
    <3>1. Longest \in Nat
      BY DEF Longest
    <3>2. body \in Nat /\ body <= Longest /\ Value(wayfinder.compressed_size) <= Longest
      BY <2>2, <3>1 DEF ViewsInv
    <3> HIDE DEF body
    <3>3. ~ Overflows(wayfinder.compressed_size, body)
      BY <3>2, NoOverflow DEF ViewsInv
    <3> QED
      BY <2>4, <3>3 DEF ReaderOpens
  <2>6. ReaderDescriptor = v.descriptor
    BY <2>1, ReaderDescribes
  <2>7. v.local.header = LocalFixed
    BY <2>1 DEF SliceSays, LocalView
  <2>8. \A buffer \in Buffers :
          ReaderLocal(buffer) = IF buffer < VariableLength(v.local.header)
                                THEN {} ELSE {v.local}
    BY <2>1, <2>7, ReaderGivesLocal
  <2> HIDE DEF body
  <2> QED
    BY <2>3, <2>4, <2>5, <2>6, <2>8
<1>2. ASSUME SliceView = {}, NEW b \in ReaderBody
      PROVE  ~ AtMost(wayfinder.compressed_size, Len(bytes) - b)
  <2>1. LocalReadable(HeaderBytes) /\ b = body
    BY <1>2, ReaderBodyIs
  <2>2. ~ AtMost(wayfinder.compressed_size, Len(HeaderBytes) - BodyStart)
    BY <1>2, <2>1, SliceIs
  <2>3. /\ HeaderStart \in Nat /\ BodyStart \in Nat /\ Len(bytes) \in Nat
        /\ Len(HeaderBytes) = Len(bytes) - HeaderStart
    BY <2>1, SliceHolds
  <2>4. Len(HeaderBytes) - BodyStart = Len(bytes) - body
    BY <2>3
  <2> QED
    BY <2>1, <2>2, <2>4
<1> HIDE DEF body
<1> QED
  BY <1>1, <1>2 DEF ViewsAgree

\* What the writer writes for a number are bytes.
LEMMA ZerosAre ==
  ASSUME NEW n \in Nat
  PROVE  Zeros(n) \in Seq(Octet) /\ Len(Zeros(n)) = n
<1>1. 0 \in Octet
  BY DEF Octet
<1> QED
  BY <1>1 DEF Zeros

LEMMA LeIs ==
  ASSUME NEW number \in Nat, NEW n \in Nat
  PROVE  Le(number, n) \in Seq(Octet) /\ Len(Le(number, n)) = n
<1>1. \A m \in Nat : m % 256 \in Octet
  BY DEF Octet
<1>2. number \div 256 \in Nat /\ number \div 65536 \in Nat
  BY SMT
<1>3. 0 \in Octet
  BY DEF Octet
<1>4. ASSUME NEW i \in 1..n
      PROVE  (CASE i = 1 -> number % 256
                [] i = 2 -> (number \div 256) % 256
                [] i = 3 -> (number \div 65536) % 256
                [] OTHER -> 0) \in Octet
  BY <1>1, <1>2, <1>3
<1> QED
  BY <1>4 DEF Le

\* Every byte of n belongs to a field, and no byte to two.
Tiles(layout, n) ==
  /\ n \in Nat /\ SizeOf(layout) = n
  /\ \A i \in 1..n : \E f \in DOMAIN layout : layout[f][1] < i /\ i <= layout[f][2]
  /\ \A f \in DOMAIN layout :
       layout[f][1] \in Nat /\ layout[f][2] \in Nat /\ layout[f][1] <= layout[f][2]
         /\ layout[f][2] <= n
  /\ \A f, g \in DOMAIN layout :
       f = g \/ layout[f][2] <= layout[g][1] \/ layout[g][2] <= layout[f][1]

\* Every field of the header has the length the layout gives it.
Fills(layout, header) ==
  \A f \in DOMAIN layout :
    header[f] \in Seq(Octet) /\ Len(header[f]) = layout[f][2] - layout[f][1]

(***************************************************************************)
(* What is put into a layout's places is found there: no field overwrites  *)
(* another's bytes, and the buffer has no byte more.                       *)
(***************************************************************************)
LEMMA PutIs ==
  ASSUME NEW layout, NEW n, Tiles(layout, n), NEW header, Fills(layout, header)
  PROVE  /\ Put(layout, header) \in Seq(Octet) /\ Len(Put(layout, header)) = n
         /\ \A f \in DOMAIN layout :
              Cut(Put(layout, header), layout[f][1], layout[f][2]) = header[f]
<1> DEFINE field(i) == CHOOSE f \in DOMAIN layout : layout[f][1] < i /\ i <= layout[f][2]
           s == Put(layout, header)
<1>1. n \in Nat /\ s = [i \in 1..n |-> header[field(i)][i - layout[field(i)][1]]]
  BY DEF Put, Tiles
<1>2. ASSUME NEW i \in 1..n
      PROVE  field(i) \in DOMAIN layout /\ layout[field(i)][1] < i /\ i <= layout[field(i)][2]
  <2>1. \E f \in DOMAIN layout : layout[f][1] < i /\ i <= layout[f][2]
    BY DEF Tiles
  <2> QED
    BY <2>1
<1>3. ASSUME NEW i \in 1..n, NEW f \in DOMAIN layout, layout[f][1] < i, i <= layout[f][2]
      PROVE  field(i) = f
  <2>1. field(i) \in DOMAIN layout /\ layout[field(i)][1] < i /\ i <= layout[field(i)][2]
    BY <1>2
  <2> HIDE DEF field
  <2> QED
    BY <1>3, <2>1 DEF Tiles
<1> HIDE DEF field, s
<1>4. ASSUME NEW i \in 1..n PROVE header[field(i)][i - layout[field(i)][1]] \in Octet
  <2>1. PICK f \in DOMAIN layout : f = field(i) /\ layout[f][1] < i /\ i <= layout[f][2]
    BY <1>2
  <2>2. header[f] \in Seq(Octet) /\ i - layout[f][1] \in 1..Len(header[f])
    BY <2>1 DEF Tiles, Fills
  <2> QED
    BY <2>1, <2>2
<1>5. s \in Seq(Octet) /\ Len(s) = n
  BY <1>1, <1>4
<1>6. ASSUME NEW f \in DOMAIN layout
      PROVE  Cut(s, layout[f][1], layout[f][2]) = header[f]
  <2>1. PICK a \in Nat, b \in Nat : a = layout[f][1] /\ b = layout[f][2] /\ a <= b /\ b <= n
    BY DEF Tiles
  <2>2. PICK h \in Seq(Octet) : h = header[f] /\ Len(h) = b - a
    BY <2>1 DEF Fills
  <2>3. /\ Cut(s, a, b) \in Seq(Octet) /\ Len(Cut(s, a, b)) = b - a
        /\ \A i \in 1..(b - a) : Cut(s, a, b)[i] = s[a + i]
    <3>1. PICK t \in Seq(Octet) : t = s /\ Len(t) = n
      BY <1>5
    <3>2. a <= b /\ b <= Len(t)
      BY <2>1, <3>1
    <3>3. /\ Cut(t, a, b) \in Seq(Octet) /\ Len(Cut(t, a, b)) = b - a
          /\ \A i \in 1..(b - a) : Cut(t, a, b)[i] = t[a + i]
      BY <3>2, CutProperties
    <3> QED
      BY <3>1, <3>3
  <2>4. ASSUME NEW i \in 1..(b - a) PROVE s[a + i] = h[i]
    <3>1. a + i \in 1..n /\ a < a + i /\ a + i <= b /\ (a + i) - a = i
      BY <1>1, <2>1, SMTT(30)
    <3>2. field(a + i) = f
      BY <1>3, <2>1, <3>1
    <3> QED
      BY <1>1, <2>1, <2>2, <3>1, <3>2
  <2>5. PICK c \in Seq(Octet) : c = Cut(s, a, b)
    BY <2>3
  <2>6. Len(c) = Len(h) /\ \A i \in 1..Len(h) : c[i] = h[i]
    BY <2>2, <2>3, <2>4, <2>5
  <2>7. c = h
    BY <2>6
  <2> QED
    BY <2>1, <2>2, <2>5, <2>7
<1> QED
  BY <1>5, <1>6 DEF s

\* The layouts of the headers leave no byte out and give none to two fields.
LEMMA LocalTiles == Tiles(LocalWritten, 30)
<1>1. SizeOf(LocalWritten) = 30 /\ 30 \in Nat
  BY LocalLayout
<1>2. ASSUME NEW i \in Nat, 1 <= i, i <= 30
      PROVE  \E f \in DOMAIN LocalWritten : LocalWritten[f][1] < i /\ i <= LocalWritten[f][2]
  <2>1. CASE i <= 10
    BY <1>2, <2>1 DEF LocalWritten
  <2>2. CASE i > 10 /\ i <= 18
    BY <1>2, <2>2 DEF LocalWritten
  <2>3. CASE i > 18
    BY <1>2, <2>3 DEF LocalWritten
  <2> QED
    BY <2>1, <2>2, <2>3
<1>3. ASSUME NEW f \in DOMAIN LocalWritten
      PROVE  LocalWritten[f][1] \in Nat /\ LocalWritten[f][2] \in Nat
             /\ LocalWritten[f][1] <= LocalWritten[f][2] /\ LocalWritten[f][2] <= 30
  BY DEF LocalWritten
<1>4. ASSUME NEW f \in DOMAIN LocalWritten, NEW g \in DOMAIN LocalWritten
      PROVE  f = g \/ LocalWritten[f][2] <= LocalWritten[g][1]
                   \/ LocalWritten[g][2] <= LocalWritten[f][1]
  BY DEF LocalWritten
<1>5. \A i \in 1..30 : 1 <= i /\ i <= 30 /\ i \in Nat
  OBVIOUS
<1> QED
  BY <1>1, <1>2, <1>3, <1>4, <1>5 DEF Tiles

LEMMA CentralTiles == Tiles(CentralWritten, 46)
<1>0. Within(CentralWritten, 46)
  BY DEF Within, CentralWritten
<1>1. SizeOf(CentralWritten) = 46 /\ 46 \in Nat
  <2>1. /\ "local_header_offset" \in DOMAIN CentralWritten
        /\ CentralWritten["local_header_offset"][2] = 46
    BY DEF CentralWritten
  <2>2. 46 \in 0..64
    OBVIOUS
  <2> QED
    BY <1>0, <2>1, <2>2, SizeIs
<1>2. ASSUME NEW i \in Nat, 1 <= i, i <= 46
      PROVE  \E f \in DOMAIN CentralWritten : CentralWritten[f][1] < i /\ i <= CentralWritten[f][2]
  <2>1. CASE i <= 10
    BY <1>2, <2>1 DEF CentralWritten
  <2>2. CASE i > 10 /\ i <= 20
    BY <1>2, <2>2 DEF CentralWritten
  <2>3. CASE i > 20 /\ i <= 32
    BY <1>2, <2>3 DEF CentralWritten
  <2>4. CASE i > 32
    BY <1>2, <2>4 DEF CentralWritten
  <2> QED
    BY <2>1, <2>2, <2>3, <2>4
<1>3. ASSUME NEW f \in DOMAIN CentralWritten
      PROVE  CentralWritten[f][1] \in Nat /\ CentralWritten[f][2] \in Nat
             /\ CentralWritten[f][1] <= CentralWritten[f][2] /\ CentralWritten[f][2] <= 46
  BY DEF CentralWritten
<1>4. ASSUME NEW f \in DOMAIN CentralWritten, NEW g \in DOMAIN CentralWritten
      PROVE  f = g \/ CentralWritten[f][2] <= CentralWritten[g][1]
                   \/ CentralWritten[g][2] <= CentralWritten[f][1]
  BY SMTT(60) DEF CentralWritten
<1>5. \A i \in 1..46 : 1 <= i /\ i <= 46 /\ i \in Nat
  OBVIOUS
<1> QED
  BY <1>1, <1>2, <1>3, <1>4, <1>5 DEF Tiles

\* Bytes are sequences of that length.
IsBytes(s, n) == s \in Seq(Octet) /\ Len(s) = n

\* Bytes of a fixed length, the parts of a record, and what is joined of them.
LEMMA WordIs ==
  ASSUME NEW n \in Nat, NEW w, w \in Words(n)
  PROVE  IsBytes(w, n)
BY DEF Words, Octet, IsBytes

LEMMA BytesIs ==
  ASSUME NEW x, x \in Octet, NEW y, y \in Octet
  PROVE  IsBytes(<<x, y>>, 2)
BY DEF IsBytes

LEMMA OctetsAre == /\ 0 \in Octet /\ 1 \in Octet /\ 3 \in Octet /\ 4 \in Octet /\ 20 \in Octet
                   /\ 45 \in Octet /\ 255 \in Octet /\ 80 \in Octet /\ 75 \in Octet
                   /\ 2 \in Octet /\ 5 \in Octet /\ 6 \in Octet /\ 7 \in Octet /\ 8 \in Octet
BY DEF Octet

LEMMA SaturatedAre == IsBytes(U32, 4) /\ IsBytes(U16, 2)
BY OctetsAre DEF U32, U16, IsBytes

LEMMA SignaturesAre ==
  /\ IsBytes(LocalSignature, 4) /\ IsBytes(CentralSignature, 4) /\ IsBytes(EocdSignature, 4)
  /\ IsBytes(Eocd64Signature, 4) /\ IsBytes(LocatorSignature, 4)
  /\ IsBytes(DescriptorSignature, 4)
BY OctetsAre DEF LocalSignature, CentralSignature, EocdSignature, Eocd64Signature,
                 LocatorSignature, DescriptorSignature, IsBytes

LEMMA JoinedAre ==
  ASSUME NEW s, NEW t, NEW m \in Nat, NEW n \in Nat, IsBytes(s, m), IsBytes(t, n)
  PROVE  IsBytes(s \o t, m + n)
BY DEF IsBytes

LEMMA JoinedBytes ==
  ASSUME NEW s, NEW t, s \in Seq(Octet), t \in Seq(Octet)
  PROVE  s \o t \in Seq(Octet) /\ Len(s \o t) = Len(s) + Len(t)
OBVIOUS

LEMMA Piece ==
  ASSUME NEW s, s \in Seq(Octet), NEW a, NEW b, a \in Nat, b \in Nat, 1 <= a, a <= b,
         b <= Len(s)
  PROVE  SubSeq(s, a, b) \in Seq(Octet) /\ Len(SubSeq(s, a, b)) = b - a + 1
<1>1. PICK t \in Seq(Octet), m \in Nat, n \in Nat : t = s /\ m = a /\ n = b
  OBVIOUS
<1>2. SubSeq(t, m, n) \in Seq(Octet) /\ Len(SubSeq(t, m, n)) = n - m + 1
  BY <1>1
<1> QED
  BY <1>1, <1>2

LEMMA PartsAre ==
  ASSUME NEW w, IsBytes(w, 8)
  PROVE  /\ IsBytes(SubSeq(w, 1, 4), 4) /\ IsBytes(SubSeq(w, 1, 2), 2)
         /\ IsBytes(SubSeq(w, 5, 8), 4) /\ IsBytes(SubSeq(w, 3, 8), 6)
<1>1. w \in Seq(Octet) /\ Len(w) = 8
  BY DEF IsBytes
<1>2. \A a, b \in Nat : 1 <= a /\ a <= b /\ b <= Len(w) =>
        SubSeq(w, a, b) \in Seq(Octet) /\ Len(SubSeq(w, a, b)) = b - a + 1
  BY <1>1, Piece
<1>3. SubSeq(w, 1, 4) \in Seq(Octet) /\ Len(SubSeq(w, 1, 4)) = 4
  <2>1. PICK a \in Nat, b \in Nat : a = 1 /\ b = 4
    OBVIOUS
  <2>2. 1 <= a /\ a <= b /\ b <= Len(w) /\ b - a + 1 = 4
    BY <1>1, <2>1
  <2>3. SubSeq(w, a, b) \in Seq(Octet) /\ Len(SubSeq(w, a, b)) = b - a + 1
    BY <1>2, <2>2
  <2> QED
    BY <2>1, <2>2, <2>3
<1>4. SubSeq(w, 1, 2) \in Seq(Octet) /\ Len(SubSeq(w, 1, 2)) = 2
  <2>1. PICK a \in Nat, b \in Nat : a = 1 /\ b = 2
    OBVIOUS
  <2>2. 1 <= a /\ a <= b /\ b <= Len(w) /\ b - a + 1 = 2
    BY <1>1, <2>1
  <2>3. SubSeq(w, a, b) \in Seq(Octet) /\ Len(SubSeq(w, a, b)) = b - a + 1
    BY <1>2, <2>2
  <2> QED
    BY <2>1, <2>2, <2>3
<1>5. SubSeq(w, 5, 8) \in Seq(Octet) /\ Len(SubSeq(w, 5, 8)) = 4
  <2>1. PICK a \in Nat, b \in Nat : a = 5 /\ b = 8
    OBVIOUS
  <2>2. 1 <= a /\ a <= b /\ b <= Len(w) /\ b - a + 1 = 4
    BY <1>1, <2>1
  <2>3. SubSeq(w, a, b) \in Seq(Octet) /\ Len(SubSeq(w, a, b)) = b - a + 1
    BY <1>2, <2>2
  <2> QED
    BY <2>1, <2>2, <2>3
<1>6. SubSeq(w, 3, 8) \in Seq(Octet) /\ Len(SubSeq(w, 3, 8)) = 6
  <2>1. PICK a \in Nat, b \in Nat : a = 3 /\ b = 8
    OBVIOUS
  <2>2. 1 <= a /\ a <= b /\ b <= Len(w) /\ b - a + 1 = 6
    BY <1>1, <2>1
  <2>3. SubSeq(w, a, b) \in Seq(Octet) /\ Len(SubSeq(w, a, b)) = b - a + 1
    BY <1>2, <2>2
  <2> QED
    BY <2>1, <2>2, <2>3
<1> QED
  BY <1>3, <1>4, <1>5, <1>6 DEF IsBytes

LEMMA HalvesAre ==
  ASSUME NEW w, IsBytes(w, 4)
  PROVE  IsBytes(SubSeq(w, 1, 2), 2) /\ IsBytes(SubSeq(w, 3, 4), 2)
<1>1. w \in Seq(Octet) /\ Len(w) = 4
  BY DEF IsBytes
<1>2. \A a, b \in Nat : 1 <= a /\ a <= b /\ b <= Len(w) =>
        SubSeq(w, a, b) \in Seq(Octet) /\ Len(SubSeq(w, a, b)) = b - a + 1
  BY <1>1, Piece
<1>3. SubSeq(w, 1, 2) \in Seq(Octet) /\ Len(SubSeq(w, 1, 2)) = 2
  BY <1>1, <1>2
<1>4. SubSeq(w, 3, 4) \in Seq(Octet) /\ Len(SubSeq(w, 3, 4)) = 2
  BY <1>1, <1>2
<1> QED
  BY <1>3, <1>4 DEF IsBytes

\* A number of eight bytes, cut to what a record has room for.
LEMMA InlineIs ==
  ASSUME NEW e, NEW w, w \in Words(8)
  PROVE  /\ IsBytes(Inline(e, w), 4) /\ IsBytes(Min32(w), 4) /\ IsBytes(Min16(w), 2)
         /\ Word64(e, w) \in Seq(Octet) /\ Len(Word64(e, w)) <= 8
<1>1. IsBytes(w, 8)
  BY WordIs
<1>2. IsBytes(Min32(w), 4) /\ IsBytes(Min16(w), 2)
  BY <1>1, PartsAre, SaturatedAre DEF Min32, Min16
<1>3. w \in Seq(Octet) /\ Len(w) <= 8 /\ <<>> \in Seq(Octet) /\ Len(<<>>) = 0
  BY <1>1 DEF IsBytes
<1> QED
  BY <1>2, <1>3, SaturatedAre DEF Inline, Word64

\* A zip64 field is four bytes and its body.
LEMMA Field64Is ==
  ASSUME NEW body, body \in Seq(Octet)
  PROVE  /\ Field64(body) \in Seq(Octet)
         /\ body = <<>> => Field64(body) = <<>>
         /\ body # <<>> => Len(Field64(body)) = 4 + Len(body)
<1>1. Len(body) \in Nat /\ 2 \in Nat
  OBVIOUS
<1>2. IsBytes(Le(Len(body), 2), 2)
  BY <1>1, LeIs DEF IsBytes
<1>3. IsBytes(<<ZIP64, 0>>, 2)
  BY OctetsAre, BytesIs DEF ZIP64
<1> DEFINE head == <<ZIP64, 0>> \o Le(Len(body), 2)
<1>4. IsBytes(head, 4)
  <2>1. IsBytes(head, 2 + 2)
    BY <1>2, <1>3, JoinedAre
  <2> QED
    BY <2>1 DEF IsBytes
<1>5. head \in Seq(Octet) /\ Len(head) = 4
  BY <1>4 DEF IsBytes
<1> HIDE DEF head
<1>6. head \o body \in Seq(Octet) /\ Len(head \o body) = 4 + Len(body)
  BY <1>5, JoinedBytes
<1>7. Field64(body) = IF body = <<>> THEN <<>> ELSE head \o body
  BY DEF Field64, head
<1> QED
  BY <1>6, <1>7

IsEntry(e) == e \in Description /\ Writable(e)

\* What is known of an entry are bytes and numbers.
LEMMA EntryIs ==
  ASSUME NEW e, IsEntry(e)
  PROVE  /\ e.name \in Seq(Octet) /\ e.local_extra \in Seq(Octet) /\ e.extra \in Seq(Octet)
         /\ e.comment \in Seq(Octet) /\ e.data \in Seq(Octet)
         /\ IsBytes(e.flags, 2) /\ IsBytes(e.compression_method, 2) /\ IsBytes(e.dos, 4)
         /\ e.unix_permissions = <<>> \/ IsBytes(e.unix_permissions, 2)
         /\ IsBytes(e.crc, 4) /\ e.disk \in Nat
         /\ e.compressed_size \in Words(8) /\ e.uncompressed_size \in Words(8)
         /\ e.local_header_offset \in Words(8) /\ e.entries \in Words(8)
         /\ e.directory_size \in Words(8) /\ e.directory_offset \in Words(8)
<1>1. /\ e.name \in Seq(Octet) /\ e.local_extra \in Seq(Octet) /\ e.extra \in Seq(Octet)
      /\ e.comment \in Seq(Octet) /\ e.data \in Seq(Octet) /\ e.disk \in Nat
  BY DEF IsEntry, Description, Octet
<1>2. /\ e.flags \in Words(2) /\ e.compression_method \in Words(2) /\ e.dos \in Words(4)
      /\ e.unix_permissions = <<>> \/ e.unix_permissions \in Words(2)
      /\ e.crc \in Words(4)
      /\ e.compressed_size \in Words(8) /\ e.uncompressed_size \in Words(8)
      /\ e.local_header_offset \in Words(8) /\ e.entries \in Words(8)
      /\ e.directory_size \in Words(8) /\ e.directory_offset \in Words(8)
  BY DEF IsEntry, Description
<1>3. 2 \in Nat /\ 4 \in Nat
  OBVIOUS
<1> QED
  BY <1>1, <1>2, <1>3, WordIs

\* The extra fields that the writer makes fit their length of two bytes.
LEMMA SizesAre ==
  ASSUME NEW e, IsEntry(e)
  PROVE  Sizes64(e) \in Seq(Octet) /\ Len(Sizes64(e)) <= 16
<1>1. /\ Word64(e, e.uncompressed_size) \in Seq(Octet) /\ Len(Word64(e, e.uncompressed_size)) <= 8
      /\ Word64(e, e.compressed_size) \in Seq(Octet) /\ Len(Word64(e, e.compressed_size)) <= 8
  BY EntryIs, InlineIs
<1> QED
  BY <1>1, JoinedBytes DEF Sizes64

LEMMA LocalExtraIs ==
  ASSUME NEW e, IsEntry(e)
  PROVE  LocalExtra(e) \in Seq(Octet) /\ Len(LocalExtra(e)) <= 65535
<1>1. Field64(Sizes64(e)) \in Seq(Octet) /\ <<>> \in Seq(Octet)
  BY SizesAre, Field64Is
<1>2. e.local_extra \in Seq(Octet)
  BY EntryIs
<1>3. LocalExtra(e) \in Seq(Octet)
  BY <1>1, <1>2, JoinedBytes DEF LocalExtra
<1> QED
  BY <1>3 DEF IsEntry, Writable

\* What the zip64 field of the directory holds.
Body64(e) ==
  Sizes64(e) \o Word64(e, e.local_header_offset) \o (IF Forced(e) THEN Le(e.disk, 4) ELSE <<>>)

\* Bytes, and at most so many.
IsShort(s, n) == s \in Seq(Octet) /\ Len(s) <= n

LEMMA JoinedShort ==
  ASSUME NEW s, NEW t, NEW m \in Nat, NEW n \in Nat, IsShort(s, m), IsShort(t, n)
  PROVE  IsShort(s \o t, m + n)
<1>1. PICK x \in Seq(Octet) : x = s /\ Len(x) <= m
  BY DEF IsShort
<1>2. PICK y \in Seq(Octet) : y = t /\ Len(y) <= n
  BY DEF IsShort
<1>3. x \o y \in Seq(Octet) /\ Len(x \o y) = Len(x) + Len(y)
  BY JoinedBytes
<1> QED
  BY <1>1, <1>2, <1>3 DEF IsShort

LEMMA BytesAreShort == ASSUME NEW s, NEW n \in Nat, IsBytes(s, n) PROVE IsShort(s, n)
BY DEF IsBytes, IsShort

LEMMA NothingIsShort == ASSUME NEW n \in Nat PROVE IsShort(<<>>, n)
BY DEF IsShort

LEMMA Body64Is ==
  ASSUME NEW e, IsEntry(e)
  PROVE  Body64(e) \in Seq(Octet) /\ Len(Body64(e)) <= 28
<1> DEFINE disk == IF Forced(e) THEN Le(e.disk, 4) ELSE <<>>
           offset == Word64(e, e.local_header_offset)
<1>1. IsShort(disk, 4)
  <2>1. IsBytes(Le(e.disk, 4), 4)
    BY EntryIs, LeIs DEF IsBytes
  <2>2. IsShort(Le(e.disk, 4), 4) /\ IsShort(<<>>, 4)
    BY <2>1, BytesAreShort, NothingIsShort
  <2> QED
    BY <2>2
<1>2. IsShort(offset, 8)
  BY EntryIs, InlineIs DEF IsShort
<1>3. IsShort(Sizes64(e), 16)
  BY SizesAre DEF IsShort
<1> HIDE DEF disk, offset
<1>4. IsShort(Sizes64(e) \o offset, 16 + 8)
  BY <1>2, <1>3, JoinedShort
<1>5. IsShort((Sizes64(e) \o offset) \o disk, (16 + 8) + 4)
  BY <1>1, <1>4, JoinedShort
<1>6. Body64(e) = (Sizes64(e) \o offset) \o disk
  BY DEF Body64, disk, offset
<1> QED
  BY <1>5, <1>6 DEF IsShort

LEMMA CentralExtraIs ==
  ASSUME NEW e, IsEntry(e)
  PROVE  /\ CentralExtra(e) = e.extra \o Field64(Body64(e))
         /\ CentralExtra(e) \in Seq(Octet) /\ Len(CentralExtra(e)) <= 65535
<1>1. CentralExtra(e) = e.extra \o Field64(Body64(e))
  BY DEF CentralExtra, Body64
<1>2. Field64(Body64(e)) \in Seq(Octet)
  BY Body64Is, Field64Is
<1>3. CentralExtra(e) \in Seq(Octet)
  BY <1>1, <1>2, EntryIs, JoinedBytes
<1> QED
  BY <1>1, <1>3 DEF IsEntry, Writable

LEMMA LeWord == ASSUME NEW m, m \in Nat PROVE IsBytes(Le(m, 2), 2)
BY LeIs DEF IsBytes

\* A local header has for every field as many bytes as its layout.
LEMMA LocalFills ==
  ASSUME NEW e, IsEntry(e)
  PROVE  Fills(LocalWritten, LocalHeader(e))
<1> DEFINE H == LocalHeader(e)
<1>1. /\ IsBytes(e.flags, 2) /\ IsBytes(e.compression_method, 2) /\ IsBytes(e.dos, 4)
      /\ Len(e.name) \in Nat /\ Len(LocalExtra(e)) \in Nat
  BY EntryIs, LocalExtraIs
<1>2. IsBytes(Zeros(4), 4)
  BY ZerosAre DEF IsBytes
<1>3. IsBytes(Le(20, 2), 2)
  <2>1. 20 \in Nat
    OBVIOUS
  <2> QED
    BY <2>1, LeWord
<1>4. IsBytes(Le(Len(e.name), 2), 2) /\ IsBytes(Le(Len(LocalExtra(e)), 2), 2)
  BY <1>1, LeWord
<1>5. IsBytes(SubSeq(e.dos, 1, 2), 2) /\ IsBytes(SubSeq(e.dos, 3, 4), 2)
  BY <1>1, HalvesAre
<1>6. IsBytes(IF Forced(e) THEN U32 ELSE Zeros(4), 4)
  BY <1>2, SaturatedAre
<1>7. /\ H.signature = LocalSignature /\ H.version_needed = Le(20, 2) /\ H.flags = e.flags
      /\ H.compression_method = e.compression_method
      /\ H.last_mod_time = SubSeq(e.dos, 1, 2) /\ H.last_mod_date = SubSeq(e.dos, 3, 4)
      /\ H.crc32 = Zeros(4) /\ H.compressed_size = IF Forced(e) THEN U32 ELSE Zeros(4)
      /\ H.uncompressed_size = IF Forced(e) THEN U32 ELSE Zeros(4)
      /\ H.file_name_len = Le(Len(e.name), 2)
      /\ H.extra_field_len = Le(Len(LocalExtra(e)), 2)
  BY DEF LocalHeader
<1> HIDE DEF H
<1>8. /\ IsBytes(H.signature, 4) /\ IsBytes(H.version_needed, 2) /\ IsBytes(H.flags, 2)
      /\ IsBytes(H.compression_method, 2)
      /\ IsBytes(H.last_mod_time, 2) /\ IsBytes(H.last_mod_date, 2)
      /\ IsBytes(H.crc32, 4) /\ IsBytes(H.compressed_size, 4)
      /\ IsBytes(H.uncompressed_size, 4)
      /\ IsBytes(H.file_name_len, 2) /\ IsBytes(H.extra_field_len, 2)
  BY <1>1, <1>2, <1>3, <1>4, <1>5, <1>6, <1>7, SignaturesAre
<1>9. \A f \in DOMAIN LocalWritten : IsBytes(H[f], LocalWritten[f][2] - LocalWritten[f][1])
  BY <1>8 DEF LocalWritten
<1> QED
  BY <1>9 DEF Fills, IsBytes, H

\* So does a central one.
LEMMA CentralFills ==
  ASSUME NEW e, IsEntry(e)
  PROVE  Fills(CentralWritten, CentralHeader(e))
<1> DEFINE H == CentralHeader(e)
           needs_zip64 == WideWritten(e) \/ Goes64(e, e.local_header_offset)
           version == IF needs_zip64 THEN 45 ELSE 20
           made == IF e.unix_permissions = <<>> THEN 0 ELSE 3
           permissions == IF e.unix_permissions = <<>> THEN Zeros(2) ELSE e.unix_permissions
<1>1. /\ IsBytes(e.flags, 2) /\ IsBytes(e.compression_method, 2) /\ IsBytes(e.dos, 4)
      /\ IsBytes(e.crc, 4)
      /\ Len(e.name) \in Nat /\ Len(CentralExtra(e)) \in Nat /\ Len(e.comment) \in Nat
  BY EntryIs, CentralExtraIs
<1>2. IsBytes(Zeros(2), 2)
  BY ZerosAre DEF IsBytes
<1>3. IsBytes(<<version, made>>, 2) /\ IsBytes(<<version, 0>>, 2)
  <2>1. version \in Octet /\ made \in Octet /\ 0 \in Octet
    BY OctetsAre
  <2> HIDE DEF version, made
  <2> QED
    BY <2>1, BytesIs
<1>4. /\ IsBytes(Le(Len(e.name), 2), 2) /\ IsBytes(Le(Len(CentralExtra(e)), 2), 2)
      /\ IsBytes(Le(Len(e.comment), 2), 2)
  BY <1>1, LeWord
<1>5. IsBytes(SubSeq(e.dos, 1, 2), 2) /\ IsBytes(SubSeq(e.dos, 3, 4), 2)
  BY <1>1, HalvesAre
<1>6. /\ IsBytes(Inline(e, e.compressed_size), 4) /\ IsBytes(Inline(e, e.uncompressed_size), 4)
      /\ IsBytes(Inline(e, e.local_header_offset), 4)
  BY EntryIs, InlineIs
<1>7. IsBytes(IF Forced(e) THEN U16 ELSE Zeros(2), 2)
  BY <1>2, SaturatedAre
<1>8. IsBytes(Zeros(2) \o permissions, 4)
  <2>1. IsBytes(permissions, 2)
    BY <1>2, EntryIs
  <2> HIDE DEF permissions
  <2>2. IsBytes(Zeros(2) \o permissions, 2 + 2)
    BY <1>2, <2>1, JoinedAre
  <2> QED
    BY <2>2 DEF IsBytes
<1>9. /\ H.signature = CentralSignature /\ H.version_made_by = <<version, made>>
      /\ H.version_needed = <<version, 0>> /\ H.flags = e.flags
      /\ H.compression_method = e.compression_method
      /\ H.last_mod_time = SubSeq(e.dos, 1, 2) /\ H.last_mod_date = SubSeq(e.dos, 3, 4)
      /\ H.crc32 = e.crc /\ H.compressed_size = Inline(e, e.compressed_size)
      /\ H.uncompressed_size = Inline(e, e.uncompressed_size)
      /\ H.file_name_len = Le(Len(e.name), 2)
      /\ H.extra_field_len = Le(Len(CentralExtra(e)), 2)
      /\ H.file_comment_len = Le(Len(e.comment), 2)
      /\ H.disk_number_start = IF Forced(e) THEN U16 ELSE Zeros(2)
      /\ H.internal_file_attrs = Zeros(2)
      /\ H.external_file_attrs = Zeros(2) \o permissions
      /\ H.local_header_offset = Inline(e, e.local_header_offset)
  BY DEF CentralHeader
<1> HIDE DEF H, version, made, permissions
<1>10. /\ IsBytes(H.signature, 4) /\ IsBytes(H.version_made_by, 2)
       /\ IsBytes(H.version_needed, 2) /\ IsBytes(H.flags, 2)
       /\ IsBytes(H.compression_method, 2)
       /\ IsBytes(H.last_mod_time, 2) /\ IsBytes(H.last_mod_date, 2)
       /\ IsBytes(H.crc32, 4) /\ IsBytes(H.compressed_size, 4)
       /\ IsBytes(H.uncompressed_size, 4)
       /\ IsBytes(H.file_name_len, 2) /\ IsBytes(H.extra_field_len, 2)
       /\ IsBytes(H.file_comment_len, 2) /\ IsBytes(H.disk_number_start, 2)
       /\ IsBytes(H.internal_file_attrs, 2) /\ IsBytes(H.external_file_attrs, 4)
       /\ IsBytes(H.local_header_offset, 4)
  BY <1>1, <1>2, <1>3, <1>4, <1>5, <1>6, <1>7, <1>8, <1>9, SignaturesAre
<1>11. \A f \in DOMAIN CentralWritten : IsBytes(H[f], CentralWritten[f][2] - CentralWritten[f][1])
  BY <1>10 DEF CentralWritten
<1> QED
  BY <1>11 DEF Fills, IsBytes, H

\* A descriptor is at most 24 bytes.
LEMMA DescriptorIs ==
  ASSUME NEW e, IsEntry(e)
  PROVE  IsShort(Descriptor(e), 24)
<1> DEFINE sized(w) == IF WideWritten(e) THEN w ELSE SubSeq(w, 1, 4)
           sig == IF e.producer = "rawzip" THEN DescriptorSignature ELSE <<>>
<1>1. ASSUME NEW w, w \in Words(8) PROVE IsShort(sized(w), 8)
  <2>1. IsBytes(w, 8)
    BY <1>1, WordIs
  <2>2. IsBytes(SubSeq(w, 1, 4), 4)
    BY <2>1, PartsAre
  <2>3. IsShort(w, 8) /\ IsShort(SubSeq(w, 1, 4), 8)
    BY <2>1, <2>2 DEF IsBytes, IsShort
  <2> QED
    BY <2>3
<1>2. IsShort(sig, 4)
  <2>1. IsShort(DescriptorSignature, 4) /\ IsShort(<<>>, 4)
    BY SignaturesAre, BytesAreShort, NothingIsShort
  <2> QED
    BY <2>1
<1>3. IsShort(e.crc, 4)
  BY EntryIs, BytesAreShort
<1>4. IsShort(sized(e.compressed_size), 8) /\ IsShort(sized(e.uncompressed_size), 8)
  BY <1>1, EntryIs
<1> DEFINE c == sized(e.compressed_size)
           u == sized(e.uncompressed_size)
<1>5. Descriptor(e) = ((sig \o e.crc) \o c) \o u
  BY DEF Descriptor
<1>6. IsShort(c, 8) /\ IsShort(u, 8)
  BY <1>4
<1> HIDE DEF sized, sig, c, u
<1>7. IsShort(sig \o e.crc, 4 + 4)
  BY <1>2, <1>3, JoinedShort
<1>8. IsShort((sig \o e.crc) \o c, (4 + 4) + 8)
  BY <1>6, <1>7, JoinedShort
<1>9. IsShort(((sig \o e.crc) \o c) \o u, ((4 + 4) + 8) + 8)
  BY <1>6, <1>8, JoinedShort
<1> QED
  BY <1>5, <1>9 DEF IsShort

\* The file of an entry is bytes, and short enough for its numbers to be added.
LEMMA FileIs ==
  ASSUME NEW e, IsEntry(e)
  PROVE  IsShort(File(e), Longest)
<1>1. CASE ~ IsSmall(e.local_header_offset)
  <2>1. Longest \in Nat
    BY DEF Longest
  <2> QED
    BY <1>1, <2>1, NothingIsShort DEF File
<1>2. CASE IsSmall(e.local_header_offset)
  <2> DEFINE gap == Value(e.local_header_offset)
             stub == Zeros(gap)
             header == Put(LocalWritten, LocalHeader(e))
             extra == LocalExtra(e)
             last == Descriptor(e)
  <2>1. TwoTo24 \in Nat
    BY DEF TwoTo24
  <2>2. gap \in Nat /\ gap <= TwoTo24
    <3>1. gap \in Nat /\ ~ (gap >= TwoTo24)
      BY <1>2, EntryIs, ValueCounts
    <3> HIDE DEF gap
    <3> QED
      BY <2>1, <3>1
  <2>3. IsShort(stub, TwoTo24)
    <3>1. stub \in Seq(Octet) /\ Len(stub) = gap
      BY <2>2, ZerosAre
    <3> HIDE DEF gap, stub
    <3> QED
      BY <2>2, <3>1 DEF IsShort
  <2>4. IsShort(header, 30)
    BY LocalTiles, LocalFills, PutIs DEF IsShort
  <2>5. 65535 \in Nat
    OBVIOUS
  <2>6. IsShort(e.name, 65535) /\ IsShort(extra, 65535)
    BY EntryIs, LocalExtraIs, SMT DEF IsShort, IsEntry, Writable
  <2>7. IsShort(e.data, TwoTo24)
    BY <2>1, EntryIs, SMT DEF IsShort, IsEntry, Writable
  <2>8. IsShort(last, 24)
    BY DescriptorIs
  <2>9. IsShort(Zeros(2), 2)
    BY ZerosAre DEF IsShort
  <2>10. File(e) = (((((stub \o header) \o e.name) \o extra) \o e.data) \o last) \o Zeros(2)
    BY <1>2 DEF File
  <2> HIDE DEF gap, stub, header, extra, last
  <2>11. PICK m \in Nat, n \in Nat : m = 65535 /\ n = TwoTo24
    BY <2>1, <2>5
  <2>12. IsShort(stub \o header, n + 30)
    BY <2>3, <2>4, <2>11, JoinedShort
  <2>13. IsShort((stub \o header) \o e.name, n + 30 + m)
    BY <2>6, <2>11, <2>12, JoinedShort
  <2>14. IsShort(((stub \o header) \o e.name) \o extra, n + 30 + m + m)
    BY <2>6, <2>11, <2>13, JoinedShort
  <2>15. IsShort((((stub \o header) \o e.name) \o extra) \o e.data, n + 30 + m + m + n)
    BY <2>7, <2>11, <2>14, JoinedShort
  <2>16. IsShort(((((stub \o header) \o e.name) \o extra) \o e.data) \o last,
                 n + 30 + m + m + n + 24)
    BY <2>8, <2>15, JoinedShort
  <2>17. IsShort((((((stub \o header) \o e.name) \o extra) \o e.data) \o last) \o Zeros(2),
                 n + 30 + m + m + n + 24 + 2)
    BY <2>9, <2>16, JoinedShort
  <2>18. n + 30 + m + m + n + 24 + 2 <= Longest /\ Longest \in Nat
    BY <2>11, SMT DEF Longest, TwoTo24
  <2>19. IsShort(File(e), n + 30 + m + m + n + 24 + 2)
    BY <2>10, <2>17
  <2>20. Len(File(e)) \in Nat
    BY <2>19 DEF IsShort
  <2> QED
    BY <2>18, <2>19, <2>20 DEF IsShort
<1> QED
  BY <1>1, <1>2

\* Eight bytes are a number, four are when widened.
LEMMA WordOfBytes ==
  ASSUME NEW w, IsBytes(w, 8)
  PROVE  w \in Words(8)
<1>1. PICK s \in Seq(Octet) : s = w /\ Len(s) = 8
  BY DEF IsBytes
<1>2. s \in [1..Len(s) -> Octet]
  BY LenProperties
<1> QED
  BY <1>1, <1>2 DEF Words, Octet

LEMMA WidenIs ==
  ASSUME NEW w, IsBytes(w, 4)
  PROVE  IsBytes(Widen(w), 8) /\ Widen(w) = w \o Zeros(4)
<1>1. 8 - Len(w) = 4
  BY DEF IsBytes
<1>2. Widen(w) = w \o Zeros(4)
  BY <1>1 DEF Widen
<1>3. IsBytes(Zeros(4), 4)
  BY ZerosAre DEF IsBytes
<1>4. IsBytes(w \o Zeros(4), 4 + 4)
  BY <1>3, JoinedAre
<1> QED
  BY <1>2, <1>4 DEF IsBytes

LEMMA CutIsBytes ==
  ASSUME NEW s, s \in Seq(Octet), NEW a, NEW b, a \in Nat, b \in Nat, a <= b, b <= Len(s)
  PROVE  IsBytes(Cut(s, a, b), b - a)
BY CutBounds DEF IsBytes

LEMMA CutBytes ==
  ASSUME NEW s, s \in Seq(Octet), NEW a, NEW n, a \in Nat, n \in Nat, a + n <= Len(s)
  PROVE  IsBytes(Cut(s, a, a + n), n)
<1>1. Len(s) \in Nat /\ a + n \in Nat /\ a <= a + n /\ (a + n) - a = n
  OBVIOUS
<1> QED
  BY <1>1, CutBounds DEF IsBytes

(***************************************************************************)
(* A record parsed by a layout has for each field as many bytes as it says,*)
(* whatever the bytes are.                                                 *)
(***************************************************************************)
LEMMA GetIs ==
  ASSUME NEW layout, NEW n, Tiles(layout, n), NEW s, s \in Seq(Octet), n <= Len(s)
  PROVE  /\ DOMAIN Get(layout, s) = DOMAIN layout
         /\ \A f \in DOMAIN layout :
              IsBytes(Get(layout, s)[f], layout[f][2] - layout[f][1])
<1>1. Len(s) \in Nat
  OBVIOUS
<1>2. ASSUME NEW f \in DOMAIN layout
      PROVE  IsBytes(Get(layout, s)[f], layout[f][2] - layout[f][1])
  <2>1. PICK a \in Nat, b \in Nat : a = layout[f][1] /\ b = layout[f][2] /\ a <= b /\ b <= Len(s)
    BY <1>1 DEF Tiles
  <2>2. IsBytes(Cut(s, a, b), b - a)
    BY <2>1, CutIsBytes
  <2>3. Get(layout, s)[f] = Cut(s, a, b)
    BY <2>1 DEF Get
  <2> QED
    BY <2>1, <2>2, <2>3
<1> QED
  BY <1>2 DEF Get

LEMMA CentralSame == CentralParsed = CentralWritten
BY DEF CentralParsed, CentralWritten

LEMMA LocalSame == LocalParsed = LocalWritten
BY DEF LocalParsed, LocalWritten

\* Of which lengths the fields of a central header are that is parsed.
CentralTyped(h) ==
  /\ IsBytes(h.compressed_size, 4) /\ IsBytes(h.uncompressed_size, 4)
  /\ IsBytes(h.local_header_offset, 4) /\ IsBytes(h.file_name_len, 2)
  /\ IsBytes(h.extra_field_len, 2) /\ IsBytes(h.file_comment_len, 2)
  /\ IsBytes(h.disk_number_start, 2)

LEMMA CentralParses ==
  ASSUME NEW s, s \in Seq(Octet), 46 <= Len(s)
  PROVE  CentralTyped(Get(CentralParsed, s))
<1> DEFINE h == Get(CentralWritten, s)
<1>1. \A f \in DOMAIN CentralWritten : IsBytes(h[f], CentralWritten[f][2] - CentralWritten[f][1])
  BY CentralTiles, GetIs
<1> HIDE DEF h
<1>2. CentralTyped(h)
  BY <1>1 DEF CentralWritten, CentralTyped
<1> QED
  BY <1>2, CentralSame DEF h

LEMMA TwoBytesCount ==
  ASSUME NEW s, IsBytes(s, 2)
  PROVE  LeU16(s, 1) \in Nat
BY LeU16Counts DEF IsBytes

\* The extra fields of a parsed record are bytes of it.
LEMMA VariableIs ==
  ASSUME NEW h, CentralTyped(h), NEW s, s \in Seq(Octet), VariableFields(h, s).whole
  PROVE  VariableFields(h, s).extra_field \in Seq(Octet)
<1> DEFINE name == LeU16(h.file_name_len, 1)
           extra == name + LeU16(h.extra_field_len, 1)
           comment == extra + LeU16(h.file_comment_len, 1)
<1>1. name \in Nat /\ LeU16(h.extra_field_len, 1) \in Nat /\ LeU16(h.file_comment_len, 1) \in Nat
  BY TwoBytesCount DEF CentralTyped
<1>2. VariableFields(h, s).extra_field = Cut(s, name, extra) /\ comment <= Len(s)
  BY DEF VariableFields
<1>3. Len(s) \in Nat
  OBVIOUS
<1>4. extra \in Nat /\ name <= extra /\ extra <= Len(s)
  BY <1>1, <1>2, <1>3
<1> HIDE DEF name, extra, comment
<1>5. Cut(s, name, extra) \in Seq(Octet)
  BY <1>1, <1>4, CutBounds
<1> QED
  BY <1>2, <1>5

\* So is the body of a zip64 field.
LEMMA FirstField64Is ==
  ASSUME NEW s \in Seq(Octet)
  PROVE  FirstField64(s) \in Seq(Octet)
<1> DEFINE found == Fields64(s)
           first == CHOOSE i \in found : \A j \in found : i <= j
<1>1. Parse(s).fields \in Seq(Seq(Octet))
      /\ \A k \in 1..Len(Parse(s).fields) : WholeField(Parse(s).fields[k])
  BY ParseGives DEF Iterators, Parsed
<1>2. found \subseteq 1..Len(Parse(s).fields)
  BY <1>1 DEF Fields64
<1>3. CASE found = {}
  BY <1>3 DEF FirstField64
<1>4. CASE found # {}
  <2>1. found \subseteq Nat
    BY <1>2
  <2> HIDE DEF found
  <2>2. \E i \in found : \A j \in found : i <= j
    BY <1>4, <2>1, Least
  <2>3. first \in found
    BY <2>2
  <2> HIDE DEF first
  <2>4. PICK f \in Seq(Octet) : f = Parse(s).fields[first] /\ Len(f) >= 4
    BY <1>1, <1>2, <2>3, ElementOfSeq DEF WholeField
  <2>5. 4 \in Nat /\ 4 <= Len(f)
    BY <2>4
  <2>6. From(f, 4) \in Seq(Octet)
    BY <2>5, FromBounds
  <2>7. FirstField64(s) = From(Parse(s).fields[first], 4)
    BY <1>4 DEF FirstField64, found, first
  <2> QED
    BY <2>4, <2>6, <2>7
<1> QED
  BY <1>3, <1>4

LEMMA WordAtCounts ==
  ASSUME NEW h, NEW k \in Nat
  PROVE  WordAt(h, k) \in Nat
<1> DEFINE S == {i \in 1..(k - 1) : h[Order[i]] = U32}
<1>1. IsFiniteSet(1..(k - 1))
  <2>1. 1 \in Int /\ k - 1 \in Int
    OBVIOUS
  <2> QED
    BY <2>1, FS_Interval
<1>2. S \in SUBSET (1..(k - 1))
  OBVIOUS
<1>3. Cardinality(S) \in Nat
  BY <1>1, <1>2, FS_Subset, FS_CardinalityType
<1> QED
  BY <1>3 DEF WordAt

\* A number of a record is eight bytes, from the zip64 field or widened.
LEMMA ResolvedIs ==
  ASSUME NEW h, NEW k \in Nat, IsBytes(h[Order[k]], 4), NEW body, body \in Seq(Octet)
  PROVE  Resolved(h, k, body) \in Words(8)
<1>1. PICK w \in Nat : w = WordAt(h, k)
  BY WordAtCounts
<1>2. CASE h[Order[k]] = U32 /\ w + 8 <= Len(body)
  <2>1. IsBytes(Cut(body, w, w + 8), 8)
    BY <1>2, CutBytes
  <2>2. Resolved(h, k, body) = Cut(body, w, w + 8)
    BY <1>1, <1>2 DEF Resolved
  <2> QED
    BY <2>1, <2>2, WordOfBytes
<1>3. CASE ~ (h[Order[k]] = U32 /\ w + 8 <= Len(body))
  <2>1. Resolved(h, k, body) = Widen(h[Order[k]])
    BY <1>1, <1>3 DEF Resolved
  <2> QED
    BY <2>1, WidenIs, WordOfBytes
<1> QED
  BY <1>2, <1>3

LEMMA OrderIs ==
  Order[1] = "uncompressed_size" /\ Order[2] = "compressed_size"
    /\ Order[3] = "local_header_offset"
BY DEF Order

\* What a reader knows of an entry from the directory are numbers.
LEMMA WayfinderIs ==
  ASSUME NEW s, s \in Seq(Octet), NEW r \in CentralEntry(s)
  PROVE  /\ WayfinderOf(r).compressed_size \in Words(8)
         /\ WayfinderOf(r).local_header_offset \in Words(8)
<1> DEFINE h == Get(CentralParsed, s)
           variable == VariableFields(h, From(s, 46))
           announced == HasU32Size(h) \/ h.local_header_offset = U32
                          \/ h.disk_number_start = U16
           body == IF announced THEN FirstField64(variable.extra_field) ELSE <<>>
<1>1. SizeOf(CentralParsed) = 46
  BY CentralTiles, CentralSame DEF Tiles
<1>2. r = FromParts(h, variable) /\ variable.whole /\ 46 <= Len(s)
  <2>1. Len(s) \in Nat
    OBVIOUS
  <2> QED
    BY <1>1, <2>1 DEF CentralEntry, Readable
<1>3. CentralTyped(h)
  BY <1>2, CentralParses
<1>4. From(s, 46) \in Seq(Octet)
  <2>1. 46 \in Nat /\ 46 <= Len(s)
    BY <1>2
  <2> QED
    BY <2>1, FromBounds
<1>5. r.compressed_size = Resolved(h, 2, body) /\ r.local_header_offset = Resolved(h, 3, body)
  BY <1>2 DEF FromParts
<1> HIDE DEF h
<1>6. variable.extra_field \in Seq(Octet)
  BY <1>2, <1>3, <1>4, VariableIs
<1>7. body \in Seq(Octet)
  <2> HIDE DEF announced, variable
  <2>1. FirstField64(variable.extra_field) \in Seq(Octet) /\ <<>> \in Seq(Octet)
    BY <1>6, FirstField64Is
  <2> QED
    BY <2>1
<1> HIDE DEF body
<1>8. IsBytes(h[Order[2]], 4) /\ IsBytes(h[Order[3]], 4) /\ 2 \in Nat /\ 3 \in Nat
  BY <1>3, OrderIs DEF CentralTyped
<1>9. Resolved(h, 2, body) \in Words(8) /\ Resolved(h, 3, body) \in Words(8)
  BY <1>7, <1>8, ResolvedIs
<1> QED
  BY <1>5, <1>9 DEF WayfinderOf

\* A record of the directory is bytes.
LEMMA CentralRecordIs ==
  ASSUME NEW e, IsEntry(e)
  PROVE  CentralRecord(e) \in Seq(Octet)
<1> DEFINE header == Put(CentralWritten, CentralHeader(e))
           extra == CentralExtra(e)
<1>1. header \in Seq(Octet) /\ extra \in Seq(Octet)
  BY CentralTiles, CentralFills, PutIs, CentralExtraIs
<1>2. CentralRecord(e) = ((header \o e.name) \o extra) \o e.comment
  BY DEF CentralRecord
<1> HIDE DEF header, extra
<1>3. header \o e.name \in Seq(Octet)
  BY <1>1, EntryIs, JoinedBytes
<1>4. (header \o e.name) \o extra \in Seq(Octet)
  BY <1>1, <1>3, JoinedBytes
<1>5. ((header \o e.name) \o extra) \o e.comment \in Seq(Octet)
  BY <1>4, EntryIs, JoinedBytes
<1> QED
  BY <1>2, <1>5

\* The files of all entries are files of bytes, and cutting them keeps that.
LEMMA ViewsStart == RecordsInit => ViewsInv
<1> SUFFICES ASSUME RecordsInit PROVE ViewsInv
  OBVIOUS
<1>1. IsEntry(entry)
  BY RecordsAssumption DEF RecordsInit, IsEntry
<1>2. IsShort(File(entry), Longest)
  BY <1>1, FileIs
<1>3. PICK r \in CentralEntry(CentralRecord(entry)) : wayfinder = WayfinderOf(r)
  BY DEF RecordsInit
<1>4. wayfinder.compressed_size \in Words(8) /\ wayfinder.local_header_offset \in Words(8)
  BY <1>1, <1>3, CentralRecordIs, WayfinderIs
<1> QED
  BY <1>2, <1>4 DEF RecordsInit, ViewsInv, IsShort

LEMMA ViewsStep == ViewsInv /\ [CutOff]_recordVars => ViewsInv'
<1> SUFFICES ASSUME ViewsInv, [CutOff]_recordVars PROVE ViewsInv'
  OBVIOUS
<1>1. CASE CutOff
  <2>1. PICK s \in Seq(Octet) : s = bytes /\ s # <<>>
    BY <1>1 DEF ViewsInv, CutOff
  <2>2. Len(s) \in Nat /\ Len(s) # 0
    BY <2>1
  <2>3. PICK n \in Nat : n = Len(s) - 1 /\ n <= Len(s)
    BY <2>2, SMTT(30)
  <2>4. SubSeq(s, 1, n) \in Seq(Octet) /\ Len(SubSeq(s, 1, n)) = n
    BY <2>3
  <2>5. Longest \in Nat
    BY DEF Longest
  <2>6. n <= Longest
    BY <2>1, <2>2, <2>3, <2>5 DEF ViewsInv
  <2> QED
    BY <1>1, <2>1, <2>3, <2>4, <2>6 DEF ViewsInv, CutOff
<1>2. CASE UNCHANGED recordVars
  BY <1>2 DEF ViewsInv, recordVars
<1> QED
  BY <1>1, <1>2

(***************************************************************************)
(* Records!ViewsAgree.  Of an entry of any length, with any extra fields   *)
(* and data, of any producer, and wherever its file is cut off, the slice  *)
(* and the reader say the same: where the data lies, what the local header *)
(* holds, and what the descriptor says or that it is cut.  No sum of a size*)
(* and an offset of the directory overflows in a file that holds the entry.*)
(***************************************************************************)
THEOREM ViewsCorrect == RecordsSpec => []ViewsAgree
<1>1. ViewsInv => ViewsAgree
  BY ViewsDoAgree
<1> QED
  BY <1>1, ViewsStart, ViewsStep, PTL DEF RecordsSpec

-----------------------------------------------------------------------------
(* Records that are written and read again.                                *)

\* The bytes p are those of s behind position m.
Stands(p, s, m) ==
  /\ p \in Seq(Octet) /\ s \in Seq(Octet) /\ m \in Nat /\ m + Len(p) <= Len(s)
  /\ \A i \in 1..Len(p) : s[m + i] = p[i]

\* Bytes stand in themselves.
LEMMA StandsWhole ==
  ASSUME NEW s, s \in Seq(Octet)
  PROVE  Stands(s, s, 0)
BY DEF Stands

\* Bytes that stand somewhere are what is cut there,
LEMMA StandsCut ==
  ASSUME NEW p, NEW s, NEW m, Stands(p, s, m), NEW n, n = m + Len(p)
  PROVE  Cut(s, m, n) = p
<1>1. PICK t \in Seq(Octet), q \in Seq(Octet), a \in Nat :
        t = s /\ q = p /\ a = m /\ a + Len(q) <= Len(t) /\ \A i \in 1..Len(q) : t[a + i] = q[i]
  BY DEF Stands
<1>2. PICK b \in Nat : b = a + Len(q)
  BY <1>1
<1>3. a <= b /\ b <= Len(t) /\ b - a = Len(q)
  BY <1>1, <1>2
<1>4. PICK c \in Nat : c = b - a /\ c = Len(q)
  BY <1>2
<1>5. /\ Cut(t, a, b) \in Seq(Octet) /\ Len(Cut(t, a, b)) = b - a
      /\ \A i \in 1..(b - a) : Cut(t, a, b)[i] = t[a + i]
  BY <1>3, CutProperties
<1>6. /\ Cut(t, a, b) \in Seq(Octet) /\ Len(Cut(t, a, b)) = Len(q)
      /\ \A i \in 1..Len(q) : Cut(t, a, b)[i] = q[i]
  BY <1>1, <1>4, <1>5
<1>7. Cut(t, a, b) = q
  BY <1>6, SeqEqual
<1> QED
  BY <1>1, <1>2, <1>7

\* or all that lies behind that position, if they reach the end.
LEMMA StandsFrom ==
  ASSUME NEW p, NEW s, NEW m, Stands(p, s, m), m + Len(p) = Len(s)
  PROVE  From(s, m) = p
<1>1. Cut(s, m, Len(s)) = p
  BY StandsCut
<1> QED
  BY <1>1, FromIsCut

\* Of bytes that stand somewhere each part does,
LEMMA StandsSplit ==
  ASSUME NEW a, NEW b, NEW s, NEW k, a \in Seq(Octet), b \in Seq(Octet), Stands(a \o b, s, k),
         NEW j, j = k + Len(a)
  PROVE  Stands(a, s, k) /\ Stands(b, s, j)
<1>1. PICK x \in Seq(Octet), y \in Seq(Octet), t \in Seq(Octet), n \in Nat :
        /\ x = a /\ y = b /\ t = s /\ n = k /\ n + Len(x \o y) <= Len(t)
        /\ \A i \in 1..Len(x \o y) : t[n + i] = (x \o y)[i]
  BY DEF Stands
<1>2. Len(x \o y) = Len(x) + Len(y) /\ Len(x) \in Nat /\ Len(y) \in Nat
  OBVIOUS
<1>3. ASSUME NEW i \in 1..Len(x) PROVE t[n + i] = x[i]
  <2>1. i \in 1..Len(x \o y) /\ (x \o y)[i] = x[i]
    BY <1>2
  <2> QED
    BY <1>1, <2>1
<1>4. ASSUME NEW i \in 1..Len(y) PROVE t[(n + Len(x)) + i] = y[i]
  <2>1. Len(x) + i \in 1..Len(x \o y) /\ (x \o y)[Len(x) + i] = y[i]
    BY <1>2
  <2>2. t[n + (Len(x) + i)] = y[i]
    BY <1>1, <2>1
  <2>3. n + (Len(x) + i) = (n + Len(x)) + i
    BY <1>2
  <2> QED
    BY <2>2, <2>3
<1>5. n + Len(x) <= Len(t) /\ n + Len(x) \in Nat /\ (n + Len(x)) + Len(y) <= Len(t)
  BY <1>1, <1>2
<1>6. Stands(x, t, n) /\ Stands(y, t, n + Len(x))
  BY <1>3, <1>4, <1>5 DEF Stands
<1> QED
  BY <1>1, <1>6

\* also where their lengths are numbers.
LEMMA StandsApart ==
  ASSUME NEW a, NEW b, NEW s, NEW k, NEW m, NEW n, IsBytes(a, m), IsBytes(b, n),
         Stands(a \o b, s, k), NEW j, j = k + m
  PROVE  Stands(a, s, k) /\ Stands(b, s, j)
BY StandsSplit DEF IsBytes

\* What is cut is as long as the bytes that stand there.
LEMMA StandsBytes ==
  ASSUME NEW p, NEW s, NEW m, NEW n, Stands(p, s, m), IsBytes(p, n), NEW j, j = m + n
  PROVE  Cut(s, m, j) = p
BY StandsCut DEF IsBytes

\* A number whose upper bytes are zero is its lower bytes, widened.
LEMMA AllZero ==
  ASSUME NEW w, IsBytes(w, 8)
  PROVE  /\ SubSeq(w, 5, 8) = Zeros(4) => Widen(SubSeq(w, 1, 4)) = w
         /\ SubSeq(w, 3, 8) = Zeros(6) => Widen(SubSeq(w, 1, 2)) = w
         /\ Widen(w) = w
<1>1. PICK s \in Seq(Octet) : s = w /\ Len(s) = 8
  BY DEF IsBytes
<1>2. /\ IsBytes(SubSeq(s, 1, 4), 4) /\ IsBytes(SubSeq(s, 1, 2), 2)
      /\ IsBytes(SubSeq(s, 5, 8), 4) /\ IsBytes(SubSeq(s, 3, 8), 6)
  BY <1>1, PartsAre DEF IsBytes
<1>3. SubSeq(s, 1, 4) \o SubSeq(s, 5, 8) = s
  <2>1. PICK x \in Seq(Octet), y \in Seq(Octet) :
          x = SubSeq(s, 1, 4) /\ y = SubSeq(s, 5, 8) /\ Len(x) = 4 /\ Len(y) = 4
    BY <1>2 DEF IsBytes
  <2>2. x \o y \in Seq(Octet) /\ Len(x \o y) = 8
    BY <2>1
  <2>3. ASSUME NEW i \in 1..8 PROVE (x \o y)[i] = s[i]
    BY <1>1, <2>1
  <2> QED
    BY <1>1, <2>1, <2>2, <2>3, SeqEqual
<1>4. SubSeq(s, 1, 2) \o SubSeq(s, 3, 8) = s
  <2>1. PICK x \in Seq(Octet), y \in Seq(Octet) :
          x = SubSeq(s, 1, 2) /\ y = SubSeq(s, 3, 8) /\ Len(x) = 2 /\ Len(y) = 6
    BY <1>2 DEF IsBytes
  <2>2. x \o y \in Seq(Octet) /\ Len(x \o y) = 8
    BY <2>1
  <2>3. ASSUME NEW i \in 1..8 PROVE (x \o y)[i] = s[i]
    BY <1>1, <2>1
  <2> QED
    BY <1>1, <2>1, <2>2, <2>3, SeqEqual
<1>5. SubSeq(w, 5, 8) = Zeros(4) => Widen(SubSeq(w, 1, 4)) = w
  BY <1>1, <1>2, <1>3, WidenIs
<1>6. SubSeq(w, 3, 8) = Zeros(6) => Widen(SubSeq(w, 1, 2)) = w
  <2>1. 8 - Len(SubSeq(s, 1, 2)) = 6
    BY <1>2 DEF IsBytes
  <2> QED
    BY <1>1, <1>4, <2>1 DEF Widen
<1>7. Widen(w) = w
  <2>1. 8 - Len(s) = 0
    BY <1>1
  <2>2. Zeros(0) = <<>>
    <3>1. Zeros(0) \in Seq(Octet) /\ Len(Zeros(0)) = 0
      BY ZerosAre
    <3> QED
      BY <3>1, EmptySeq
  <2>3. s \o <<>> = s
    OBVIOUS
  <2> QED
    BY <1>1, <2>1, <2>2, <2>3 DEF Widen
<1> QED
  BY <1>5, <1>6, <1>7

\* The bytes p are those of a, and then b from position m on up to k.
Ends(p, a, b, m, k) ==
  /\ p = a \o b /\ IsBytes(a, m) /\ IsBytes(b, k - m)
  /\ m \in Nat /\ k \in Nat /\ m <= k

\* Bytes that end with others are as long as both.
LEMMA EndsIs ==
  ASSUME NEW p, NEW a, NEW b, NEW m, NEW k, Ends(p, a, b, m, k)
  PROVE  IsBytes(p, k)
<1>1. IsBytes(a \o b, m + (k - m)) /\ m + (k - m) = k
  BY JoinedAre DEF Ends
<1> QED
  BY <1>1 DEF Ends

\* If they stand at the front, what they end with can be cut from there.
LEMMA EndsApart ==
  ASSUME NEW p, NEW a, NEW b, NEW m, NEW k, Ends(p, a, b, m, k), NEW s, Stands(p, s, 0)
  PROVE  Stands(a, s, 0) /\ Cut(s, m, k) = b
<1>1. PICK n \in Nat : n = k - m /\ k = m + n /\ m = 0 + m
  BY DEF Ends
<1>2. IsBytes(a, m) /\ IsBytes(b, n) /\ Stands(a \o b, s, 0)
  BY <1>1 DEF Ends
<1>3. Stands(a, s, 0) /\ Stands(b, s, m)
  BY <1>1, <1>2, StandsApart
<1> QED
  BY <1>1, <1>2, <1>3, StandsBytes

\* A number capped to two or four bytes is kept, unless the field is full.
LEMMA MinWidens ==
  ASSUME NEW w, IsBytes(w, 8)
  PROVE  /\ Min16(w) # U16 => Widen(Min16(w)) = w
         /\ Min32(w) # U32 => Widen(Min32(w)) = w
BY AllZero DEF Min16, Min32, ReachesU16, ReachesU32

\* The end record of the directory, field by field,
LEMMA EocdSplits ==
  ASSUME NEW e, IsEntry(e)
  PROVE  /\ IsBytes(Eocd(e), 22)
         /\ Cut(Eocd(e), 0, 4) = EocdSignature
         /\ Cut(Eocd(e), 4, 8) = Zeros(4)
         /\ Cut(Eocd(e), 8, 10) = Min16(e.entries)
         /\ Cut(Eocd(e), 10, 12) = Min16(e.entries)
         /\ Cut(Eocd(e), 12, 16) = Min32(e.directory_size)
         /\ Cut(Eocd(e), 16, 20) = Min32(e.directory_offset)
         /\ Cut(Eocd(e), 20, 22) = Le(Len(e.comment), 2)
<1> DEFINE p2 == EocdSignature \o Zeros(4)
           p3 == p2 \o Min16(e.entries)
           p4 == p3 \o Min16(e.entries)
           p5 == p4 \o Min32(e.directory_size)
           p6 == p5 \o Min32(e.directory_offset)
           p7 == p6 \o Le(Len(e.comment), 2)
<1>1. /\ IsBytes(EocdSignature, 4) /\ IsBytes(Zeros(4), 4) /\ IsBytes(Min16(e.entries), 2)
      /\ IsBytes(Min32(e.directory_size), 4) /\ IsBytes(Min32(e.directory_offset), 4)
      /\ IsBytes(Le(Len(e.comment), 2), 2)
  <2>1. IsBytes(Zeros(4), 4)
    BY ZerosAre DEF IsBytes
  <2>2. Len(e.comment) \in Nat
    BY EntryIs
  <2> QED
    BY <2>1, <2>2, SignaturesAre, EntryIs, InlineIs, LeWord
<1>2. Eocd(e) = p7
  BY DEF Eocd
<1> DEFINE q1 == EocdSignature
           q2 == Zeros(4)
           q3 == Min16(e.entries)
           q4 == Min16(e.entries)
           q5 == Min32(e.directory_size)
           q6 == Min32(e.directory_offset)
           q7 == Le(Len(e.comment), 2)
<1>3. /\ IsBytes(q1, 4) /\ IsBytes(q2, 4) /\ IsBytes(q3, 2) /\ IsBytes(q4, 2)
      /\ IsBytes(q5, 4) /\ IsBytes(q6, 4) /\ IsBytes(q7, 2)
  BY <1>1
<1>4. /\ p2 = q1 \o q2 /\ p3 = p2 \o q3 /\ p4 = p3 \o q4 /\ p5 = p4 \o q5 /\ p6 = p5 \o q6
      /\ p7 = p6 \o q7
  OBVIOUS
<1> HIDE DEF p2, p3, p4, p5, p6, p7, q1, q2, q3, q4, q5, q6, q7
<1>5. Ends(p2, q1, q2, 4, 8) /\ IsBytes(p2, 8)
  <2>1. Ends(p2, q1, q2, 4, 8)
    BY <1>3, <1>4 DEF Ends
  <2> QED
    BY <2>1, EndsIs
<1>6. Ends(p3, p2, q3, 8, 10) /\ IsBytes(p3, 10)
  <2>1. Ends(p3, p2, q3, 8, 10)
    BY <1>3, <1>4, <1>5 DEF Ends
  <2> QED
    BY <2>1, EndsIs
<1>7. Ends(p4, p3, q4, 10, 12) /\ IsBytes(p4, 12)
  <2>1. Ends(p4, p3, q4, 10, 12)
    BY <1>3, <1>4, <1>6 DEF Ends
  <2> QED
    BY <2>1, EndsIs
<1>8. Ends(p5, p4, q5, 12, 16) /\ IsBytes(p5, 16)
  <2>1. Ends(p5, p4, q5, 12, 16)
    BY <1>3, <1>4, <1>7 DEF Ends
  <2> QED
    BY <2>1, EndsIs
<1>9. Ends(p6, p5, q6, 16, 20) /\ IsBytes(p6, 20)
  <2>1. Ends(p6, p5, q6, 16, 20)
    BY <1>3, <1>4, <1>8 DEF Ends
  <2> QED
    BY <2>1, EndsIs
<1>10. Ends(p7, p6, q7, 20, 22) /\ IsBytes(p7, 22)
  <2>1. Ends(p7, p6, q7, 20, 22)
    BY <1>3, <1>4, <1>9 DEF Ends
  <2> QED
    BY <2>1, EndsIs
<1>11. Stands(p7, p7, 0)
  BY <1>10, StandsWhole DEF IsBytes
<1>12. Stands(p6, p7, 0) /\ Cut(p7, 20, 22) = q7
  BY <1>11, <1>10, EndsApart
<1>13. Stands(p5, p7, 0) /\ Cut(p7, 16, 20) = q6
  BY <1>12, <1>9, EndsApart
<1>14. Stands(p4, p7, 0) /\ Cut(p7, 12, 16) = q5
  BY <1>13, <1>8, EndsApart
<1>15. Stands(p3, p7, 0) /\ Cut(p7, 10, 12) = q4
  BY <1>14, <1>7, EndsApart
<1>16. Stands(p2, p7, 0) /\ Cut(p7, 8, 10) = q3
  BY <1>15, <1>6, EndsApart
<1>17. Stands(q1, p7, 0) /\ Cut(p7, 4, 8) = q2
  BY <1>16, <1>5, EndsApart
<1>18. Cut(p7, 0, 4) = q1
  <2>1. 4 = 0 + 4 /\ IsBytes(q1, 4)
    BY <1>3
  <2> QED
    BY <1>17, <2>1, StandsBytes
<1> QED
  BY <1>2, <1>10, <1>12, <1>13, <1>14, <1>15, <1>16, <1>17, <1>18 DEF q1, q2, q3, q4, q5, q6, q7

\* the zip64 end record,
LEMMA Eocd64Splits ==
  ASSUME NEW e, IsEntry(e)
  PROVE  /\ IsBytes(Eocd64(e), 56)
         /\ Cut(Eocd64(e), 0, 4) = Eocd64Signature
         /\ Cut(Eocd64(e), 4, 12) = Le(44, 8)
         /\ Cut(Eocd64(e), 12, 14) = Le(45, 2)
         /\ Cut(Eocd64(e), 14, 16) = Le(45, 2)
         /\ Cut(Eocd64(e), 16, 20) = Zeros(4)
         /\ Cut(Eocd64(e), 20, 24) = Zeros(4)
         /\ Cut(Eocd64(e), 24, 32) = e.entries
         /\ Cut(Eocd64(e), 32, 40) = e.entries
         /\ Cut(Eocd64(e), 40, 48) = e.directory_size
         /\ Cut(Eocd64(e), 48, 56) = e.directory_offset
<1> DEFINE p2 == Eocd64Signature \o Le(44, 8)
           p3 == p2 \o Le(45, 2)
           p4 == p3 \o Le(45, 2)
           p5 == p4 \o Zeros(4)
           p6 == p5 \o Zeros(4)
           p7 == p6 \o e.entries
           p8 == p7 \o e.entries
           p9 == p8 \o e.directory_size
           p10 == p9 \o e.directory_offset
<1>1. /\ IsBytes(Eocd64Signature, 4) /\ IsBytes(Zeros(4), 4) /\ IsBytes(Le(44, 8), 8)
      /\ IsBytes(Le(45, 2), 2) /\ IsBytes(e.entries, 8) /\ IsBytes(e.directory_size, 8)
      /\ IsBytes(e.directory_offset, 8)
  <2>1. IsBytes(Zeros(4), 4)
    BY ZerosAre DEF IsBytes
  <2>2. 44 \in Nat /\ 45 \in Nat /\ 8 \in Nat
    OBVIOUS
  <2>3. IsBytes(Le(44, 8), 8) /\ IsBytes(Le(45, 2), 2)
    BY <2>2, LeIs, LeWord DEF IsBytes
  <2> QED
    BY <2>1, <2>2, <2>3, SignaturesAre, EntryIs, WordIs
<1>2. Eocd64(e) = p10
  BY DEF Eocd64
<1> DEFINE q1 == Eocd64Signature
           q2 == Le(44, 8)
           q3 == Le(45, 2)
           q4 == Le(45, 2)
           q5 == Zeros(4)
           q6 == Zeros(4)
           q7 == e.entries
           q8 == e.entries
           q9 == e.directory_size
           q10 == e.directory_offset
<1>3. /\ IsBytes(q1, 4) /\ IsBytes(q2, 8) /\ IsBytes(q3, 2) /\ IsBytes(q4, 2)
      /\ IsBytes(q5, 4) /\ IsBytes(q6, 4) /\ IsBytes(q7, 8) /\ IsBytes(q8, 8)
      /\ IsBytes(q9, 8) /\ IsBytes(q10, 8)
  BY <1>1
<1>4. /\ p2 = q1 \o q2 /\ p3 = p2 \o q3 /\ p4 = p3 \o q4 /\ p5 = p4 \o q5 /\ p6 = p5 \o q6
      /\ p7 = p6 \o q7 /\ p8 = p7 \o q8 /\ p9 = p8 \o q9 /\ p10 = p9 \o q10
  OBVIOUS
<1> HIDE DEF p2, p3, p4, p5, p6, p7, p8, p9, p10, q1, q2, q3, q4, q5, q6, q7, q8, q9, q10
<1>5. Ends(p2, q1, q2, 4, 12) /\ IsBytes(p2, 12)
  <2>1. Ends(p2, q1, q2, 4, 12)
    BY <1>3, <1>4 DEF Ends
  <2> QED
    BY <2>1, EndsIs
<1>6. Ends(p3, p2, q3, 12, 14) /\ IsBytes(p3, 14)
  <2>1. Ends(p3, p2, q3, 12, 14)
    BY <1>3, <1>4, <1>5 DEF Ends
  <2> QED
    BY <2>1, EndsIs
<1>7. Ends(p4, p3, q4, 14, 16) /\ IsBytes(p4, 16)
  <2>1. Ends(p4, p3, q4, 14, 16)
    BY <1>3, <1>4, <1>6 DEF Ends
  <2> QED
    BY <2>1, EndsIs
<1>8. Ends(p5, p4, q5, 16, 20) /\ IsBytes(p5, 20)
  <2>1. Ends(p5, p4, q5, 16, 20)
    BY <1>3, <1>4, <1>7 DEF Ends
  <2> QED
    BY <2>1, EndsIs
<1>9. Ends(p6, p5, q6, 20, 24) /\ IsBytes(p6, 24)
  <2>1. Ends(p6, p5, q6, 20, 24)
    BY <1>3, <1>4, <1>8 DEF Ends
  <2> QED
    BY <2>1, EndsIs
<1>10. Ends(p7, p6, q7, 24, 32) /\ IsBytes(p7, 32)
  <2>1. Ends(p7, p6, q7, 24, 32)
    BY <1>3, <1>4, <1>9 DEF Ends
  <2> QED
    BY <2>1, EndsIs
<1>11. Ends(p8, p7, q8, 32, 40) /\ IsBytes(p8, 40)
  <2>1. Ends(p8, p7, q8, 32, 40)
    BY <1>3, <1>4, <1>10 DEF Ends
  <2> QED
    BY <2>1, EndsIs
<1>12. Ends(p9, p8, q9, 40, 48) /\ IsBytes(p9, 48)
  <2>1. Ends(p9, p8, q9, 40, 48)
    BY <1>3, <1>4, <1>11 DEF Ends
  <2> QED
    BY <2>1, EndsIs
<1>13. Ends(p10, p9, q10, 48, 56) /\ IsBytes(p10, 56)
  <2>1. Ends(p10, p9, q10, 48, 56)
    BY <1>3, <1>4, <1>12 DEF Ends
  <2> QED
    BY <2>1, EndsIs
<1>14. Stands(p10, p10, 0)
  BY <1>13, StandsWhole DEF IsBytes
<1>15. Stands(p9, p10, 0) /\ Cut(p10, 48, 56) = q10
  BY <1>14, <1>13, EndsApart
<1>16. Stands(p8, p10, 0) /\ Cut(p10, 40, 48) = q9
  BY <1>15, <1>12, EndsApart
<1>17. Stands(p7, p10, 0) /\ Cut(p10, 32, 40) = q8
  BY <1>16, <1>11, EndsApart
<1>18. Stands(p6, p10, 0) /\ Cut(p10, 24, 32) = q7
  BY <1>17, <1>10, EndsApart
<1>19. Stands(p5, p10, 0) /\ Cut(p10, 20, 24) = q6
  BY <1>18, <1>9, EndsApart
<1>20. Stands(p4, p10, 0) /\ Cut(p10, 16, 20) = q5
  BY <1>19, <1>8, EndsApart
<1>21. Stands(p3, p10, 0) /\ Cut(p10, 14, 16) = q4
  BY <1>20, <1>7, EndsApart
<1>22. Stands(p2, p10, 0) /\ Cut(p10, 12, 14) = q3
  BY <1>21, <1>6, EndsApart
<1>23. Stands(q1, p10, 0) /\ Cut(p10, 4, 12) = q2
  BY <1>22, <1>5, EndsApart
<1>24. Cut(p10, 0, 4) = q1
  <2>1. 4 = 0 + 4 /\ IsBytes(q1, 4)
    BY <1>3
  <2> QED
    BY <1>23, <2>1, StandsBytes
<1> QED
  BY <1>2, <1>13, <1>15, <1>16, <1>17, <1>18, <1>19, <1>20, <1>21, <1>22, <1>23, <1>24
     DEF q1, q2, q3, q4, q5, q6, q7, q8, q9, q10

\* and its locator.
LEMMA Locator64Splits ==
  ASSUME NEW position, position \in Words(8)
  PROVE  /\ IsBytes(Locator64(position), 20)
         /\ Cut(Locator64(position), 0, 4) = LocatorSignature
         /\ Cut(Locator64(position), 4, 8) = Zeros(4)
         /\ Cut(Locator64(position), 8, 16) = position
         /\ Cut(Locator64(position), 16, 20) = Le(1, 4)
<1> DEFINE p2 == LocatorSignature \o Zeros(4)
           p3 == p2 \o position
           p4 == p3 \o Le(1, 4)
<1>1. /\ IsBytes(LocatorSignature, 4) /\ IsBytes(Zeros(4), 4) /\ IsBytes(position, 8)
      /\ IsBytes(Le(1, 4), 4)
  <2>1. IsBytes(Zeros(4), 4)
    BY ZerosAre DEF IsBytes
  <2>2. 1 \in Nat /\ 4 \in Nat /\ 8 \in Nat
    OBVIOUS
  <2> QED
    BY <2>1, <2>2, SignaturesAre, LeIs, WordIs DEF IsBytes
<1>2. Locator64(position) = p4
  BY DEF Locator64
<1> DEFINE q1 == LocatorSignature
           q2 == Zeros(4)
           q3 == position
           q4 == Le(1, 4)
<1>3. IsBytes(q1, 4) /\ IsBytes(q2, 4) /\ IsBytes(q3, 8) /\ IsBytes(q4, 4)
  BY <1>1
<1>4. p2 = q1 \o q2 /\ p3 = p2 \o q3 /\ p4 = p3 \o q4
  OBVIOUS
<1> HIDE DEF p2, p3, p4, q1, q2, q3, q4
<1>5. Ends(p2, q1, q2, 4, 8) /\ IsBytes(p2, 8)
  <2>1. Ends(p2, q1, q2, 4, 8)
    BY <1>3, <1>4 DEF Ends
  <2> QED
    BY <2>1, EndsIs
<1>6. Ends(p3, p2, q3, 8, 16) /\ IsBytes(p3, 16)
  <2>1. Ends(p3, p2, q3, 8, 16)
    BY <1>3, <1>4, <1>5 DEF Ends
  <2> QED
    BY <2>1, EndsIs
<1>7. Ends(p4, p3, q4, 16, 20) /\ IsBytes(p4, 20)
  <2>1. Ends(p4, p3, q4, 16, 20)
    BY <1>3, <1>4, <1>6 DEF Ends
  <2> QED
    BY <2>1, EndsIs
<1>8. Stands(p4, p4, 0)
  BY <1>7, StandsWhole DEF IsBytes
<1>9. Stands(p3, p4, 0) /\ Cut(p4, 16, 20) = q4
  BY <1>8, <1>7, EndsApart
<1>10. Stands(p2, p4, 0) /\ Cut(p4, 8, 16) = q3
  BY <1>9, <1>6, EndsApart
<1>11. Stands(q1, p4, 0) /\ Cut(p4, 4, 8) = q2
  BY <1>10, <1>5, EndsApart
<1>12. Cut(p4, 0, 4) = q1
  <2>1. 4 = 0 + 4 /\ IsBytes(q1, 4)
    BY <1>3
  <2> QED
    BY <1>11, <2>1, StandsBytes
<1> QED
  BY <1>2, <1>7, <1>9, <1>10, <1>11, <1>12 DEF q1, q2, q3, q4

\* The layouts of the end records have 22 and 56 bytes.
LEMMA EndLayouts == SizeOf(EocdParsed) = 22 /\ SizeOf(Eocd64Parsed) = 56
<1>1. Within(EocdParsed, 22) /\ Within(Eocd64Parsed, 56)
  BY DEF Within, EocdParsed, Eocd64Parsed
<1>2. /\ "comment_len" \in DOMAIN EocdParsed /\ EocdParsed["comment_len"][2] = 22
      /\ "central_dir_offset" \in DOMAIN Eocd64Parsed
      /\ Eocd64Parsed["central_dir_offset"][2] = 56
  BY DEF EocdParsed, Eocd64Parsed
<1>3. 22 \in 0..64 /\ 56 \in 0..64
  OBVIOUS
<1> QED
  BY <1>1, <1>2, <1>3, SizeIs

(***************************************************************************)
(* The records at the end of the directory are read as they were written,  *)
(* the zip64 ones where the first is full.                                 *)
(***************************************************************************)
LEMMA EndIsParsed ==
  ASSUME IsEntry(entry)
  PROVE  EndAsWritten
<1> DEFINE s == Eocd(entry)
           s64 == Eocd64(entry)
           l == Locator64(entry.directory_offset)
           end == Get(EocdParsed, s)
           end64 == Get(Eocd64Parsed, s64)
           sentinel == \/ end.num_entries = U16 \/ end.total_entries = U16
                       \/ end.central_dir_size = U32 \/ end.central_dir_offset = U32
<1>1. /\ end.num_entries = Cut(s, 8, 10) /\ end.total_entries = Cut(s, 10, 12)
      /\ end.central_dir_size = Cut(s, 12, 16) /\ end.central_dir_offset = Cut(s, 16, 20)
      /\ end.comment_len = Cut(s, 20, 22)
  BY DEF Get, EocdParsed
<1>2. /\ end64.num_entries = Cut(s64, 24, 32) /\ end64.central_dir_size = Cut(s64, 40, 48)
      /\ end64.central_dir_offset = Cut(s64, 48, 56)
  BY DEF Get, Eocd64Parsed
<1>3. Get(LocatorParsed, l).directory_offset = Cut(l, 8, 16)
  BY DEF Get, LocatorParsed
<1>4. /\ end.num_entries = Min16(entry.entries) /\ end.total_entries = Min16(entry.entries)
      /\ end.central_dir_size = Min32(entry.directory_size)
      /\ end.central_dir_offset = Min32(entry.directory_offset)
      /\ end.comment_len = Le(Len(entry.comment), 2)
      /\ IsBytes(s, 22) /\ Cut(s, 0, 4) = EocdSignature
  <2> HIDE DEF end
  <2> QED
    BY <1>1, EocdSplits
<1>5. /\ end64.num_entries = entry.entries /\ end64.central_dir_size = entry.directory_size
      /\ end64.central_dir_offset = entry.directory_offset
      /\ IsBytes(s64, 56) /\ Cut(s64, 0, 4) = Eocd64Signature
  <2> HIDE DEF end64
  <2> QED
    BY <1>2, Eocd64Splits
<1>6. Get(LocatorParsed, l).directory_offset = entry.directory_offset
  BY <1>3, EntryIs, Locator64Splits
<1>7. Readable(EocdParsed, EocdSignature, s) /\ Readable(Eocd64Parsed, Eocd64Signature, s64)
  <2>1. Len(s) = 22 /\ Len(s64) = 56
    BY <1>4, <1>5 DEF IsBytes
  <2> QED
    BY <1>4, <1>5, <2>1, EndLayouts DEF Readable
<1>8. /\ IsBytes(entry.entries, 8) /\ IsBytes(entry.directory_size, 8)
      /\ IsBytes(entry.directory_offset, 8)
  <2>1. 8 \in Nat
    OBVIOUS
  <2> QED
    BY <2>1, EntryIs, WordIs
<1>9. ASSUME ~ sentinel
      PROVE  /\ entry.entries = Widen(end.total_entries)
             /\ entry.directory_size = Widen(end.central_dir_size)
             /\ entry.directory_offset = Widen(end.central_dir_offset)
  <2> HIDE DEF end
  <2> QED
    BY <1>4, <1>8, <1>9, MinWidens
<1> HIDE DEF end, end64, s, s64, l
<1> QED
  BY <1>4, <1>5, <1>6, <1>7, <1>9 DEF EndAsWritten, end, end64, s, s64, l

\* Bytes that stand at the front are what is cut from it.
LEMMA FrontOf ==
  ASSUME NEW a, NEW b, NEW s, NEW n, IsBytes(a, n), b \in Seq(Octet), s \in Seq(Octet),
         Stands(a, s, 0)
  PROVE  n \in Nat /\ n <= Len(s) /\ Cut(s, 0, n) = a
<1>1. Len(a) \in Nat /\ n = Len(a) /\ n = 0 + n
  BY DEF IsBytes
<1>2. Cut(s, 0, n) = a
  BY <1>1, StandsBytes
<1>3. n <= Len(s)
  BY <1>1 DEF Stands
<1> QED
  BY <1>1, <1>2, <1>3

\* A header is read as it was put, whatever follows it.
LEMMA ReadBack ==
  ASSUME NEW layout, NEW n, Tiles(layout, n), NEW header, Fills(layout, header),
         header = [f \in DOMAIN layout |-> header[f]],
         NEW s, s \in Seq(Octet), Stands(Put(layout, header), s, 0)
  PROVE  Get(layout, s) = header /\ n <= Len(s)
<1> DEFINE p == Put(layout, header)
<1>1. IsBytes(p, n)
  BY PutIs DEF IsBytes
<1>2. \A f \in DOMAIN layout : Cut(p, layout[f][1], layout[f][2]) = header[f]
  BY PutIs
<1>3. Stands(p, s, 0)
  OBVIOUS
<1> HIDE DEF p
<1>4. n \in Nat /\ n <= Len(s) /\ Cut(s, 0, n) = p
  BY <1>1, <1>3, FrontOf
<1>5. ASSUME NEW f \in DOMAIN layout
      PROVE  Cut(s, layout[f][1], layout[f][2]) = header[f]
  <2>1. PICK a \in Nat, b \in Nat : a = layout[f][1] /\ b = layout[f][2] /\ a <= b /\ b <= n
    BY DEF Tiles
  <2>2. Cut(Cut(s, 0, n), a, b) = Cut(s, a, b)
    BY <1>4, <2>1, CutOfFront
  <2>3. Cut(p, a, b) = header[f]
    BY <1>2, <2>1
  <2> QED
    BY <1>4, <2>1, <2>2, <2>3
<1>6. Get(layout, s) = header
  BY <1>5 DEF Get
<1> QED
  BY <1>4, <1>6

\* A length below 2^16 is read as it was written.
LEMMA LeReads ==
  ASSUME NEW n, n \in Nat, n <= 65535
  PROVE  LeU16(Le(n, 2), 1) = n
<1>1. PICK x \in Octet, y \in Octet : x = n % 256 /\ y = n \div 256 /\ n = x + 256 * y
  BY TwoBytes
<1>2. y % 256 = y
  BY <1>1 DEF Octet
<1>3. Le(n, 2)[1] = x /\ Le(n, 2)[2] = y
  <2>1. Le(n, 2) = [i \in 1..2 |-> CASE i = 1 -> n % 256
                                     [] i = 2 -> (n \div 256) % 256
                                     [] i = 3 -> (n \div 65536) % 256
                                     [] OTHER -> 0]
    BY DEF Le
  <2> QED
    BY <1>1, <1>2, <2>1
<1>4. x \in Int /\ y \in Int
  BY DEF Octet
<1> QED
  BY <1>1, <1>3, <1>4 DEF LeU16

\* The headers have the fields of their layouts.
LEMMA CentralRecordOf ==
  ASSUME NEW e
  PROVE  CentralHeader(e) = [f \in DOMAIN CentralWritten |-> CentralHeader(e)[f]]
<1> DEFINE version == IF WideWritten(e) \/ Goes64(e, e.local_header_offset) THEN 45 ELSE 20
           made == <<version, IF e.unix_permissions = <<>> THEN 0 ELSE 3>>
           needed == <<version, 0>>
           disk == IF Forced(e) THEN U16 ELSE Zeros(2)
           mode == Zeros(2) \o (IF e.unix_permissions = <<>> THEN Zeros(2) ELSE e.unix_permissions)
           extra == Le(Len(CentralExtra(e)), 2)
<1>1. PICK r : r = CentralHeader(e)
  OBVIOUS
<1>2. r = [signature |-> CentralSignature, version_made_by |-> made,
           version_needed |-> needed, flags |-> e.flags,
           compression_method |-> e.compression_method,
           last_mod_time |-> SubSeq(e.dos, 1, 2), last_mod_date |-> SubSeq(e.dos, 3, 4),
           crc32 |-> e.crc, compressed_size |-> Inline(e, e.compressed_size),
           uncompressed_size |-> Inline(e, e.uncompressed_size),
           file_name_len |-> Le(Len(e.name), 2), extra_field_len |-> extra,
           file_comment_len |-> Le(Len(e.comment), 2), disk_number_start |-> disk,
           internal_file_attrs |-> Zeros(2), external_file_attrs |-> mode,
           local_header_offset |-> Inline(e, e.local_header_offset)]
  BY <1>1, Zenon DEF CentralHeader
<1>3. DOMAIN r = DOMAIN CentralWritten
  BY <1>1 DEF CentralHeader, CentralWritten
<1> HIDE DEF version, made, needed, disk, mode, extra
<1>4. r = [f \in DOMAIN r |-> r[f]]
  BY <1>2
<1> QED
  BY <1>1, <1>3, <1>4, Zenon

LEMMA LocalRecordOf ==
  ASSUME NEW e
  PROVE  LocalHeader(e) = [f \in DOMAIN LocalWritten |-> LocalHeader(e)[f]]
<1>1. ASSUME NEW h, h = LocalHeader(e) PROVE h = [f \in DOMAIN h |-> h[f]]
  BY <1>1 DEF LocalHeader
<1>2. DOMAIN LocalHeader(e) = DOMAIN LocalWritten
  BY DEF LocalHeader, LocalWritten
<1>3. LocalHeader(e) = [f \in DOMAIN LocalHeader(e) |-> LocalHeader(e)[f]]
  BY <1>1, Zenon
<1> QED
  BY <1>2, <1>3, Zenon

\* Four pieces, one behind the other, the first as long as a header.
Four(h, n, x, c) == ((h \o n) \o x) \o c

\* A parser finds each of them behind the header.
LEMMA FourPieces ==
  ASSUME NEW h, NEW n, NEW x, NEW c,
         NEW k \in Nat, NEW i \in Nat, NEW j \in Nat, NEW l \in Nat,
         IsBytes(h, k), IsBytes(n, i), IsBytes(x, j), IsBytes(c, l),
         NEW s, s = Four(h, n, x, c)
  PROVE  /\ s \in Seq(Octet) /\ Stands(h, s, 0) /\ k <= Len(s)
         /\ Cut(From(s, k), 0, i) = n /\ Cut(From(s, k), i, i + j) = x
         /\ Cut(From(s, k), i + j, i + j + l) = c
         /\ IsBytes(From(s, k), i + j + l)
<1>1. PICK u \in Nat, v \in Nat, w \in Nat : u = k + i /\ v = k + (i + j) /\ w = k + (i + j + l)
  OBVIOUS
<1>2. u - k = i /\ v - u = j /\ w - v = l /\ k <= u /\ u <= v /\ v <= w /\ w - k = i + j + l
  BY <1>1
<1>3. PICK p1, p2 : p1 = h \o n /\ p2 = p1 \o x /\ s = p2 \o c
  BY DEF Four
<1>4. Ends(p1, h, n, k, u)
  BY <1>2, <1>3 DEF Ends
<1>5. Ends(p2, p1, x, u, v)
  <2>1. IsBytes(p1, u)
    BY <1>4, EndsIs
  <2> QED
    BY <1>2, <1>3, <2>1 DEF Ends
<1>6. Ends(s, p2, c, v, w)
  <2>1. IsBytes(p2, v)
    BY <1>5, EndsIs
  <2> QED
    BY <1>2, <1>3, <2>1 DEF Ends
<1>7. s \in Seq(Octet) /\ Len(s) = w
  BY <1>6, EndsIs DEF IsBytes
<1>8. Stands(p2, s, 0) /\ Cut(s, v, w) = c
  <2>1. Stands(s, s, 0)
    BY <1>7, StandsWhole
  <2> QED
    BY <1>6, <2>1, EndsApart
<1>9. Stands(p1, s, 0) /\ Cut(s, u, v) = x
  BY <1>5, <1>8, EndsApart
<1>10. Stands(h, s, 0) /\ Cut(s, k, u) = n
  BY <1>4, <1>9, EndsApart
<1>11. k + 0 = k /\ k + i = u /\ k + (i + j) = v /\ k + (i + j + l) = w /\ 0 \in Nat
         /\ i + j \in Nat /\ i + j + l \in Nat /\ i <= i + j /\ i + j <= i + j + l /\ 0 <= i
  BY <1>1
<1>12. /\ Cut(From(s, k), 0, i) = Cut(s, k + 0, k + i)
       /\ Cut(From(s, k), i, i + j) = Cut(s, k + i, k + (i + j))
       /\ Cut(From(s, k), i + j, i + j + l) = Cut(s, k + (i + j), k + (i + j + l))
  <2>1. k + i <= Len(s) /\ k + (i + j) <= Len(s) /\ k + (i + j + l) <= Len(s)
    BY <1>2, <1>7, <1>11
  <2> QED
    BY <1>7, <1>11, <2>1, CutOfFrom
<1>13. k <= Len(s)
  BY <1>2, <1>7
<1>14. Len(From(s, k)) = Len(s) - k
  BY <1>7, <1>13, FromBounds
<1>15. IsBytes(From(s, k), i + j + l)
  <2>1. From(s, k) \in Seq(Octet) /\ Len(From(s, k)) = i + j + l
    BY <1>2, <1>7, <1>13, <1>14, FromBounds
  <2> QED
    BY <1>11, <2>1 DEF IsBytes
<1> QED
  BY <1>7, <1>8, <1>9, <1>10, <1>11, <1>12, <1>13, <1>15

\* Bytes that end with others, byte by byte.
LEMMA EndsAt ==
  ASSUME NEW p, NEW a, NEW b, NEW m, NEW k, Ends(p, a, b, m, k)
  PROVE  /\ \A i \in 1..m : p[i] = a[i]
         /\ \A i \in 1..(k - m) : p[m + i] = b[i]
<1>1. PICK x \in Seq(Octet), y \in Seq(Octet) :
        x = a /\ y = b /\ Len(x) = m /\ Len(y) = k - m /\ p = x \o y
  BY DEF Ends, IsBytes
<1>2. m \in Nat /\ k - m \in Nat
  BY DEF Ends
<1>3. \A i \in 1..m : (x \o y)[i] = x[i]
  BY <1>1, <1>2
<1>4. \A i \in 1..(k - m) : (x \o y)[m + i] = y[i]
  BY <1>1, <1>2
<1> QED
  BY <1>1, <1>3, <1>4

\* What they end with is what lies behind.
LEMMA EndsFrom ==
  ASSUME NEW p, NEW a, NEW b, NEW m, NEW k, Ends(p, a, b, m, k)
  PROVE  From(p, m) = b
<1>1. p \in Seq(Octet) /\ Len(p) = k
  BY EndsIs DEF IsBytes
<1>2. Stands(p, p, 0)
  BY <1>1, StandsWhole
<1>3. Cut(p, m, k) = b
  BY <1>2, EndsApart
<1> QED
  BY <1>1, <1>3, FromIsCut

\* The zip64 field of a header is one field, and its body is what is behind
\* the first four bytes.
LEMMA Field64Whole ==
  ASSUME NEW body, body \in Seq(Octet), body # <<>>, Len(body) <= 65535
  PROVE  /\ Field64(body) \in Seq(Octet) /\ WholeField(Field64(body))
         /\ LeU16(Field64(body), 1) = ZIP64 /\ From(Field64(body), 4) = body
<1> DEFINE l == Le(Len(body), 2)
           h == <<ZIP64, 0>>
           hl == h \o l
           g == hl \o body
<1>1. PICK n \in Nat : n = Len(body) /\ n <= 65535
  OBVIOUS
<1>2. PICK k \in Nat : k = 4 + n
  OBVIOUS
<1>3. IsBytes(l, 2) /\ l[1] + 256 * l[2] = n
  BY <1>1, LeWord, LeReads DEF LeU16
<1>4. IsBytes(h, 2) /\ h[1] = 1 /\ h[2] = 0
  BY OctetsAre, BytesIs DEF ZIP64
<1>5. IsBytes(body, k - 4)
  BY <1>1, <1>2 DEF IsBytes
<1>6. Field64(body) = g /\ hl = h \o l /\ g = hl \o body
  BY DEF Field64
<1> HIDE DEF l, h, hl, g
<1>7. Ends(hl, h, l, 2, 4)
  BY <1>3, <1>4, <1>6 DEF Ends
<1>8. Ends(g, hl, body, 4, k)
  <2>1. IsBytes(hl, 4)
    BY <1>7, EndsIs
  <2> QED
    BY <1>2, <1>5, <1>6, <2>1 DEF Ends
<1>9. hl[1] = 1 /\ hl[2] = 0 /\ hl[3] = l[1] /\ hl[4] = l[2]
  <2>1. /\ \A i \in 1..2 : hl[i] = h[i]
        /\ \A i \in 1..(4 - 2) : hl[2 + i] = l[i]
    BY <1>7, EndsAt
  <2> QED
    BY <1>4, <2>1
<1>10. g[1] = 1 /\ g[2] = 0 /\ g[3] = l[1] /\ g[4] = l[2]
  <2>1. \A i \in 1..4 : g[i] = hl[i]
    BY <1>8, EndsAt
  <2> QED
    BY <1>9, <2>1
<1>11. g \in Seq(Octet) /\ Len(g) = k
  BY <1>8, EndsIs DEF IsBytes
<1>12. From(g, 4) = body
  BY <1>8, EndsFrom
<1>13. LeU16(g, 3) = n /\ LeU16(g, 1) = 1
  BY <1>3, <1>10 DEF LeU16
<1>14. ~ Len(g) < 4 /\ ~ Len(g) < 4 + LeU16(g, 3) /\ 4 + LeU16(g, 3) = k /\ k >= 4
  BY <1>2, <1>11, <1>13
<1>15. WholeField(g)
  BY <1>11, <1>14 DEF WholeField, NextLength
<1> QED
  BY <1>6, <1>11, <1>12, <1>13, <1>15 DEF ZIP64

\* The pieces of a central record, and their lengths as the header has them.
LEMMA CentralPieces ==
  ASSUME NEW e, IsEntry(e)
  PROVE  \E n \in Seq(Octet), x \in Seq(Octet), c \in Seq(Octet), i \in Nat, j \in Nat, l \in Nat :
           /\ n = e.name /\ x = CentralExtra(e) /\ c = e.comment
           /\ IsBytes(n, i) /\ IsBytes(x, j) /\ IsBytes(c, l)
           /\ LeU16(CentralHeader(e).file_name_len, 1) = i
           /\ LeU16(CentralHeader(e).extra_field_len, 1) = j
           /\ LeU16(CentralHeader(e).file_comment_len, 1) = l
           /\ IsBytes(Put(CentralWritten, CentralHeader(e)), 46)
           /\ CentralRecord(e) = Four(Put(CentralWritten, CentralHeader(e)), n, x, c)
<1>1. PICK n \in Seq(Octet), x \in Seq(Octet), c \in Seq(Octet) :
        n = e.name /\ x = CentralExtra(e) /\ c = e.comment
  BY EntryIs, CentralExtraIs
<1>2. PICK i \in Nat, j \in Nat, l \in Nat : i = Len(n) /\ j = Len(x) /\ l = Len(c)
  OBVIOUS
<1>3. i <= 65535 /\ j <= 65535 /\ l <= 65535
  BY <1>1, <1>2 DEF IsEntry, Writable
<1>4. /\ CentralHeader(e).file_name_len = Le(i, 2)
      /\ CentralHeader(e).extra_field_len = Le(j, 2)
      /\ CentralHeader(e).file_comment_len = Le(l, 2)
  BY <1>1, <1>2 DEF CentralHeader
<1>5. /\ LeU16(Le(i, 2), 1) = i /\ LeU16(Le(j, 2), 1) = j /\ LeU16(Le(l, 2), 1) = l
  BY <1>3, LeReads
<1>6. IsBytes(n, i) /\ IsBytes(x, j) /\ IsBytes(c, l)
  BY <1>2 DEF IsBytes
<1>7. IsBytes(Put(CentralWritten, CentralHeader(e)), 46)
  <2>1. \A m : Tiles(CentralWritten, m) => IsBytes(Put(CentralWritten, CentralHeader(e)), m)
    BY CentralFills, PutIs DEF IsBytes
  <2> QED
    BY <2>1, CentralTiles
<1>8. CentralRecord(e) = Four(Put(CentralWritten, CentralHeader(e)), n, x, c)
  BY <1>1 DEF CentralRecord, Four
<1> QED
  BY <1>1, <1>4, <1>5, <1>6, <1>7, <1>8

\* The variable part of a central record is read as it was written,
LEMMA CentralVariable ==
  ASSUME NEW e, IsEntry(e)
  PROVE  /\ VariableFields(CentralHeader(e), From(CentralRecord(e), 46)) =
              [file_name |-> e.name, extra_field |-> CentralExtra(e),
               file_comment |-> e.comment, whole |-> TRUE]
         /\ CentralRecord(e) \in Seq(Octet)
         /\ Stands(Put(CentralWritten, CentralHeader(e)), CentralRecord(e), 0)
<1>1. PICK n \in Seq(Octet), x \in Seq(Octet), c \in Seq(Octet), i \in Nat, j \in Nat, l \in Nat :
        /\ n = e.name /\ x = CentralExtra(e) /\ c = e.comment
        /\ IsBytes(n, i) /\ IsBytes(x, j) /\ IsBytes(c, l)
        /\ LeU16(CentralHeader(e).file_name_len, 1) = i
        /\ LeU16(CentralHeader(e).extra_field_len, 1) = j
        /\ LeU16(CentralHeader(e).file_comment_len, 1) = l
        /\ IsBytes(Put(CentralWritten, CentralHeader(e)), 46)
        /\ CentralRecord(e) = Four(Put(CentralWritten, CentralHeader(e)), n, x, c)
  BY CentralPieces
<1>2. PICK s, h, p : s = CentralRecord(e) /\ h = CentralHeader(e) /\ p = Put(CentralWritten, h)
  OBVIOUS
<1>3. PICK k \in Nat : k = 46
  OBVIOUS
<1>4. /\ s \in Seq(Octet) /\ Stands(p, s, 0)
      /\ Cut(From(s, k), 0, i) = n /\ Cut(From(s, k), i, i + j) = x
      /\ Cut(From(s, k), i + j, i + j + l) = c
      /\ IsBytes(From(s, k), i + j + l)
  <2>1. IsBytes(p, k) /\ s = Four(p, n, x, c)
    BY <1>1, <1>2, <1>3
  <2>2. IsBytes(n, i) /\ IsBytes(x, j) /\ IsBytes(c, l)
    BY <1>1
  <2> HIDE <1>1, <1>2, <1>3
  <2> QED
    BY <2>1, <2>2, FourPieces
<1>5. PICK t : t = From(s, k)
  OBVIOUS
<1>6. VariableFields(h, t) = [file_name |-> Cut(t, 0, i), extra_field |-> Cut(t, i, i + j),
                              file_comment |-> Cut(t, i + j, i + j + l),
                              whole |-> i + j + l <= Len(t)]
  BY <1>1, <1>2 DEF VariableFields
<1>7. i + j + l <= Len(t)
  BY <1>4, <1>5 DEF IsBytes
<1>8. VariableFields(h, t) = [file_name |-> n, extra_field |-> x, file_comment |-> c,
                              whole |-> TRUE]
  BY <1>4, <1>5, <1>6, <1>7
<1> QED
  BY <1>1, <1>2, <1>3, <1>4, <1>5, <1>8

\* and so is all of it.
LEMMA CentralRead ==
  ASSUME NEW e, IsEntry(e), NEW s, s = CentralRecord(e)
  PROVE  CentralEntry(s) =
           {FromParts(CentralHeader(e),
                      [file_name |-> e.name, extra_field |-> CentralExtra(e),
                       file_comment |-> e.comment, whole |-> TRUE])}
<1> DEFINE h == CentralHeader(e)
           v == [file_name |-> e.name, extra_field |-> CentralExtra(e),
                 file_comment |-> e.comment, whole |-> TRUE]
<1>1. s \in Seq(Octet) /\ Stands(Put(CentralWritten, h), s, 0)
  BY CentralVariable
<1>2. Get(CentralWritten, s) = h /\ 46 <= Len(s)
  BY <1>1, CentralTiles, CentralFills, CentralRecordOf, ReadBack
<1>3. h.signature = CentralSignature
  BY DEF CentralHeader
<1>4. Get(CentralWritten, s).signature = Cut(s, 0, 4)
  BY DEF Get, CentralWritten
<1>5. SizeOf(CentralWritten) = 46
  BY CentralTiles DEF Tiles
<1>6. Readable(CentralWritten, CentralSignature, s)
  <2>1. Len(s) \in Nat
    BY <1>1
  <2>2. Len(s) >= 46
    BY <1>2, <2>1
  <2> QED
    BY <1>2, <1>3, <1>4, <1>5, <2>2 DEF Readable
<1>7. VariableFields(h, From(s, 46)) = v
  BY CentralVariable
<1>8. v.whole = TRUE
  OBVIOUS
<1> HIDE DEF h, v
<1> QED
  BY <1>2, <1>5, <1>6, <1>7, <1>8, CentralSame DEF CentralEntry, h, v

\* The fields G are the fields F and g behind them.
OneBehind(G, F, g, n) ==
  /\ G = Append(F, g) /\ n = Len(F) /\ Len(G) = n + 1 /\ G[n + 1] = g
  /\ \A i \in 1..n : G[i] = F[i]
  /\ FlattenSeq(G) = FlattenSeq(F) \o g

\* A field behind whole fields, both as a sequence of fields and as bytes.
LEMMA OneMore ==
  ASSUME NEW F \in Seq(Seq(Octet)), NEW g \in Seq(Octet)
  PROVE  \E G \in Seq(Seq(Octet)), n \in Nat : OneBehind(G, F, g, n)
<1>1. FlattenSeq(Append(F, g)) = FlattenSeq(F) \o g
  BY FlattenAppend
<1>2. Append(F, g) \in Seq(Seq(Octet))
  BY AppendProperties
<1>n. PICK n \in Nat : n = Len(F)
  OBVIOUS
<1>g. PICK G \in Seq(Seq(Octet)) : G = Append(F, g)
  BY <1>2
<1>3. G = Append(F, g) /\ n = Len(F)
  BY <1>n, <1>g
<1>4. Len(G) = n + 1 /\ G[n + 1] = g /\ \A i \in 1..n : G[i] = F[i]
  BY <1>3
<1>5. FlattenSeq(G) = FlattenSeq(F) \o g
  BY <1>1, <1>3
<1>6. OneBehind(G, F, g, n)
  BY <1>3, <1>4, <1>5 DEF OneBehind
<1> QED
  BY <1>6

\* Whole fields and one behind them are parsed as such.
LEMMA WholeAndOne ==
  ASSUME NEW F \in Seq(Seq(Octet)), NEW g \in Seq(Octet), AllWhole(F), WholeField(g)
  PROVE  Parse(FlattenSeq(F) \o g) = [fields |-> Append(F, g), rest |-> <<>>]
<1>2. PICK G \in Seq(Seq(Octet)), n \in Nat : OneBehind(G, F, g, n)
  BY OneMore
<1>3. /\ G = Append(F, g) /\ n = Len(F) /\ Len(G) = n + 1 /\ G[n + 1] = g
      /\ \A i \in 1..n : G[i] = F[i]
      /\ FlattenSeq(G) = FlattenSeq(F) \o g
  BY <1>2 DEF OneBehind
<1>4. AllWhole(G)
  <2>1. \A i \in 1..n : WholeField(F[i])
    BY <1>3 DEF AllWhole
  <2>2. ASSUME NEW i \in 1..(n + 1) PROVE WholeField(G[i])
    <3>1. CASE i = n + 1
      BY <1>3, <3>1
    <3>2. CASE i # n + 1
      <4>1. i \in 1..n
        BY <3>2
      <4> QED
        BY <1>3, <2>1, <4>1
    <3> QED
      BY <3>1, <3>2
  <2> QED
    BY <1>3, <2>2 DEF AllWhole
<1>5. Parse(FlattenSeq(G)) = [fields |-> G, rest |-> <<>>]
  BY <1>3, <1>4, ParseOfAll
<1> QED
  BY <1>3, <1>5

\* Bytes are the fields that are parsed from them, and the rest.
LEMMA FieldsOf ==
  ASSUME NEW x \in Seq(Octet)
  PROVE  \E F \in Seq(Seq(Octet)), r \in Seq(Octet) :
           /\ F = Parse(x).fields /\ r = Parse(x).rest /\ AllWhole(F)
           /\ FlattenSeq(F) \o r = x /\ FlattenSeq(F) \in Seq(Octet)
<1>1. PICK P \in Iterators : P = Parse(x) /\ Parsed(x, P)
  BY ParseGives
<1>2. PICK F \in Seq(Seq(Octet)), r \in Seq(Octet) : F = P.fields /\ r = P.rest
  BY DEF Iterators
<1>3. FlattenSeq(F) \o r = x /\ AllWhole(F)
  BY <1>1, <1>2 DEF Parsed, AllWhole
<1>4. FlattenSeq(F) \in Seq(Octet)
  BY FlattenAppend, EmptySeq
<1> QED
  BY <1>1, <1>2, <1>3, <1>4

\* Of which fields the first zip64 field is the last.
LEMMA LastIsFirst ==
  ASSUME NEW s, NEW n \in Nat, NEW G, G = Parse(s).fields, DOMAIN G = 1..(n + 1),
         LeU16(G[n + 1], 1) = ZIP64, \A i \in 1..n : LeU16(G[i], 1) # ZIP64
  PROVE  FirstField64(s) = From(G[n + 1], 4)
<1>1. PICK k \in Nat : k = n + 1
  OBVIOUS
<1>2. Fields64(s) = {i \in 1..k : LeU16(G[i], 1) = ZIP64}
  BY <1>1 DEF Fields64
<1>3. \A i \in 1..k : LeU16(G[i], 1) = ZIP64 <=> i = k
  <2>1. \A i \in 1..k : i # k => i \in 1..n
    BY <1>1
  <2> QED
    BY <1>1, <2>1
<1>4. k \in 1..k
  BY <1>1
<1>5. Fields64(s) = {k}
  BY <1>2, <1>3, <1>4, Zenon
<1>6. (CHOOSE i \in {k} : \A j \in {k} : i <= j) = k
  OBVIOUS
<1> QED
  BY <1>1, <1>5, <1>6 DEF FirstField64

\* Whole fields, none of which is a zip64 field.
NoField64(x) == Parse(x).rest = <<>> /\ Fields64(x) = {}
IsBody(body) == body # <<>> /\ Len(body) <= 65535

(***************************************************************************)
(* The zip64 field behind fields of which none is one is the one found.    *)
(***************************************************************************)
LEMMA FirstIsBody ==
  ASSUME NEW x \in Seq(Octet), NoField64(x), NEW body \in Seq(Octet), IsBody(body)
  PROVE  FirstField64(x \o Field64(body)) = body
<1>1. PICK F \in Seq(Seq(Octet)), r \in Seq(Octet) :
        /\ F = Parse(x).fields /\ r = Parse(x).rest /\ AllWhole(F)
        /\ FlattenSeq(F) \o r = x /\ FlattenSeq(F) \in Seq(Octet)
  BY FieldsOf
<1>2. FlattenSeq(F) = x
  <2>1. r = <<>>
    BY <1>1 DEF NoField64
  <2> QED
    BY <1>1, <2>1, ConcatEmptySeq
<1>3. PICK g \in Seq(Octet) : g = Field64(body) /\ WholeField(g) /\ LeU16(g, 1) = ZIP64
                              /\ From(g, 4) = body
  BY Field64Whole DEF IsBody
<1>5. PICK G \in Seq(Seq(Octet)), n \in Nat : OneBehind(G, F, g, n)
  BY OneMore
<1>4. /\ G = Append(F, g) /\ n = Len(F) /\ Len(G) = n + 1 /\ G[n + 1] = g
      /\ \A i \in 1..n : G[i] = F[i]
  BY <1>5 DEF OneBehind
<1>6. PICK s : s = FlattenSeq(F) \o g
  OBVIOUS
<1>7. Parse(s).fields = G
  BY <1>1, <1>3, <1>4, <1>6, WholeAndOne, SMTT(30)
<1>9. \A i \in 1..n : LeU16(G[i], 1) # ZIP64
  <2>1. DOMAIN F = 1..n
    BY <1>4
  <2>2. \A i \in DOMAIN F : LeU16(F[i], 1) # ZIP64
    BY <1>1 DEF Fields64, NoField64
  <2> QED
    BY <1>4, <2>1, <2>2
<1>10. DOMAIN G = 1..(n + 1)
  BY <1>4
<1>11. FirstField64(s) = From(G[n + 1], 4)
  BY <1>3, <1>7, <1>4, <1>9, <1>10, LastIsFirst
<1> QED
  BY <1>2, <1>3, <1>6, <1>4, <1>11

\* Each saturated field takes the next word.
LEMMA WordAtSteps ==
  ASSUME NEW h, NEW k \in Nat, k >= 1
  PROVE  WordAt(h, k + 1) = WordAt(h, k) + (IF h[Order[k]] = U32 THEN 8 ELSE 0)
<1> DEFINE S == {i \in 1..(k - 1) : h[Order[i]] = U32}
           T == {i \in 1..((k + 1) - 1) : h[Order[i]] = U32}
<1>1. IsFiniteSet(1..(k - 1))
  <2>1. 1 \in Int /\ k - 1 \in Int
    OBVIOUS
  <2> QED
    BY <2>1, FS_Interval
<1>2. S \in SUBSET (1..(k - 1))
  OBVIOUS
<1>3. IsFiniteSet(S) /\ Cardinality(S) \in Nat
  BY <1>1, <1>2, FS_Subset, FS_CardinalityType
<1>4. k \notin S /\ T = IF h[Order[k]] = U32 THEN S \cup {k} ELSE S
  OBVIOUS
<1>5. Cardinality(S \cup {k}) = Cardinality(S) + 1
  <2> HIDE DEF S
  <2> QED
    BY <1>3, <1>4, FS_AddElement
<1>6. WordAt(h, k) = 8 * Cardinality(S) /\ WordAt(h, k + 1) = 8 * Cardinality(T)
  BY DEF WordAt
<1> HIDE DEF S, T
<1>7. PICK c \in Nat : c = Cardinality(S)
  BY <1>3
<1>8. Cardinality(T) = IF h[Order[k]] = U32 THEN c + 1 ELSE c
  BY <1>4, <1>5, <1>7
<1> QED
  BY <1>6, <1>7, <1>8

\* The first word is at the front.
LEMMA WordAtFirst ==
  ASSUME NEW h
  PROVE  WordAt(h, 1) = 0
<1>1. {i \in 1..(1 - 1) : h[Order[i]] = U32} = {}
  OBVIOUS
<1>2. Cardinality({}) = 0
  BY FS_EmptySet
<1> QED
  BY <1>1, <1>2 DEF WordAt

\* Four pieces are found where their lengths say.
LEMMA FourCuts ==
  ASSUME NEW a, NEW b, NEW c, NEW d,
         NEW i \in Nat, NEW j \in Nat, NEW k \in Nat, NEW l \in Nat,
         IsBytes(a, i), IsBytes(b, j), IsBytes(c, k), IsBytes(d, l),
         NEW s, s = Four(a, b, c, d)
  PROVE  /\ IsBytes(s, i + j + k + l)
         /\ Cut(s, 0, i) = a /\ Cut(s, i, i + j) = b
         /\ Cut(s, i + j, i + j + k) = c /\ Cut(s, i + j + k, i + j + k + l) = d
<1>1. PICK u \in Nat, v \in Nat, w \in Nat : u = i + j /\ v = i + j + k /\ w = i + j + k + l
  OBVIOUS
<1>2. u - i = j /\ v - u = k /\ w - v = l /\ i <= u /\ u <= v /\ v <= w
  BY <1>1
<1>3. PICK p1, p2 : p1 = a \o b /\ p2 = p1 \o c /\ s = p2 \o d
  BY DEF Four
<1>4. Ends(p1, a, b, i, u)
  BY <1>2, <1>3 DEF Ends
<1>5. Ends(p2, p1, c, u, v)
  <2>1. IsBytes(p1, u)
    BY <1>4, EndsIs
  <2> QED
    BY <1>2, <1>3, <2>1 DEF Ends
<1>6. Ends(s, p2, d, v, w)
  <2>1. IsBytes(p2, v)
    BY <1>5, EndsIs
  <2> QED
    BY <1>2, <1>3, <2>1 DEF Ends
<1>7. IsBytes(s, w)
  BY <1>6, EndsIs
<1>8. Stands(p2, s, 0) /\ Cut(s, v, w) = d
  <2>1. Stands(s, s, 0)
    BY <1>7, StandsWhole DEF IsBytes
  <2> QED
    BY <1>6, <2>1, EndsApart
<1>9. Stands(p1, s, 0) /\ Cut(s, u, v) = c
  BY <1>5, <1>8, EndsApart
<1>10. Stands(a, s, 0) /\ Cut(s, i, u) = b
  BY <1>4, <1>9, EndsApart
<1>11. Cut(s, 0, i) = a
  <2>1. i = 0 + i
    OBVIOUS
  <2> QED
    BY <1>10, <2>1, StandsBytes
<1> QED
  BY <1>1, <1>7, <1>8, <1>9, <1>10, <1>11

\* A number is in the header, or in the zip64 field where the header is full.
LEMMA InlineSays ==
  ASSUME NEW e, NEW w, w \in Words(8)
  PROVE  /\ Inline(e, w) = U32 <=> Goes64(e, w)
         /\ ~ Goes64(e, w) => Widen(Inline(e, w)) = w
         /\ IsBytes(Word64(e, w), IF Goes64(e, w) THEN 8 ELSE 0)
         /\ Goes64(e, w) => Word64(e, w) = w
<1>1. IsBytes(w, 8)
  <2>1. 8 \in Nat
    OBVIOUS
  <2> QED
    BY <2>1, WordIs
<1>2. Inline(e, w) = U32 <=> Goes64(e, w)
  BY DEF Inline, Goes64, Min32, ReachesU32
<1>3. ~ Goes64(e, w) => Widen(Inline(e, w)) = w
  BY <1>1, <1>2, MinWidens DEF Inline, Goes64
<1>4. IsBytes(<<>>, 0)
  BY DEF IsBytes
<1>5. Word64(e, w) = IF Goes64(e, w) THEN w ELSE <<>>
  BY DEF Word64
<1> QED
  BY <1>1, <1>2, <1>3, <1>4, <1>5

\* A number is resolved if its word is where the reader looks.
LEMMA ResolvedHere ==
  ASSUME NEW e, NEW w, w \in Words(8), NEW h, NEW k, h[Order[k]] = Inline(e, w),
         NEW body, NEW m, WordAt(h, k) = m,
         Goes64(e, w) => m + 8 <= Len(body) /\ Cut(body, m, m + 8) = w
  PROVE  Resolved(h, k, body) = w
<1>1. CASE Goes64(e, w)
  <2>1. h[Order[k]] = U32
    BY <1>1, InlineSays
  <2>2. WordAt(h, k) + 8 <= Len(body)
    BY <1>1
  <2> QED
    BY <1>1, <2>1, <2>2 DEF Resolved
<1>2. CASE ~ Goes64(e, w)
  <2>1. h[Order[k]] # U32
    BY <1>2, InlineSays
  <2> QED
    BY <1>2, <2>1, InlineSays DEF Resolved
<1> QED
  BY <1>1, <1>2

\* Where the words of an entry's zip64 field begin.
Taken(e, w) == IF Goes64(e, w) THEN 8 ELSE 0

LEMMA TakenIs == ASSUME NEW e, NEW w PROVE Taken(e, w) \in Nat
BY DEF Taken

\* The reader looks for a word behind those of the full fields before it.
LEMMA WordsAt ==
  ASSUME NEW e, IsEntry(e), NEW h, h = CentralHeader(e)
  PROVE  \E i \in Nat, j \in Nat, k \in Nat :
           /\ i = Taken(e, e.uncompressed_size) /\ j = Taken(e, e.compressed_size)
           /\ k = Taken(e, e.local_header_offset)
           /\ WordAt(h, 1) = 0 /\ WordAt(h, 2) = i /\ WordAt(h, 3) = i + j
           /\ WordAt(h, 4) = i + j + k
<1>1. PICK i \in Nat, j \in Nat, k \in Nat :
        /\ i = Taken(e, e.uncompressed_size) /\ j = Taken(e, e.compressed_size)
        /\ k = Taken(e, e.local_header_offset)
  BY TakenIs
<1>2. /\ h[Order[1]] = Inline(e, e.uncompressed_size)
      /\ h[Order[2]] = Inline(e, e.compressed_size)
      /\ h[Order[3]] = Inline(e, e.local_header_offset)
  BY OrderIs DEF CentralHeader
<1>3. /\ i = IF h[Order[1]] = U32 THEN 8 ELSE 0
      /\ j = IF h[Order[2]] = U32 THEN 8 ELSE 0
      /\ k = IF h[Order[3]] = U32 THEN 8 ELSE 0
  BY <1>1, <1>2, EntryIs, InlineSays DEF Taken
<1>4. /\ WordAt(h, 1 + 1) = WordAt(h, 1) + (IF h[Order[1]] = U32 THEN 8 ELSE 0)
      /\ WordAt(h, 2 + 1) = WordAt(h, 2) + (IF h[Order[2]] = U32 THEN 8 ELSE 0)
      /\ WordAt(h, 3 + 1) = WordAt(h, 3) + (IF h[Order[3]] = U32 THEN 8 ELSE 0)
  BY WordAtSteps
<1>5. WordAt(h, 1) = 0
  BY WordAtFirst
<1>6. WordAt(h, 2) = WordAt(h, 1) + i /\ WordAt(h, 3) = WordAt(h, 2) + j
      /\ WordAt(h, 4) = WordAt(h, 3) + k
  BY <1>3, <1>4
<1> QED
  BY <1>1, <1>5, <1>6

\* The number of its disk that a forced entry has behind the words.
DiskField(e) == IF Forced(e) THEN Le(e.disk, 4) ELSE <<>>
DiskBytes(e) == IF Forced(e) THEN 4 ELSE 0

LEMMA DiskFieldIs ==
  ASSUME NEW e, IsEntry(e)
  PROVE  DiskBytes(e) \in Nat /\ IsBytes(DiskField(e), DiskBytes(e))
<1>1. IsBytes(Le(e.disk, 4), 4)
  <2>1. e.disk \in Nat /\ 4 \in Nat
    BY EntryIs
  <2> QED
    BY <2>1, LeIs DEF IsBytes
<1>2. IsBytes(<<>>, 0)
  BY DEF IsBytes
<1> QED
  BY <1>1, <1>2 DEF DiskField, DiskBytes

(***************************************************************************)
(* The body of the zip64 field has each word where the reader looks.       *)
(***************************************************************************)
LEMMA BodyHas ==
  ASSUME NEW e, IsEntry(e), NEW h, h = CentralHeader(e), NEW body, body = Body64(e)
  PROVE  \E i \in Nat, j \in Nat, k \in Nat, l \in Nat :
           /\ i = Taken(e, e.uncompressed_size) /\ j = Taken(e, e.compressed_size)
           /\ k = Taken(e, e.local_header_offset) /\ l = DiskBytes(e)
           /\ WordAt(h, 1) = 0 /\ WordAt(h, 2) = i /\ WordAt(h, 3) = i + j
           /\ WordAt(h, 4) = i + j + k
           /\ IsBytes(body, i + j + k + l)
           /\ Cut(body, 0, i) = Word64(e, e.uncompressed_size)
           /\ Cut(body, i, i + j) = Word64(e, e.compressed_size)
           /\ Cut(body, i + j, i + j + k) = Word64(e, e.local_header_offset)
           /\ Cut(body, i + j + k, i + j + k + l) = DiskField(e)
<1>1. PICK i \in Nat, j \in Nat, k \in Nat :
        /\ i = Taken(e, e.uncompressed_size) /\ j = Taken(e, e.compressed_size)
        /\ k = Taken(e, e.local_header_offset)
        /\ WordAt(h, 1) = 0 /\ WordAt(h, 2) = i /\ WordAt(h, 3) = i + j
        /\ WordAt(h, 4) = i + j + k
  BY WordsAt
<1>2. PICK l \in Nat : l = DiskBytes(e)
  BY DiskFieldIs
<1>3. PICK a, b, c, d :
        /\ a = Word64(e, e.uncompressed_size) /\ b = Word64(e, e.compressed_size)
        /\ c = Word64(e, e.local_header_offset) /\ d = DiskField(e)
  OBVIOUS
<1>4. IsBytes(a, i) /\ IsBytes(b, j) /\ IsBytes(c, k)
  BY <1>1, <1>3, EntryIs, InlineSays DEF Taken
<1>5. IsBytes(d, l)
  BY <1>2, <1>3, DiskFieldIs
<1>6. body = Four(a, b, c, d)
  BY <1>3 DEF Body64, Sizes64, Four, DiskField
<1>7. /\ IsBytes(body, i + j + k + l)
      /\ Cut(body, 0, i) = a /\ Cut(body, i, i + j) = b
      /\ Cut(body, i + j, i + j + k) = c /\ Cut(body, i + j + k, i + j + k + l) = d
  BY <1>4, <1>5, <1>6, FourCuts
<1> QED
  BY <1>1, <1>2, <1>3, <1>7

\* Full fields announce a zip64 field that is not empty.
Announced(h) ==
  HasU32Size(h) \/ h.local_header_offset = U32 \/ h.disk_number_start = U16

\* A central header announces a zip64 field where the writer wrote one.
LEMMA AnnouncedIs ==
  ASSUME NEW e, IsEntry(e), NEW h, h = CentralHeader(e)
  PROVE  /\ HasU32Size(h) <=> WideWritten(e)
         /\ h.disk_number_start = U16 <=> Forced(e)
         /\ Announced(h) <=> WideWritten(e) \/ Goes64(e, e.local_header_offset)
<1>1. /\ h.uncompressed_size = Inline(e, e.uncompressed_size)
      /\ h.compressed_size = Inline(e, e.compressed_size)
      /\ h.local_header_offset = Inline(e, e.local_header_offset)
      /\ h.disk_number_start = IF Forced(e) THEN U16 ELSE Zeros(2)
  BY DEF CentralHeader
<1>2. HasU32Size(h) <=> WideWritten(e)
  BY <1>1, EntryIs, InlineSays DEF HasU32Size, WideWritten
<1>3. h.local_header_offset = U32 <=> Goes64(e, e.local_header_offset)
  BY <1>1, EntryIs, InlineSays
<1>4. Zeros(2) # U16
  <2>1. Zeros(2)[1] = 0
    BY DEF Zeros
  <2>2. U16[1] = 255
    BY DEF U16
  <2> QED
    BY <2>1, <2>2
<1>5. h.disk_number_start = U16 <=> Forced(e)
  BY <1>1, <1>4
<1>6. Forced(e) => WideWritten(e)
  BY DEF Forced, WideWritten, Goes64
<1> QED
  BY <1>2, <1>3, <1>5, <1>6 DEF Announced

\* From the zip64 field of the writer each number is resolved.
LEMMA NumbersResolved ==
  ASSUME NEW e, IsEntry(e), NEW h, h = CentralHeader(e), NEW body, body = Body64(e)
  PROVE  /\ Resolved(h, 1, body) = e.uncompressed_size
         /\ Resolved(h, 2, body) = e.compressed_size
         /\ Resolved(h, 3, body) = e.local_header_offset
         /\ Forced(e) => /\ WordAt(h, 4) + 4 <= Len(body)
                         /\ Cut(body, WordAt(h, 4), WordAt(h, 4) + 4) = Le(e.disk, 4)
         /\ Announced(h) => body # <<>>
<1>1. PICK i \in Nat, j \in Nat, k \in Nat, l \in Nat :
        /\ i = Taken(e, e.uncompressed_size) /\ j = Taken(e, e.compressed_size)
        /\ k = Taken(e, e.local_header_offset) /\ l = DiskBytes(e)
        /\ WordAt(h, 1) = 0 /\ WordAt(h, 2) = i /\ WordAt(h, 3) = i + j
        /\ WordAt(h, 4) = i + j + k
        /\ IsBytes(body, i + j + k + l)
        /\ Cut(body, 0, i) = Word64(e, e.uncompressed_size)
        /\ Cut(body, i, i + j) = Word64(e, e.compressed_size)
        /\ Cut(body, i + j, i + j + k) = Word64(e, e.local_header_offset)
        /\ Cut(body, i + j + k, i + j + k + l) = DiskField(e)
  BY BodyHas
<1>2. PICK n \in Nat : n = Len(body) /\ n = i + j + k + l
  BY <1>1 DEF IsBytes
<1>3. /\ h[Order[1]] = Inline(e, e.uncompressed_size)
      /\ h[Order[2]] = Inline(e, e.compressed_size)
      /\ h[Order[3]] = Inline(e, e.local_header_offset)
  BY OrderIs DEF CentralHeader
<1>4. /\ e.uncompressed_size \in Words(8) /\ e.compressed_size \in Words(8)
      /\ e.local_header_offset \in Words(8)
  BY EntryIs
<1>5. \A w : Goes64(e, w) => Taken(e, w) = 8 /\ Word64(e, w) = w
  BY DEF Taken, Word64
<1>6. Resolved(h, 1, body) = e.uncompressed_size
  <2>1. Goes64(e, e.uncompressed_size) =>
          0 + 8 <= Len(body) /\ Cut(body, 0, 0 + 8) = e.uncompressed_size
    <3>1. SUFFICES ASSUME Goes64(e, e.uncompressed_size)
                   PROVE  0 + 8 <= Len(body) /\ Cut(body, 0, 0 + 8) = e.uncompressed_size
      OBVIOUS
    <3>2. i = 8 /\ 0 + 8 = i /\ 0 + 8 <= n
      BY <1>1, <1>2, <1>5, <3>1
    <3>3. Cut(body, 0, i) = e.uncompressed_size
      BY <1>1, <1>5, <3>1
    <3> QED
      BY <1>2, <3>2, <3>3
  <2>2. WordAt(h, 1) = 0
    BY <1>1
  <2> QED
    BY <1>3, <1>4, <2>1, <2>2, ResolvedHere
<1>7. Resolved(h, 2, body) = e.compressed_size
  <2>1. Goes64(e, e.compressed_size) =>
          i + 8 <= Len(body) /\ Cut(body, i, i + 8) = e.compressed_size
    <3>1. SUFFICES ASSUME Goes64(e, e.compressed_size)
                   PROVE  i + 8 <= Len(body) /\ Cut(body, i, i + 8) = e.compressed_size
      OBVIOUS
    <3>2. j = 8 /\ i + 8 = i + j /\ i + 8 <= n
      BY <1>1, <1>2, <1>5, <3>1
    <3>3. Cut(body, i, i + j) = e.compressed_size
      BY <1>1, <1>5, <3>1
    <3> QED
      BY <1>2, <3>2, <3>3
  <2>2. WordAt(h, 2) = i
    BY <1>1
  <2> QED
    BY <1>3, <1>4, <2>1, <2>2, ResolvedHere
<1>8. Resolved(h, 3, body) = e.local_header_offset
  <2>0. PICK m \in Nat : m = i + j
    OBVIOUS
  <2>1. Goes64(e, e.local_header_offset) =>
          m + 8 <= Len(body) /\ Cut(body, m, m + 8) = e.local_header_offset
    <3>1. SUFFICES ASSUME Goes64(e, e.local_header_offset)
                   PROVE  m + 8 <= Len(body) /\ Cut(body, m, m + 8) = e.local_header_offset
      OBVIOUS
    <3>2. k = 8 /\ m + 8 = i + j + k /\ m + 8 <= n
      BY <1>1, <1>2, <1>5, <2>0, <3>1
    <3>3. Cut(body, m, i + j + k) = e.local_header_offset
      BY <1>1, <1>5, <2>0, <3>1
    <3> QED
      BY <1>2, <3>2, <3>3
  <2>2. WordAt(h, 3) = m
    BY <1>1, <2>0
  <2> QED
    BY <1>3, <1>4, <2>1, <2>2, ResolvedHere
<1>9. ASSUME Forced(e)
      PROVE  /\ WordAt(h, 4) + 4 <= Len(body)
             /\ Cut(body, WordAt(h, 4), WordAt(h, 4) + 4) = Le(e.disk, 4)
  <2>1. l = 4 /\ DiskField(e) = Le(e.disk, 4)
    BY <1>1, <1>9 DEF DiskBytes, DiskField
  <2>2. PICK m \in Nat : m = i + j + k /\ m + 4 = n /\ m + 4 <= n
    BY <1>2, <2>1
  <2>3. WordAt(h, 4) = m /\ Cut(body, m, m + 4) = Le(e.disk, 4)
    BY <1>1, <2>1, <2>2
  <2> QED
    BY <1>2, <2>2, <2>3
<1>10. ASSUME Announced(h) PROVE body # <<>>
  <2>1. i = 8 \/ j = 8 \/ k = 8
    BY <1>1, <1>5, <1>10, AnnouncedIs DEF WideWritten
  <2>2. n # 0
    BY <1>2, <2>1
  <2> QED
    BY <1>2, <2>2
<1> QED
  BY <1>6, <1>7, <1>8, <1>9, <1>10

(***************************************************************************)
(* from_parts takes the numbers of an entry as they were written.          *)
(***************************************************************************)
LEMMA PartsResolved ==
  ASSUME NEW e, IsEntry(e), Fields64(e.extra) = {}, NEW h, h = CentralHeader(e),
         NEW v, v.extra_field = CentralExtra(e), NEW r, r = FromParts(h, v)
  PROVE  /\ r.uncompressed_size = e.uncompressed_size
         /\ r.compressed_size = e.compressed_size
         /\ r.local_header_offset = e.local_header_offset
         /\ Forced(e) => r.disk_number_start = Le(e.disk, 4)
<1>1. PICK body : body = IF Announced(h) THEN FirstField64(v.extra_field) ELSE <<>>
  OBVIOUS
<1>2. /\ r.uncompressed_size = Resolved(h, 1, body)
      /\ r.compressed_size = Resolved(h, 2, body)
      /\ r.local_header_offset = Resolved(h, 3, body)
      /\ r.disk_number_start =
           IF h.disk_number_start = U16 /\ WordAt(h, 4) + 4 <= Len(body)
           THEN Cut(body, WordAt(h, 4), WordAt(h, 4) + 4)
           ELSE h.disk_number_start \o Zeros(2)
  BY <1>1 DEF FromParts, Announced
<1>3. body = Body64(e)
  <2>1. Body64(e) \in Seq(Octet) /\ Len(Body64(e)) <= 28
    BY Body64Is
  <2>2. CentralExtra(e) = e.extra \o Field64(Body64(e))
    BY CentralExtraIs
  <2>3. CASE Announced(h)
    <3>1. Body64(e) # <<>>
      BY <2>3, NumbersResolved
    <3>2. PICK b \in Seq(Octet), x \in Seq(Octet) : b = Body64(e) /\ x = e.extra
      BY <2>1, EntryIs
    <3>3. IsBody(b)
      <4>1. Len(b) <= 28 /\ Len(b) \in Nat
        BY <2>1, <3>2
      <4> QED
        BY <3>1, <3>2, <4>1 DEF IsBody
    <3>4. NoField64(x)
      BY <3>2 DEF NoField64, IsEntry, Writable
    <3>5. FirstField64(x \o Field64(b)) = b
      BY <3>3, <3>4, FirstIsBody
    <3> QED
      BY <1>1, <2>2, <2>3, <3>2, <3>5
  <2>4. CASE ~ Announced(h)
    <3>1. ~ WideWritten(e) /\ ~ Goes64(e, e.local_header_offset)
      BY <2>4, AnnouncedIs
    <3>2. PICK a : a = <<>>
      OBVIOUS
    <3>3. Word64(e, e.uncompressed_size) = a /\ Word64(e, e.compressed_size) = a
          /\ Word64(e, e.local_header_offset) = a /\ ~ Forced(e)
      BY <3>1, <3>2 DEF Word64, WideWritten, Goes64
    <3>4. Body64(e) = ((a \o a) \o a) \o a
      BY <3>2, <3>3 DEF Body64, Sizes64
    <3>5. Body64(e) = <<>>
      BY <3>2, <3>4
    <3> QED
      BY <1>1, <2>4, <3>5
  <2> QED
    BY <2>3, <2>4
<1>4. h.disk_number_start = U16 <=> Forced(e)
  BY AnnouncedIs
<1> QED
  BY <1>2, <1>3, <1>4, NumbersResolved

\* A size of a descriptor, as wide as the descriptor is.
Sized(e, w) == IF WideWritten(e) THEN w ELSE SubSeq(w, 1, 4)
Width(e) == IF WideWritten(e) THEN 8 ELSE 4

\* Both widths say the same.
LEMMA SizedIs ==
  ASSUME NEW e, NEW w, w \in Words(8), Goes64(e, w) => WideWritten(e)
  PROVE  IsBytes(Sized(e, w), Width(e)) /\ Widen(Sized(e, w)) = w
<1>1. IsBytes(w, 8)
  <2>1. 8 \in Nat
    OBVIOUS
  <2> QED
    BY <2>1, WordIs
<1>2. IsBytes(SubSeq(w, 1, 4), 4)
  BY <1>1, PartsAre
<1>3. ~ WideWritten(e) => SubSeq(w, 5, 8) = Zeros(4)
  BY DEF Goes64, ReachesU32
<1> QED
  BY <1>1, <1>2, <1>3, AllZero DEF Sized, Width

\* What a parser takes from the three pieces of a descriptor.
LEMMA TellsPieces ==
  ASSUME NEW s, NEW c, NEW m, NEW u, NEW width \in Nat,
         Cut(s, 0, 4) = c, Cut(s, 4, 4 + width) = m, Cut(s, 4 + width, 4 + width + width) = u
  PROVE  Tells(s, width) = [crc |-> c, compressed_size |-> Widen(m),
                            uncompressed_size |-> Widen(u)]
<1>1. 4 + 2 * width = 4 + width + width
  OBVIOUS
<1> QED
  BY <1>1 DEF Tells

\* A descriptor is parsed behind its signature, or without.
LEMMA ParseOfBody ==
  ASSUME NEW s, NEW t, NEW wide, NEW width, width = IF wide THEN 8 ELSE 4,
         \/ Len(s) >= 4 /\ Cut(s, 0, 4) = DescriptorSignature /\ t = From(s, 4)
         \/ Cut(s, 0, 4) # DescriptorSignature /\ t = s,
         ~ Len(t) < 4 + 2 * width
  PROVE  ParseDescriptor(s, wide) = {Tells(t, width)}
BY DEF ParseDescriptor, Tells

(***************************************************************************)
(* A descriptor is read as it was written, with its signature or without,  *)
(* unless it has none and its checksum looks like one.                     *)
(***************************************************************************)
LEMMA DescriptorRead ==
  ASSUME NEW e, IsEntry(e), e.producer = "rawzip" \/ e.crc # DescriptorSignature
  PROVE  ParseDescriptor(Descriptor(e), WideWritten(e))
           = {[crc |-> e.crc, compressed_size |-> e.compressed_size,
               uncompressed_size |-> e.uncompressed_size]}
<1>1. PICK p, c, m, u :
        /\ p = IF e.producer = "rawzip" THEN DescriptorSignature ELSE <<>>
        /\ c = e.crc /\ m = Sized(e, e.compressed_size) /\ u = Sized(e, e.uncompressed_size)
  OBVIOUS
<1>2. PICK width \in Nat : width = Width(e) /\ width = IF WideWritten(e) THEN 8 ELSE 4
  BY DEF Width
<1>3. /\ IsBytes(c, 4) /\ IsBytes(m, width) /\ IsBytes(u, width)
      /\ Widen(m) = e.compressed_size /\ Widen(u) = e.uncompressed_size
  <2>1. /\ e.compressed_size \in Words(8) /\ e.uncompressed_size \in Words(8)
        /\ IsBytes(e.crc, 4)
    BY EntryIs
  <2>2. /\ Goes64(e, e.compressed_size) => WideWritten(e)
        /\ Goes64(e, e.uncompressed_size) => WideWritten(e)
    BY DEF WideWritten
  <2> QED
    BY <1>1, <1>2, <2>1, <2>2, SizedIs
<1>4. PICK k \in Nat : k = (IF e.producer = "rawzip" THEN 4 ELSE 0) /\ IsBytes(p, k)
  <2>1. IsBytes(<<>>, 0)
    BY DEF IsBytes
  <2> QED
    BY <1>1, <2>1, SignaturesAre
<1>5. PICK s : s = Four(p, c, m, u) /\ s = Descriptor(e)
  BY <1>1 DEF Descriptor, Four, Sized
<1>6. PICK t : t = From(s, k)
  OBVIOUS
<1>7. /\ s \in Seq(Octet) /\ Stands(p, s, 0) /\ k <= Len(s)
      /\ Cut(t, 0, 4) = c /\ Cut(t, 4, 4 + width) = m
      /\ Cut(t, 4 + width, 4 + width + width) = u
      /\ IsBytes(t, 4 + width + width)
  <2>1. PICK i \in Nat : i = 4
    OBVIOUS
  <2>2. IsBytes(c, i)
    BY <1>3, <2>1
  <2>3. s = Four(p, c, m, u)
    BY <1>5
  <2>4. /\ s \in Seq(Octet) /\ Stands(p, s, 0) /\ k <= Len(s)
        /\ Cut(From(s, k), 0, i) = c /\ Cut(From(s, k), i, i + width) = m
        /\ Cut(From(s, k), i + width, i + width + width) = u
        /\ IsBytes(From(s, k), i + width + width)
    BY <1>3, <1>4, <2>2, <2>3, FourPieces
  <2> QED
    BY <1>6, <2>1, <2>4
<1>8. Tells(t, width) = [crc |-> c, compressed_size |-> Widen(m), uncompressed_size |-> Widen(u)]
  BY <1>7, TellsPieces
<1>9. ~ Len(t) < 4 + 2 * width
  <2>1. PICK n \in Nat : n = Len(t) /\ n = 4 + width + width
    BY <1>7 DEF IsBytes
  <2> QED
    BY <2>1
<1>10. \/ Len(s) >= 4 /\ Cut(s, 0, 4) = DescriptorSignature /\ t = From(s, 4)
       \/ Cut(s, 0, 4) # DescriptorSignature /\ t = s
  <2>1. CASE e.producer = "rawzip"
    <3>1. k = 4 /\ p = DescriptorSignature
      BY <1>1, <1>4, <2>1
    <3>2. Cut(s, 0, k) = p
      <4>1. IsBytes(p, k) /\ s \in Seq(Octet) /\ Stands(p, s, 0)
        BY <1>4, <1>7
      <4> HIDE <1>1, <1>2, <1>4
      <4> QED
        BY <4>1, FrontOf
    <3>3. PICK n \in Nat : n = Len(s)
      BY <1>7
    <3>4. n >= 4
      BY <1>7, <3>1, <3>3
    <3> QED
      BY <1>6, <3>1, <3>2, <3>3, <3>4
  <2>2. CASE e.producer # "rawzip"
    <3>1. k = 0 /\ c # DescriptorSignature
      BY <1>1, <1>4, <2>2
    <3>2. From(s, 0) = s
      <4>1. Stands(s, s, 0)
        BY <1>7, StandsWhole
      <4>2. 0 + Len(s) = Len(s)
        BY <1>7
      <4> QED
        BY <4>1, <4>2, StandsFrom
    <3> QED
      BY <1>6, <1>7, <3>1, <3>2
  <2> QED
    BY <2>1, <2>2
<1>11. ParseDescriptor(s, WideWritten(e)) = {Tells(t, width)}
  BY <1>2, <1>9, <1>10, ParseOfBody
<1> QED
  BY <1>1, <1>3, <1>5, <1>8, <1>11

(***************************************************************************)
(* A record of the central directory is read as it was written.            *)
(***************************************************************************)
LEMMA CentralIsParsed ==
  ASSUME IsEntry(entry)
  PROVE  CentralAsWritten
<1>1. PICK h, v, r : /\ h = CentralHeader(entry)
                     /\ v = [file_name |-> entry.name, extra_field |-> CentralExtra(entry),
                             file_comment |-> entry.comment, whole |-> TRUE]
                     /\ r = FromParts(h, v)
  OBVIOUS
<1>2. CentralEntry(CentralRecord(entry)) = {r}
  BY <1>1, CentralRead
<1>3. r.header = h /\ r.variable = v /\ r.data_descriptor_uses_zip64_sizes = HasU32Size(h)
  BY <1>1 DEF FromParts
<1>4. /\ v.file_name = entry.name /\ v.extra_field = CentralExtra(entry)
      /\ v.file_comment = entry.comment
  BY <1>1
<1>5. ~ OwnField64 =>
        /\ r.uncompressed_size = entry.uncompressed_size
        /\ r.compressed_size = entry.compressed_size
        /\ r.local_header_offset = entry.local_header_offset
        /\ Forced(entry) => r.disk_number_start = Le(entry.disk, 4)
  BY <1>1, <1>4, PartsResolved DEF OwnField64
<1>6. ~ Ambiguous =>
        ParseDescriptor(Descriptor(entry), r.data_descriptor_uses_zip64_sizes)
          = {[crc |-> entry.crc, compressed_size |-> entry.compressed_size,
              uncompressed_size |-> entry.uncompressed_size]}
  <2>1. r.data_descriptor_uses_zip64_sizes = HasU32Size(h) /\ (HasU32Size(h) <=> WideWritten(entry))
    BY <1>1, <1>3, AnnouncedIs
  <2>2. ParseDescriptor(Descriptor(entry), HasU32Size(h))
          = ParseDescriptor(Descriptor(entry), WideWritten(entry))
    BY <2>1 DEF ParseDescriptor
  <2> QED
    BY <2>1, <2>2, DescriptorRead DEF Ambiguous
<1> QED
  BY <1>1, <1>2, <1>3, <1>4, <1>5, <1>6 DEF CentralAsWritten

\* A file: a gap, and the six pieces of an entry and what follows it.
Seven(z, h, n, x, d, q, o) == (((((z \o h) \o n) \o x) \o d) \o q) \o o

\* Each piece of a file is where their lengths say.
LEMMA FilePieces ==
  ASSUME NEW z, NEW h, NEW n, NEW x, NEW d, NEW q, NEW o,
         NEW a \in Nat, NEW b \in Nat, NEW i \in Nat, NEW j \in Nat, NEW l \in Nat,
         NEW m \in Nat, NEW k \in Nat,
         IsBytes(z, a), IsBytes(h, b), IsBytes(n, i), IsBytes(x, j), IsBytes(d, l),
         IsBytes(q, m), IsBytes(o, k), NEW s, s = Seven(z, h, n, x, d, q, o)
  PROVE  /\ s \in Seq(Octet) /\ a + (b + i + j + l) <= Len(s)
         /\ Cut(s, a, a + b) = h /\ Cut(s, a + b, a + (b + i)) = n
         /\ Cut(s, a + (b + i), a + (b + i + j)) = x
         /\ Cut(s, a + (b + i + j), a + (b + i + j + l)) = d
<1>1. PICK c1 \in Nat, c2 \in Nat, c3 \in Nat, c4 \in Nat, c5 \in Nat, c6 \in Nat :
        /\ c1 = a + b /\ c2 = a + (b + i) /\ c3 = a + (b + i + j) /\ c4 = a + (b + i + j + l)
        /\ c5 = c4 + m /\ c6 = c5 + k
  <2>1. /\ a + b \in Nat /\ a + (b + i) \in Nat /\ a + (b + i + j) \in Nat
        /\ a + (b + i + j + l) \in Nat /\ a + (b + i + j + l) + m \in Nat
        /\ a + (b + i + j + l) + m + k \in Nat
    OBVIOUS
  <2> QED
    BY <2>1
<1>2. /\ c1 - a = b /\ c2 - c1 = i /\ c3 - c2 = j /\ c4 - c3 = l /\ c5 - c4 = m /\ c6 - c5 = k
      /\ a <= c1 /\ c1 <= c2 /\ c2 <= c3 /\ c3 <= c4 /\ c4 <= c5 /\ c5 <= c6 /\ c4 <= c6
  BY <1>1
<1>3. PICK p1, p2, p3, p4, p5 :
        /\ p1 = z \o h /\ p2 = p1 \o n /\ p3 = p2 \o x /\ p4 = p3 \o d /\ p5 = p4 \o q
        /\ s = p5 \o o
  BY DEF Seven
<1>4. Ends(p1, z, h, a, c1)
  BY <1>2, <1>3 DEF Ends
<1>5. Ends(p2, p1, n, c1, c2)
  <2>1. IsBytes(p1, c1)
    BY <1>4, EndsIs
  <2> QED
    BY <1>2, <1>3, <2>1 DEF Ends
<1>6. Ends(p3, p2, x, c2, c3)
  <2>1. IsBytes(p2, c2)
    BY <1>5, EndsIs
  <2> QED
    BY <1>2, <1>3, <2>1 DEF Ends
<1>7. Ends(p4, p3, d, c3, c4)
  <2>1. IsBytes(p3, c3)
    BY <1>6, EndsIs
  <2> QED
    BY <1>2, <1>3, <2>1 DEF Ends
<1>8. Ends(p5, p4, q, c4, c5)
  <2>1. IsBytes(p4, c4)
    BY <1>7, EndsIs
  <2> QED
    BY <1>2, <1>3, <2>1 DEF Ends
<1>9. Ends(s, p5, o, c5, c6)
  <2>1. IsBytes(p5, c5)
    BY <1>8, EndsIs
  <2> QED
    BY <1>2, <1>3, <2>1 DEF Ends
<1>10. s \in Seq(Octet) /\ Len(s) = c6
  BY <1>9, EndsIs DEF IsBytes
<1>11. Stands(s, s, 0)
  BY <1>10, StandsWhole
<1>12. Stands(p5, s, 0)
  BY <1>9, <1>11, EndsApart
<1>13. Stands(p4, s, 0)
  BY <1>8, <1>12, EndsApart
<1>14. Stands(p3, s, 0) /\ Cut(s, c3, c4) = d
  BY <1>7, <1>13, EndsApart
<1>15. Stands(p2, s, 0) /\ Cut(s, c2, c3) = x
  BY <1>6, <1>14, EndsApart
<1>16. Stands(p1, s, 0) /\ Cut(s, c1, c2) = n
  BY <1>5, <1>15, EndsApart
<1>17. Cut(s, a, c1) = h
  BY <1>4, <1>16, EndsApart
<1>18. c4 <= Len(s)
  BY <1>2, <1>10
<1> QED
  BY <1>1, <1>10, <1>14, <1>15, <1>16, <1>17, <1>18

\* What is cut from the front stands there.
LEMMA CutStands ==
  ASSUME NEW s \in Seq(Octet), NEW n \in Nat, n <= Len(s)
  PROVE  Stands(Cut(s, 0, n), s, 0)
<1>1. n - 0 = n /\ 0 <= n /\ 0 \in Nat
  OBVIOUS
<1>2. PICK p \in Seq(Octet) : /\ p = Cut(s, 0, n) /\ Len(p) = n
                              /\ \A i \in 1..n : p[i] = s[0 + i]
  <2>1. /\ Cut(s, 0, n) \in Seq(Octet) /\ Len(Cut(s, 0, n)) = n - 0
        /\ \A i \in 1..(n - 0) : Cut(s, 0, n)[i] = s[0 + i]
    BY <1>1, CutBounds
  <2> QED
    BY <1>1, <2>1
<1>3. 0 + Len(p) <= Len(s) /\ \A i \in 1..Len(p) : s[0 + i] = p[i]
  BY <1>2
<1> QED
  BY <1>1, <1>2, <1>3 DEF Stands

\* A length below 2^24 as eight bytes is that number.
LEMMA ValueOfLe ==
  ASSUME NEW n \in Nat, n < TwoTo24
  PROVE  Value(Le(n, 8)) = n
<1>1. Le(n, 8) \in Words(8) /\ Le(n, 8)[1] = n % 256 /\ Le(n, 8)[2] = (n \div 256) % 256
      /\ Le(n, 8)[3] = (n \div 65536) % 256 /\ \A i \in 4..8 : Le(n, 8)[i] = 0
  <2>1. IsBytes(Le(n, 8), 8)
    <3>1. 8 \in Nat
      OBVIOUS
    <3> QED
      BY <3>1, LeIs DEF IsBytes
  <2>2. Le(n, 8) \in Words(8)
    BY <2>1, WordOfBytes
  <2>3. /\ Le(n, 8)[1] = n % 256 /\ Le(n, 8)[2] = (n \div 256) % 256
        /\ Le(n, 8)[3] = (n \div 65536) % 256
    BY DEF Le
  <2>4. ASSUME NEW i \in 4..8 PROVE Le(n, 8)[i] = 0
    BY <2>4 DEF Le
  <2> QED
    BY <2>2, <2>3, <2>4
<1>2. IsSmall(Le(n, 8))
  BY <1>1 DEF IsSmall
<1>3. Value(Le(n, 8)) = (n % 256) + 256 * ((n \div 256) % 256) + 65536 * ((n \div 65536) % 256)
  BY <1>1, <1>2, ValueCounts
<1>4. n = (n % 256) + 256 * ((n \div 256) % 256) + 65536 * ((n \div 65536) % 256)
  BY SMTT(60) DEF TwoTo24
<1> QED
  BY <1>3, <1>4

\* A file in which all of an entry is, and where the directory says.
Undamaged == ViewsInv /\ IsEntry(entry) /\ bytes = File(entry) /\ Held

\* The pieces of an entry, and their lengths.
LocalLengths(i, j, l) ==
  /\ IsBytes(Put(LocalWritten, LocalHeader(entry)), 30)
  /\ IsBytes(entry.name, i) /\ IsBytes(LocalExtra(entry), j) /\ IsBytes(entry.data, l)
  /\ LeU16(LocalHeader(entry).file_name_len, 1) = i
  /\ LeU16(LocalHeader(entry).extra_field_len, 1) = j
  /\ l < TwoTo24

\* The lengths are in the header.
LEMMA LocalLengthsAre ==
  ASSUME IsEntry(entry)
  PROVE  \E i \in Nat, j \in Nat, l \in Nat : LocalLengths(i, j, l)
<1>1. PICK n \in Seq(Octet), x \in Seq(Octet), d \in Seq(Octet) :
        n = entry.name /\ x = LocalExtra(entry) /\ d = entry.data
  BY EntryIs, LocalExtraIs
<1>2. PICK i \in Nat, j \in Nat, l \in Nat : i = Len(n) /\ j = Len(x) /\ l = Len(d)
  OBVIOUS
<1>3. i <= 65535 /\ j <= 65535 /\ l < TwoTo24
  BY <1>1, <1>2 DEF IsEntry, Writable
<1>4. /\ LocalHeader(entry).file_name_len = Le(i, 2)
      /\ LocalHeader(entry).extra_field_len = Le(j, 2)
  BY <1>1, <1>2 DEF LocalHeader
<1>5. LeU16(Le(i, 2), 1) = i /\ LeU16(Le(j, 2), 1) = j
  BY <1>3, LeReads
<1>6. IsBytes(n, i) /\ IsBytes(x, j) /\ IsBytes(d, l)
  BY <1>2 DEF IsBytes
<1>7. IsBytes(Put(LocalWritten, LocalHeader(entry)), 30)
  <2>1. \A m : Tiles(LocalWritten, m) => IsBytes(Put(LocalWritten, LocalHeader(entry)), m)
    BY LocalFills, PutIs DEF IsBytes
  <2> QED
    BY <2>1, LocalTiles
<1>8. LocalLengths(i, j, l)
  BY <1>1, <1>3, <1>4, <1>5, <1>6, <1>7 DEF LocalLengths
<1> QED
  BY <1>8

\* Where the pieces are in the file, and where the reader looks for them.
LEMMA LocalPieces ==
  ASSUME Undamaged, NEW i \in Nat, NEW j \in Nat, NEW l \in Nat, LocalLengths(i, j, l)
  PROVE  /\ HeaderStart \in Nat /\ bytes \in Seq(Octet)
         /\ HeaderStart + (30 + i + j + l) <= Len(bytes)
         /\ Cut(bytes, HeaderStart, HeaderStart + 30) = Put(LocalWritten, LocalHeader(entry))
         /\ Cut(bytes, HeaderStart + 30, HeaderStart + (30 + i)) = entry.name
         /\ Cut(bytes, HeaderStart + (30 + i), HeaderStart + (30 + i + j)) = LocalExtra(entry)
         /\ Cut(bytes, HeaderStart + (30 + i + j), HeaderStart + (30 + i + j + l)) = entry.data
         /\ Value(wayfinder.compressed_size) = l
<1>1. PICK w : w = entry.local_header_offset /\ w \in Words(8) /\ IsSmall(w)
               /\ wayfinder.local_header_offset = w
  BY EntryIs DEF Undamaged, Held
<1>2. PICK a \in Nat : a = Value(w)
  BY <1>1, ValueCounts
<1>3. PICK z, h, n, x, d, q, o :
        /\ z = Zeros(a) /\ h = Put(LocalWritten, LocalHeader(entry)) /\ n = entry.name
        /\ x = LocalExtra(entry) /\ d = entry.data /\ q = Descriptor(entry) /\ o = Zeros(2)
  OBVIOUS
<1>4. bytes = Seven(z, h, n, x, d, q, o)
  BY <1>1, <1>2, <1>3 DEF File, Seven, Undamaged
<1>5. IsBytes(z, a) /\ IsBytes(o, 2)
  BY <1>3, ZerosAre DEF IsBytes
<1>6. PICK m \in Nat : IsBytes(q, m)
  <2>1. q \in Seq(Octet)
    BY <1>3, DescriptorIs DEF IsShort, Undamaged
  <2>2. Len(q) \in Nat
    BY <2>1
  <2> QED
    BY <2>1, <2>2 DEF IsBytes
<1>7. IsBytes(h, 30) /\ IsBytes(n, i) /\ IsBytes(x, j) /\ IsBytes(d, l)
  BY <1>3 DEF LocalLengths
<1>8. PICK b \in Nat, k \in Nat : b = 30 /\ k = 2
  OBVIOUS
<1>9. /\ bytes \in Seq(Octet) /\ a + (b + i + j + l) <= Len(bytes)
      /\ Cut(bytes, a, a + b) = h /\ Cut(bytes, a + b, a + (b + i)) = n
      /\ Cut(bytes, a + (b + i), a + (b + i + j)) = x
      /\ Cut(bytes, a + (b + i + j), a + (b + i + j + l)) = d
  <2>1. IsBytes(h, b) /\ IsBytes(o, k)
    BY <1>5, <1>7, <1>8
  <2>2. IsBytes(z, a) /\ IsBytes(n, i) /\ IsBytes(x, j) /\ IsBytes(d, l) /\ IsBytes(q, m)
    BY <1>5, <1>6, <1>7
  <2> HIDE <1>1, <1>2, <1>3, <1>8
  <2> QED
    BY <1>4, <2>1, <2>2, FilePieces, SMTT(30)
<1>10. HeaderStart = a
  <2>1. PICK len \in Nat : len = Len(bytes)
    BY <1>9
  <2>2. 0 \in Nat /\ 0 <= len /\ a <= len - 0
    BY <1>9, <2>1
  <2>3. Behind(0, w) = 0 + a
    BY <1>1, <1>2, <2>1, <2>2, BehindIs DEF Undamaged
  <2> QED
    BY <1>1, <2>3 DEF HeaderStart
<1>11. Value(wayfinder.compressed_size) = l
  <2>1. wayfinder.compressed_size = Le(Len(entry.data), 8)
    BY DEF Undamaged, Held
  <2>2. Len(entry.data) = l /\ l < TwoTo24
    BY DEF LocalLengths, IsBytes
  <2> QED
    BY <2>1, <2>2, ValueOfLe
<1> QED
  BY <1>3, <1>8, <1>9, <1>10, <1>11

\* The slice has the entry from its header on.
LEMMA HeaderPieces ==
  ASSUME Undamaged, NEW i \in Nat, NEW j \in Nat, NEW l \in Nat, LocalLengths(i, j, l)
  PROVE  /\ HeaderBytes \in Seq(Octet) /\ 30 + i + j + l <= Len(HeaderBytes)
         /\ Cut(HeaderBytes, 0, 30) = Put(LocalWritten, LocalHeader(entry))
         /\ Cut(HeaderBytes, 30, 30 + i) = entry.name
         /\ Cut(HeaderBytes, 30 + i, 30 + i + j) = LocalExtra(entry)
<1>1. PICK a \in Nat, s \in Seq(Octet), c1 \in Nat, c2 \in Nat, c3 \in Nat :
        /\ a = HeaderStart /\ s = bytes
        /\ c1 = 30 + i /\ c2 = 30 + i + j /\ c3 = 30 + i + j + l
  <2>1. HeaderStart \in Nat /\ bytes \in Seq(Octet)
    BY LocalPieces
  <2> QED
    BY <2>1
<1>2. /\ a + c3 <= Len(s)
      /\ Cut(s, a, a + 30) = Put(LocalWritten, LocalHeader(entry))
      /\ Cut(s, a + 30, a + c1) = entry.name
      /\ Cut(s, a + c1, a + c2) = LocalExtra(entry)
  BY <1>1, LocalPieces
<1>3. PICK n \in Nat : n = Len(s)
  OBVIOUS
<1>4. 30 <= c1 /\ c1 <= c2 /\ c2 <= c3 /\ 0 <= 30 /\ a + 0 = a /\ 0 \in Nat /\ 30 \in Nat
  BY <1>1
<1>5. a <= n /\ a + 30 <= n /\ a + c1 <= n /\ a + c2 <= n /\ a + c3 <= n
  BY <1>2, <1>3, <1>4
<1>6. /\ Cut(From(s, a), 0, 30) = Cut(s, a + 0, a + 30)
      /\ Cut(From(s, a), 30, c1) = Cut(s, a + 30, a + c1)
      /\ Cut(From(s, a), c1, c2) = Cut(s, a + c1, a + c2)
  <2>1. PICK b \in Nat, c0 \in Nat : b = 30 /\ c0 = 0
    OBVIOUS
  <2>2. c0 <= b /\ b <= c1 /\ c1 <= c2 /\ a + b <= Len(s) /\ a + c1 <= Len(s) /\ a + c2 <= Len(s)
    BY <1>3, <1>4, <1>5, <2>1
  <2>3. Cut(From(s, a), c0, b) = Cut(s, a + c0, a + b)
    BY <2>2, CutOfFrom
  <2>4. Cut(From(s, a), b, c1) = Cut(s, a + b, a + c1)
    BY <2>2, CutOfFrom
  <2>5. Cut(From(s, a), c1, c2) = Cut(s, a + c1, a + c2)
    BY <2>2, CutOfFrom
  <2> QED
    BY <2>1, <2>3, <2>4, <2>5
<1>7. HeaderBytes = From(s, a)
  BY <1>1 DEF HeaderBytes
<1>8. HeaderBytes \in Seq(Octet) /\ c3 <= Len(HeaderBytes)
  <2>1. From(s, a) \in Seq(Octet) /\ Len(From(s, a)) = n - a
    BY <1>3, <1>5, FromBounds
  <2>2. c3 <= n - a
    BY <1>5
  <2> QED
    BY <1>7, <2>1, <2>2
<1> QED
  BY <1>1, <1>2, <1>4, <1>6, <1>7, <1>8

\* Of a forced entry the hints are the sizes in the local header's zip64 field.
LEMMA HintsRead ==
  ASSUME NEW e, IsEntry(e), Forced(e), Fields64(e.local_extra) = {},
         NEW h, h = LocalHeader(e)
  PROVE  Hints(h, LocalExtra(e)) = [uncompressed_size |-> e.uncompressed_size,
                                    compressed_size |-> e.compressed_size]
<1>1. PICK u, c : /\ u = e.uncompressed_size /\ c = e.compressed_size
                  /\ u \in Words(8) /\ c \in Words(8)
  BY EntryIs
<1>2. Goes64(e, u) /\ Goes64(e, c) /\ Inline(e, u) = U32 /\ Inline(e, c) = U32
  BY DEF Goes64, Inline
<1>3. IsBytes(u, 8) /\ IsBytes(c, 8)
  <2>1. 8 \in Nat
    OBVIOUS
  <2> QED
    BY <1>1, <2>1, WordIs
<1>4. PICK s : s = Sizes64(e) /\ s = u \o c
  BY <1>1, <1>2 DEF Sizes64, Word64
<1>5. Ends(s, u, c, 8, 16)
  BY <1>3, <1>4 DEF Ends
<1>6. IsBytes(s, 16)
  BY <1>5, EndsIs
<1>7. Cut(s, 0, 8) = u /\ Cut(s, 8, 16) = c
  <2>1. Stands(s, s, 0)
    BY <1>6, StandsWhole DEF IsBytes
  <2>2. Stands(u, s, 0) /\ Cut(s, 8, 16) = c
    BY <1>5, <2>1, EndsApart
  <2>3. 8 = 0 + 8
    OBVIOUS
  <2> QED
    BY <1>3, <2>2, <2>3, StandsBytes
<1>8. FirstField64(LocalExtra(e)) = s
  <2>1. PICK b \in Seq(Octet), x \in Seq(Octet) : b = s /\ x = e.local_extra
    BY <1>6, EntryIs DEF IsBytes
  <2>2. IsBody(b)
    <3>1. PICK n \in Nat : n = Len(b) /\ n = 16
      BY <1>6, <2>1 DEF IsBytes
    <3>2. n # 0 /\ n <= 65535
      BY <3>1
    <3>3. b # <<>>
      <4>1. Len(<<>>) = 0
        OBVIOUS
      <4>2. b = <<>> => Len(b) = 0
        BY <4>1, Zenon
      <4>3. Len(b) # 0
        BY <3>1, <3>2
      <4> QED
        BY <4>2, <4>3, Zenon
    <3>4. Len(b) <= 65535
      BY <3>1, <3>2
    <3> QED
      BY <3>3, <3>4 DEF IsBody
  <2>3. NoField64(x)
    BY <2>1 DEF NoField64, IsEntry, Writable
  <2>4. FirstField64(x \o Field64(b)) = b
    BY <2>2, <2>3, FirstIsBody
  <2>5. LocalExtra(e) = e.local_extra \o Field64(s)
    BY <1>4 DEF LocalExtra
  <2> QED
    BY <2>1, <2>4, <2>5
<1>9. h[Order[1]] = U32 /\ h[Order[2]] = U32 /\ HasU32Size(h)
  BY OrderIs DEF LocalHeader, HasU32Size
<1>10. WordAt(h, 1) = 0 /\ WordAt(h, 2) = 8
  <2>1. WordAt(h, 1 + 1) = WordAt(h, 1) + (IF h[Order[1]] = U32 THEN 8 ELSE 0)
    BY WordAtSteps
  <2>2. WordAt(h, 1) = 0
    BY WordAtFirst
  <2> QED
    BY <1>9, <2>1, <2>2
<1>11. PICK n \in Nat : n = Len(s) /\ n = 16
  BY <1>6 DEF IsBytes
<1>12. Resolved(h, 1, s) = u
  <2>1. 0 + 8 <= Len(s) /\ Cut(s, 0, 0 + 8) = u
    BY <1>7, <1>11
  <2> QED
    BY <1>9, <1>10, <2>1 DEF Resolved
<1>13. Resolved(h, 2, s) = c
  <2>1. 8 + 8 <= Len(s) /\ Cut(s, 8, 8 + 8) = c
    BY <1>7, <1>11
  <2> QED
    BY <1>9, <1>10, <2>1 DEF Resolved
<1> QED
  BY <1>1, <1>8, <1>9, <1>12, <1>13 DEF Hints

\* The slice reads the fixed part of the header as it was written.
LEMMA FixedRead ==
  ASSUME Undamaged, NEW i \in Nat, NEW j \in Nat, NEW l \in Nat, LocalLengths(i, j, l)
  PROVE  /\ LocalFixed = LocalHeader(entry) /\ LocalReadable(HeaderBytes)
         /\ VariableLength(LocalFixed) = i + j /\ BodyStart = 30 + i + j
<1>1. PICK t \in Seq(Octet), n \in Nat : t = HeaderBytes /\ n = 30 /\ n <= Len(t)
  <2>1. HeaderBytes \in Seq(Octet) /\ 30 + i + j + l <= Len(HeaderBytes)
    BY HeaderPieces
  <2>2. PICK t \in Seq(Octet), m \in Nat : t = HeaderBytes /\ m = Len(t) /\ 30 + i + j + l <= m
    BY <2>1
  <2>3. 30 <= m
    BY <2>2
  <2> QED
    BY <2>2, <2>3
<1>2. PICK h : h = LocalHeader(entry)
  OBVIOUS
<1>3. Cut(t, 0, n) = Put(LocalWritten, h)
  BY <1>1, <1>2, HeaderPieces
<1>4. Stands(Put(LocalWritten, h), t, 0)
  BY <1>1, <1>3, CutStands
<1>5. Get(LocalWritten, t) = h
  <2>1. Fills(LocalWritten, h) /\ h = [f \in DOMAIN LocalWritten |-> h[f]]
    BY <1>2, LocalFills, LocalRecordOf DEF Undamaged
  <2> QED
    BY <1>4, <2>1, LocalTiles, ReadBack
<1>6. LocalFixed = h
  BY <1>1, <1>5, LocalSame DEF LocalFixed
<1>7. Get(LocalWritten, t).signature = Cut(t, 0, 4)
  BY DEF Get, LocalWritten
<1>8. h.signature = LocalSignature
  BY <1>2 DEF LocalHeader
<1>9. LocalReadable(t)
  <2>1. Len(t) \in Nat /\ Len(t) >= 30
    BY <1>1
  <2> QED
    BY <1>5, <1>7, <1>8, <2>1, LocalLayout DEF LocalReadable, Readable
<1>10. VariableLength(LocalFixed) = i + j
  BY <1>2, <1>6 DEF VariableLength, LocalLengths
<1>11. BodyStart = 30 + i + j
  BY <1>10 DEF BodyStart
<1> QED
  BY <1>1, <1>2, <1>6, <1>9, <1>10, <1>11

\* And what is variable.
LEMMA VariableRead ==
  ASSUME Undamaged, NEW i \in Nat, NEW j \in Nat, NEW l \in Nat, LocalLengths(i, j, l),
         NEW variable, variable = Cut(HeaderBytes, 30, BodyStart)
  PROVE  Cut(variable, 0, i) = entry.name /\ From(variable, i) = LocalExtra(entry)
<1>1. PICK t \in Seq(Octet), a \in Nat, b \in Nat, k \in Nat, o \in Nat, c \in Nat :
        /\ t = HeaderBytes /\ a = 30 /\ b = 30 + i + j /\ k = i + j /\ o = 0 /\ c = 30 + i
  <2>1. HeaderBytes \in Seq(Octet)
    BY HeaderPieces
  <2> QED
    BY <2>1
<1>2. /\ a <= b /\ o <= i /\ i <= k /\ a + i <= b /\ a + k <= b
      /\ a + o = a /\ a + i = c /\ a + k = b /\ b - a = k
  BY <1>1
<1>3. b <= Len(t)
  <2>1. PICK m \in Nat : m = Len(t)
    OBVIOUS
  <2>2. 30 + i + j + l <= m
    BY <1>1, <2>1, HeaderPieces
  <2> QED
    BY <1>1, <2>1, <2>2
<1>4. variable = Cut(t, a, b)
  BY <1>1, FixedRead
<1>5. Cut(Cut(t, a, b), o, i) = Cut(t, a + o, a + i)
  BY <1>2, <1>3, CutOfCut
<1>6. Cut(Cut(t, a, b), i, k) = Cut(t, a + i, a + k)
  BY <1>2, <1>3, CutOfCut
<1>7. Len(Cut(t, a, b)) = k
  <2>1. Len(Cut(t, a, b)) = b - a
    BY <1>2, <1>3, CutProperties
  <2> QED
    BY <1>2, <2>1
<1>8. From(variable, i) = Cut(t, c, b)
  BY <1>2, <1>4, <1>6, <1>7, FromIsCut
<1>9. Cut(variable, 0, i) = Cut(t, a, c)
  BY <1>1, <1>2, <1>4, <1>5
<1>10. Cut(t, a, c) = entry.name /\ Cut(t, c, b) = LocalExtra(entry)
  BY <1>1, HeaderPieces
<1> QED
  BY <1>8, <1>9, <1>10

(***************************************************************************)
(* The slice gives an entry that is where the directory says as it was     *)
(* written.                                                                *)
(***************************************************************************)
LEMMA LocalIsParsed ==
  ASSUME ViewsInv, IsEntry(entry), bytes = File(entry)
  PROVE  LocalAsWritten
<1> SUFFICES ASSUME Held
             PROVE  \E v \in SliceView :
                      /\ v.local.header = LocalHeader(entry)
                      /\ v.local.file_path = entry.name
                      /\ v.local.extra_field = LocalExtra(entry)
                      /\ Forced(entry) /\ Fields64(entry.local_extra) = {} =>
                           v.local.hints = [uncompressed_size |-> entry.uncompressed_size,
                                            compressed_size |-> entry.compressed_size]
                      /\ Cut(bytes, v.range[1], v.range[2]) = entry.data
  BY DEF LocalAsWritten
<1>1. Undamaged
  BY DEF Undamaged
<1>2. PICK i \in Nat, j \in Nat, l \in Nat : LocalLengths(i, j, l)
  BY LocalLengthsAre
<1>3. /\ LocalFixed = LocalHeader(entry) /\ LocalReadable(HeaderBytes)
      /\ VariableLength(LocalFixed) = i + j /\ BodyStart = 30 + i + j
  BY <1>1, <1>2, FixedRead
<1>4. /\ HeaderStart \in Nat /\ HeaderStart + (30 + i + j + l) <= Len(bytes)
      /\ Cut(bytes, HeaderStart + (30 + i + j), HeaderStart + (30 + i + j + l)) = entry.data
      /\ Value(wayfinder.compressed_size) = l
  BY <1>1, <1>2, LocalPieces
<1>5. AtMost(wayfinder.compressed_size, Len(HeaderBytes) - BodyStart)
  <2>1. PICK a, m : a \in Nat /\ a = HeaderStart /\ m = Len(bytes)
    BY <1>4
  <2>2. a + (30 + i + j) + l = a + (30 + i + j + l) /\ a + (30 + i + j + l) <= m
    BY <1>4, <2>1
  <2>3. HeaderStart + BodyStart + Value(wayfinder.compressed_size) <= Len(bytes)
    BY <1>3, <1>4, <2>1, <2>2
  <2> QED
    BY <1>3, <2>3, SliceHolds
<1>6. SliceView = {SliceSays}
  BY <1>3, <1>5, SliceIs
<1>7. PICK variable : variable = Cut(HeaderBytes, 30, BodyStart)
  OBVIOUS
<1>8. Cut(variable, 0, i) = entry.name /\ From(variable, i) = LocalExtra(entry)
  BY <1>1, <1>2, <1>7, VariableRead
<1>9. PICK v : v = LocalView(LocalFixed, variable)
  OBVIOUS
<1>10. SliceSays.local = v
  BY <1>7, <1>9 DEF SliceSays
<1>11. /\ v.header = LocalFixed /\ v.file_path = Cut(variable, 0, i)
       /\ v.extra_field = From(variable, i)
       /\ v.hints = Hints(LocalFixed, From(variable, i))
  <2>1. LeU16(LocalFixed.file_name_len, 1) = i
    BY <1>2, <1>3 DEF LocalLengths
  <2> QED
    BY <1>9, <2>1 DEF LocalView
<1>12. Forced(entry) /\ Fields64(entry.local_extra) = {} =>
         v.hints = [uncompressed_size |-> entry.uncompressed_size,
                    compressed_size |-> entry.compressed_size]
  BY <1>3, <1>8, <1>11, HintsRead
<1>13. Cut(bytes, SliceSays.range[1], SliceSays.range[2]) = entry.data
  <2>1. /\ SliceSays.range[1] = HeaderStart + BodyStart
        /\ SliceSays.range[2] = HeaderStart + (BodyStart + Value(wayfinder.compressed_size))
    BY DEF SliceSays
  <2>2. /\ SliceSays.range[1] = HeaderStart + (30 + i + j)
        /\ SliceSays.range[2] = HeaderStart + (30 + i + j + l)
    BY <1>3, <1>4, <2>1
  <2> QED
    BY <1>4, <2>2
<1>14. PICK w : w = SliceSays
  OBVIOUS
<1>15. /\ w.local.header = LocalHeader(entry) /\ w.local.file_path = entry.name
       /\ w.local.extra_field = LocalExtra(entry)
       /\ Forced(entry) /\ Fields64(entry.local_extra) = {} =>
            w.local.hints = [uncompressed_size |-> entry.uncompressed_size,
                             compressed_size |-> entry.compressed_size]
       /\ Cut(bytes, w.range[1], w.range[2]) = entry.data
  BY <1>3, <1>8, <1>10, <1>11, <1>12, <1>13, <1>14
<1>16. w \in SliceView
  BY <1>6, <1>14
<1> HIDE DEF SliceView
<1> QED
  BY <1>15, <1>16

\* As long as nothing is cut off, the file is as it was written.
WrittenInv ==
  ViewsInv /\ IsEntry(entry) /\ (whole => bytes = File(entry))

\* It holds at first, and cutting off the last byte keeps it.
LEMMA WrittenStart == RecordsInit => WrittenInv
BY ViewsStart, RecordsAssumption DEF RecordsInit, WrittenInv, IsEntry

LEMMA WrittenStep == WrittenInv /\ [CutOff]_recordVars => WrittenInv'
<1> SUFFICES ASSUME WrittenInv, [CutOff]_recordVars PROVE WrittenInv'
  OBVIOUS
<1>1. ViewsInv'
  BY ViewsStep DEF WrittenInv
<1>2. IsEntry(entry)' /\ (whole' => bytes' = File(entry'))
  BY DEF WrittenInv, CutOff, recordVars
<1> QED
  BY <1>1, <1>2 DEF WrittenInv

(***************************************************************************)
(* Records!WrittenIsParsed.  Of an entry of any length, with any extra     *)
(* fields and data, of any producer and in whatever width its numbers ask  *)
(* for, what was written into the central record, the local header, the    *)
(* descriptor and the end of the directory is read again: the writer's     *)
(* layouts are the parser's, the zip64 field is found behind the caller's  *)
(* fields, and its words go to the fields that are full, in order.         *)
(***************************************************************************)
THEOREM WrittenCorrect == RecordsSpec => []WrittenIsParsed
<1>1. RecordsSpec => []WrittenInv
  BY WrittenStart, WrittenStep, PTL DEF RecordsSpec
<1>2. WrittenInv => WrittenIsParsed
  BY CentralIsParsed, LocalIsParsed, EndIsParsed DEF WrittenInv, WrittenIsParsed
<1> QED
  BY <1>1, <1>2, PTL

=============================================================================
