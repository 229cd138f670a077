--------------------------- MODULE TimeConversion ---------------------------
(***************************************************************************)
(* The time stamps of a file: fat_time_to_unix (fat.cpp) takes the bits of *)
(* a FAT date and time apart for mktime, build_inode (ext4_inode.cpp)      *)
(* stores the result in 32 bits.  The words that would extend the range of *)
(* the stamps stay zero, so ext4 takes the 32 bits for a signed number.    *)
(*                                                                         *)
(* A number of seconds is a pair of 16-bit words, <<high, low>>; the       *)
(* high word of a number of any size is not limited.                       *)
(***************************************************************************)
EXTENDS Integers, Sequences, FiniteSetsExt

CONSTANTS ModStamps,        \* The stamps a FAT driver may have written:
          OtherStamps       \* [year, month, day, hour, minute, second]

VARIABLES stamps,           \* The stamps of the FAT entry: create, access, mod
          inode,            \* i_atime, i_mtime, i_ctime, i_crtime
          time_pc

timeVars == <<stamps, inode, time_pc>>

Word == 65536

\* days * 86400 + seconds
Seconds(days, seconds) ==
  LET low == days * 20864 + seconds            \* 86400 = 65536 + 20864
  IN  << days + (low \div Word), low % Word >>

-----------------------------------------------------------------------------
(***************************************************************************)
(* The format of FAT stamps: years from 1980, pairs of seconds.            *)
(***************************************************************************)
DateWord(t) == (t.year - 1980) * 512 + t.month * 32 + t.day
TimeWord(t) == t.hour * 2048 + t.minute * 32 + (t.second \div 2)

\* mktime of the C library: any month and day are normalised; the time zone is
\* that of the FAT driver and left out.
LeapDays(year) == (year \div 4) - (year \div 100) + (year \div 400)

DaysBefore(month, leap) ==
  << 0, 31, 59, 90, 120, 151, 181, 212, 243, 273, 304, 334 >>[month + 1]
    + IF leap /\ month > 1 THEN 1 ELSE 0

IsLeap(year) == LeapDays(year) # LeapDays(year - 1)

mktime(tm) ==
  LET year == 1900 + tm.year + (tm.mon \div 12)
      days == 365 * (year - 1970) + LeapDays(year - 1) - LeapDays(1969)
                + DaysBefore(tm.mon % 12, IsLeap(year)) + tm.mday - 1
  IN  Seconds(days, tm.hour * 3600 + tm.min * 60 + tm.sec)

-----------------------------------------------------------------------------
\* Mutated: months counted from one.
DatetmFromOne(date, time) ==
  [ year |-> (date \div 512) + 80, mon |-> (date \div 32) % 16, mday |-> date % 32,
    hour |-> time \div 2048, min |-> (time \div 32) % 64, sec |-> (time % 32) * 2 ]

datetm(date, time) ==
  [ year |-> (date \div 512) + 80, mon |-> ((date \div 32) % 16) - 1, mday |-> date % 32,
    hour |-> time \div 2048, min |-> (time \div 32) % 64, sec |-> (time % 32) * 2 ]

\* The cast to uint32_t drops what is above the high word.
Cast(seconds) == << seconds[1] % Word, seconds[2] >>

fat_time_to_unix(date, time) == Cast(mktime(datetm(date, time)))

PlusOne(seconds) == Cast(<< seconds[1] + ((seconds[2] + 1) \div Word), (seconds[2] + 1) % Word >>)

Unset == << 0, 0 >>

TimeInit ==
  /\ stamps \in [create : OtherStamps, access : OtherStamps, mod : ModStamps]
  /\ inode = [i_atime |-> Unset, i_mtime |-> Unset, i_ctime |-> Unset, i_crtime |-> Unset]
  /\ time_pc = "read"

build_inode ==
  LET mtime == fat_time_to_unix(DateWord(stamps.mod), TimeWord(stamps.mod))
  IN  /\ time_pc = "read"
      /\ inode' = [ i_atime  |-> fat_time_to_unix(DateWord(stamps.access), 0),
                    i_crtime |-> fat_time_to_unix(DateWord(stamps.create), TimeWord(stamps.create)),
                    i_mtime  |-> mtime,
                    i_ctime  |-> PlusOne(mtime) ]
      /\ time_pc' = "done"
      /\ UNCHANGED stamps

TimeDone == time_pc = "done" /\ UNCHANGED timeVars

TimeNext == build_inode \/ TimeDone

TimeSpec == TimeInit /\ [][TimeNext]_timeVars

-----------------------------------------------------------------------------
\* The seconds from 1970 to a stamp, counted year by year and month by month.
Elapsed(t, seconds) ==
  LET leap(y) == y % 4 = 0 /\ (y % 100 # 0 \/ y % 400 = 0)
      long(m) == IF m \in {4, 6, 9, 11} THEN 30 ELSE IF m = 2 THEN 28 ELSE 31
      years  == FoldSet(LAMBDA y, sum : sum + 365 + (IF leap(y) THEN 1 ELSE 0), 0,
                        1970 .. t.year - 1)
      months == FoldSet(LAMBDA m, sum : sum + long(m), 0, 1 .. t.month - 1)
      extra  == IF leap(t.year) /\ t.month > 2 THEN 1 ELSE 0
  IN  Seconds(years + months + extra + t.day - 1, seconds)

OfDay(t) == t.hour * 3600 + t.minute * 60 + t.second

\* What ext4 reads from a field without its extra bits: a signed number.
ReadBack(field) == << IF field[1] >= Word \div 2 THEN field[1] - Word ELSE field[1], field[2] >>

IsDate(t) == t.month > 0 /\ t.day > 0

\* The stamp survives the conversion: read from the inode, it is the time the
\* FAT entry states, and the change time is the second after it.
Survives(t, field, seconds) == ReadBack(field) = Elapsed(t, seconds)

\* For every date before 2038 the three stamps of a file mean the same to ext4
\* as they did to FAT, at the ends of months, in leap years and out of them;
\* an access stamp has no time of day.
TimesKeptUntil2038 ==
  time_pc = "done" =>
    /\ IsDate(stamps.mod) /\ stamps.mod.year < 2038 =>
         /\ Survives(stamps.mod, inode.i_mtime, OfDay(stamps.mod))
         /\ Survives(stamps.mod, inode.i_ctime, OfDay(stamps.mod) + 1)
    /\ IsDate(stamps.access) => Survives(stamps.access, inode.i_atime, 0)
    /\ IsDate(stamps.create) => Survives(stamps.create, inode.i_crtime, OfDay(stamps.create))
=============================================================================
