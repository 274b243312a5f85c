------------------------------- MODULE Clock --------------------------------
(***************************************************************************)
(* The clock: read_rtc of rtc.c takes the time from the real time clock at *)
(* boot, register by register while that clock runs, and from then on      *)
(* PITInterruptHandler of pit.c keeps it and draws what changes of it.     *)
(* populate_inode_metadata of fs.c takes a stamp of the time, field by     *)
(* field while the handler may come.                                       *)
(*                                                                         *)
(* The registers of the real time clock hold two decimal digits each, and  *)
(* change all at once while the update flag is set.  Month and year, which *)
(* the kernel never carries into, are left out.                            *)
(***************************************************************************)
EXTENDS Integers, Sequences, FiniteSets

CONSTANTS
    Starts,         \* times at which the machine may be switched on
    FREQUENCY,      \* 100: the ticks that make a second
    MaxSeconds,     \* bound on the seconds that pass while the clock is read
    MaxTicks        \* bound on the ticks

Fields == <<"second", "minute", "hour", "day">>
Time == [second : 0 .. 59, minute : 0 .. 59, hour : 0 .. 23, day : 1 .. 31]
ASSUME StartsAssumption ==
    /\ Starts \subseteq Time
    /\ FREQUENCY \in Nat \ {0} /\ MaxSeconds \in Nat /\ MaxTicks \in Nat

VARIABLES
    rtc, updating,          \* the real time clock and its update flag
    systime, last,          \* the registers as read, then the time; the registers read before
    pc, reg,                \* of read_rtc: next step, and the next register
    clock_timer,            \* pit_ticks is the same number
    shown,                  \* history: what the real time clock showed since boot
    booted,                 \* history: the time when read_rtc was done
    face,                   \* the digits on the screen
    stamp, taken,           \* the stamp of an inode, and its fields taken so far
    began                   \* history: the time when the first of them was taken

reading == <<rtc, updating, last, pc, reg, shown, booted>>
stamping == <<stamp, taken, began>>
vars == <<reading, systime, clock_timer, face, stamping>>

Bcd(n) == ((n \div 10) * 16) + (n % 10)
FromBcd(x) == ((x \div 16) * 10) + (x % 16)
Registers == [f \in DOMAIN rtc |-> Bcd(rtc[f])]
NoTime == [second |-> 0, minute |-> 0, hour |-> 0, day |-> 0]

Init ==
    /\ rtc \in Starts /\ updating = FALSE
    /\ systime = NoTime /\ last = NoTime
    /\ pc = "flag" /\ reg = 1
    /\ clock_timer = 0
    /\ shown = {Registers} /\ booted = NoTime /\ face = << >>
    /\ stamp = NoTime /\ taken = 0 /\ began = NoTime

-----------------------------------------------------------------------------
(* The real time clock, a second later (in a month of 31 days).            *)
Later(t) ==
    LET minute == t.second = 59   hour == minute /\ t.minute = 59   day == hour /\ t.hour = 23
    IN  [second |-> (t.second + 1) % 60,
         minute |-> IF minute THEN (t.minute + 1) % 60 ELSE t.minute,
         hour |-> IF hour THEN (t.hour + 1) % 24 ELSE t.hour,
         day |-> IF day THEN (t.day % 31) + 1 ELSE t.day]

SetFlag ==
    /\ pc # "run" /\ ~updating /\ Cardinality(shown) <= MaxSeconds
    /\ updating' = TRUE
    /\ UNCHANGED <<rtc, systime, last, pc, reg, clock_timer, shown, booted, face, stamping>>

Update ==
    /\ updating /\ updating' = FALSE
    /\ rtc' = Later(rtc)
    /\ shown' = IF pc = "run" THEN shown ELSE shown \cup {[f \in DOMAIN rtc |-> Bcd(Later(rtc)[f])]}
    /\ UNCHANGED <<systime, last, pc, reg, clock_timer, booted, face, stamping>>

-----------------------------------------------------------------------------
(* read_rtc waits for the flag to be clear and reads each register, until  *)
(* it has read the same twice; what it starts with is no time at all.      *)
WaitForFlag ==
    /\ pc = "flag" /\ ~updating
    /\ pc' = "read" /\ reg' = 1
    /\ UNCHANGED <<rtc, updating, systime, last, clock_timer, shown, booted, face, stamping>>

read_RTC_reg ==
    /\ pc = "read"
    /\ systime' = [systime EXCEPT ![Fields[reg]] = Registers[Fields[reg]]]
    /\ pc' = IF reg = Len(Fields) THEN "compare" ELSE "read"
    /\ reg' = IF reg = Len(Fields) THEN 1 ELSE reg + 1
    /\ UNCHANGED <<rtc, updating, last, clock_timer, shown, booted, face, stamping>>

(* Mutant: the minutes are not compared.                                   *)
SameButMinutes == \A f \in {"second", "hour", "day"} : last[f] = systime[f]

Same == last = systime

(* From digits to numbers, and to a time zone three hours ahead; the day   *)
(* stays.                                                                  *)
Local(t) == [second |-> FromBcd(t.second), minute |-> FromBcd(t.minute),
             hour |-> (FromBcd(t.hour) + 3) % 24, day |-> FromBcd(t.day)]

(* itoa, for the numbers of a clock, and format_time, which kernel_main    *)
(* draws once.                                                             *)
itoa(n) == IF n < 10 THEN << n >> ELSE << n \div 10, n % 10 >>
TwoDigits(n) == IF Len(itoa(n)) = 1 THEN << 0, itoa(n)[1] >> ELSE itoa(n)
format_time(t) == [f \in DOMAIN t |-> TwoDigits(t[f])]

(* Mutant: the registers read before are not kept.                         *)
NotKept == last

Kept == systime

Compare ==
    /\ pc = "compare"
    /\ IF Same
         THEN /\ pc' = "run" /\ systime' = Local(systime) /\ booted' = Local(systime)
              /\ face' = format_time(systime')
              /\ UNCHANGED last
         ELSE /\ pc' = "flag" /\ last' = Kept
              /\ UNCHANGED <<systime, booted, face>>
    /\ UNCHANGED <<rtc, updating, reg, clock_timer, shown, stamping>>

-----------------------------------------------------------------------------
(* Mutant: the hour does not go back to 0.                                 *)
HourGoesOn(hour) == hour

HourAfter(hour) == IF hour >= 24 THEN 0 ELSE hour

(* A second more; the minute and the hour carry into the next.             *)
Carried(t) ==
    LET minute == t.minute + (IF t.second + 1 >= 60 THEN 1 ELSE 0)
        hour == t.hour + (IF minute >= 60 THEN 1 ELSE 0)
    IN  [second |-> IF t.second + 1 >= 60 THEN 0 ELSE t.second + 1,
         minute |-> IF minute >= 60 THEN 0 ELSE minute,
         hour |-> HourAfter(hour),
         day |-> t.day + (IF hour >= 24 THEN 1 ELSE 0)]

(* Mutant: the minute is drawn as it was.                                  *)
MinuteBefore(t) == TwoDigits(t.minute)

(* The minute is drawn before it goes back to 0, the hour never.           *)
MinuteDrawn(t) == TwoDigits(t.minute + 1)

update_clock ==
    /\ clock_timer' = clock_timer + 1
    /\ IF clock_timer' % FREQUENCY = 0
         THEN /\ systime' = Carried(systime)
              /\ face' = [face EXCEPT !.second = TwoDigits(systime'.second),
                                      !.minute = IF systime'.second = 0 THEN MinuteDrawn(systime) ELSE @]
         ELSE UNCHANGED <<systime, face>>

(* The timer interrupt; yield enters it by an int instruction.             *)
PITInterruptHandler ==
    /\ pc = "run" /\ clock_timer < MaxTicks
    /\ update_clock
    /\ UNCHANGED <<reading, stamping>>

(* Mutant: the day is taken first.                                         *)
LastFirst == <<"day", "hour", "minute", "second">>

StampOrder == <<"second", "minute", "hour", "day">>

populate_inode_metadata ==
    /\ pc = "run" /\ taken < Len(StampOrder)
    /\ stamp' = [stamp EXCEPT ![StampOrder[taken + 1]] = systime[StampOrder[taken + 1]]]
    /\ taken' = taken + 1
    /\ began' = IF taken = 0 THEN systime ELSE began
    /\ UNCHANGED <<reading, systime, clock_timer, face>>

Next == \/ SetFlag \/ Update \/ WaitForFlag \/ read_RTC_reg \/ Compare
        \/ PITInterruptHandler \/ populate_inode_metadata
Spec == Init /\ [][Next]_vars
FairSpec == Spec /\ WF_vars(WaitForFlag \/ read_RTC_reg \/ Compare) /\ WF_vars(Update)

-----------------------------------------------------------------------------
(* Although its registers are read one by one while it runs, the time that *)
(* read_rtc settles on is one that the real time clock did show.           *)
ReadRight == pc = "run" => \E t \in shown : booted = Local(t)

(* The time is the time of the boot and as many seconds as the ticks make: *)
(* each carry happens once, in the second in which it is due.              *)
Hours(t) == t.day * 24 + t.hour
Minutes(t) == Hours(t) * 60 + t.minute
Seconds(t) == Minutes(t) * 60 + t.second
TimeKept ==
    pc = "run" => /\ Seconds(systime) = Seconds(booted) + (clock_timer \div FREQUENCY)
                  /\ systime.second < 60 /\ systime.minute < 60 /\ systime.hour < 24

(* What is drawn piece by piece is the time, until an hour ends: then the  *)
(* hour stays as it is, and 60 stands for the minute 0.                    *)
Shows(digits, n) == digits[1] * 10 + digits[2] = n
FaceRight ==
    pc = "run" =>
      /\ Shows(face.second, systime.second)
      /\ \/ Shows(face.minute, systime.minute)
         \/ systime.minute = 0 /\ Shows(face.minute, 60)
      /\ systime.hour = booted.hour /\ systime.day = booted.day =>
           /\ Shows(face.minute, systime.minute)
           /\ Shows(face.hour, systime.hour) /\ Shows(face.day, systime.day)

(* A stamp that is torn by a carry is ahead of the time, never behind it,  *)
(* and only when a minute ended while it was taken.                        *)
StampNotBehind ==
    taken = Len(StampOrder) =>
      /\ Seconds(stamp) >= Seconds(began)
      /\ Minutes(systime) = Minutes(began) => Seconds(stamp) <= Seconds(systime)

(* read_rtc ends: it needs two passes in a row without an update, which    *)
(* come when no more than MaxSeconds updates disturb it.                   *)
ClockRead == <>(pc = "run")
=============================================================================
