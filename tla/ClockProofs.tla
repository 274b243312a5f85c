---------------------------- MODULE ClockProofs -----------------------------
(***************************************************************************)
(* For every frequency and however long the machine runs: the time is kept *)
(* and drawn as the properties of Clock say, and no stamp is behind it.    *)
(***************************************************************************)
EXTENDS Clock, FiniteSetTheorems, TLAPS

USE StartsAssumption

Set == [second : 0 .. 59, minute : 0 .. 59, hour : 0 .. 23, day : Nat]  \* a time
Registered == [second : {Bcd(n) : n \in 0 .. 59}, minute : {Bcd(n) : n \in 0 .. 59},
               hour : {Bcd(n) : n \in 0 .. 23}, day : {Bcd(n) : n \in 0 .. 31}]
Digits == [second : Seq(Nat), minute : Seq(Nat), hour : Seq(Nat), day : Seq(Nat)]

TypeOK ==
    /\ rtc \in Time
    /\ pc \in {"flag", "read", "compare", "run"} /\ reg \in 1 .. 4
    /\ clock_timer \in Nat /\ taken \in 0 .. 4
    /\ IF pc = "run"
         THEN systime \in Set /\ booted \in Set /\ face \in Digits
         ELSE systime \in Registered /\ last \in Registered /\ clock_timer = 0 /\ taken = 0
    /\ stamp \in [second : Nat, minute : Nat, hour : Nat, day : Nat]
    /\ taken > 0 => began \in Set

(* The hour that is drawn stays as it was at boot.                         *)
FaceKept ==
    pc = "run" =>
      /\ Shows(face.second, systime.second)
      /\ \/ Shows(face.minute, systime.minute)
         \/ systime.minute = 0 /\ Shows(face.minute, 60) /\ Hours(systime) > Hours(booted)
      /\ Shows(face.hour, booted.hour) /\ Shows(face.day, booted.day)
      /\ Hours(systime) >= Hours(booted)

(* The stamp, were all of the fields that are still to come taken now.     *)
Field(f, k) == IF taken >= k THEN stamp[f] ELSE systime[f]
Ahead == [second |-> Field("second", 1), minute |-> Field("minute", 2),
          hour |-> Field("hour", 3), day |-> Field("day", 4)]
StampHolds ==
    taken > 0 =>
      /\ Seconds(Ahead) >= Seconds(began)
      /\ Seconds(systime) >= Seconds(began)
      /\ Minutes(systime) = Minutes(began) => Seconds(Ahead) <= Seconds(systime)

-----------------------------------------------------------------------------
(* A tick more, in seconds.                                                *)
LEMMA Quotients ==
    ASSUME NEW f \in Nat \ {0}, NEW n \in Nat
    PROVE  (n + 1) \div f = (n \div f) + (IF (n + 1) % f = 0 THEN 1 ELSE 0)
<1>1. n = f * (n \div f) + (n % f) /\ n % f \in 0 .. f - 1
  OBVIOUS
<1>2. n + 1 = f * ((n + 1) \div f) + ((n + 1) % f) /\ (n + 1) % f \in 0 .. f - 1
  OBVIOUS
<1> QED BY <1>1, <1>2

LEMMA BcdBack == \A n \in 0 .. 99 : Bcd(n) \in Nat /\ FromBcd(Bcd(n)) = n
BY DEF Bcd, FromBcd

LEMMA DigitsShow == \A n \in 0 .. 99 : TwoDigits(n) \in Seq(Nat) /\ Shows(TwoDigits(n), n)
<1> SUFFICES ASSUME NEW n \in 0 .. 99 PROVE TwoDigits(n) \in Seq(Nat) /\ Shows(TwoDigits(n), n)
  OBVIOUS
<1>1. CASE n < 10
  <2>1. TwoDigits(n) = << 0, n >>
    BY <1>1 DEF TwoDigits, itoa
  <2> QED BY <2>1 DEF Shows
<1>2. CASE ~ n < 10
  <2>1. TwoDigits(n) = << n \div 10, n % 10 >>
    BY <1>2 DEF TwoDigits, itoa
  <2> QED BY <2>1 DEF Shows
<1> QED BY <1>1, <1>2

LEMMA UnitsTyped ==
    ASSUME NEW t \in Set PROVE Hours(t) \in Nat /\ Minutes(t) \in Nat /\ Seconds(t) \in Nat
<1>1. t.second \in Nat /\ t.minute \in Nat /\ t.hour \in Nat /\ t.day \in Nat
  BY DEF Set
<1>2. Hours(t) \in Nat
  BY <1>1 DEF Hours
<1>3. Minutes(t) \in Nat
  BY <1>1, <1>2 DEF Minutes
<1> QED BY <1>1, <1>2, <1>3 DEF Seconds

(* One second more: of each unit the next is carried into, or none.        *)
LEMMA Carry ==
    ASSUME NEW t \in Set
    PROVE  LET c == Carried(t) IN
           /\ c \in Set
           /\ Seconds(c) = Seconds(t) + 1
           /\ IF c.second = 0
                THEN IF c.minute = 0 THEN t.minute = 59 /\ Hours(c) = Hours(t) + 1 /\ c.day >= t.day
                                     ELSE c.minute = t.minute + 1 /\ c.hour = t.hour /\ c.day = t.day
                ELSE c.minute = t.minute /\ c.hour = t.hour /\ c.day = t.day
<1> DEFINE minute == t.minute + (IF t.second + 1 >= 60 THEN 1 ELSE 0)
           hour == t.hour + (IF minute >= 60 THEN 1 ELSE 0)
<1>1. /\ t.second \in 0 .. 59 /\ t.minute \in 0 .. 59 /\ t.hour \in 0 .. 23 /\ t.day \in Nat
      /\ minute \in 0 .. 60 /\ hour \in 0 .. 24
  BY DEF Set
<1> HIDE DEF minute, hour
<1>2. Carried(t) = [second |-> IF t.second + 1 >= 60 THEN 0 ELSE t.second + 1,
                    minute |-> IF minute >= 60 THEN 0 ELSE minute,
                    hour |-> IF hour >= 24 THEN 0 ELSE hour,
                    day |-> t.day + (IF hour >= 24 THEN 1 ELSE 0)]
  BY DEF Carried, HourAfter, minute, hour
<1>3. Carried(t) \in Set
  BY <1>1, <1>2 DEF Set
<1>4. CASE t.second + 1 < 60
  <2>1. minute = t.minute /\ hour = t.hour
    BY <1>1, <1>4 DEF minute, hour
  <2>2. Carried(t) = [second |-> t.second + 1, minute |-> t.minute, hour |-> t.hour, day |-> t.day]
    BY <1>1, <1>2, <1>4, <2>1
  <2>3. /\ Carried(t).second = t.second + 1 /\ Carried(t).minute = t.minute
        /\ Carried(t).hour = t.hour /\ Carried(t).day = t.day
    BY <2>2
  <2>4. Minutes(t) \in Nat /\ Minutes(Carried(t)) = Minutes(t)
    BY <2>3, UnitsTyped DEF Minutes, Hours
  <2>5. Seconds(Carried(t)) = Seconds(t) + 1
    BY <1>1, <2>3, <2>4 DEF Seconds
  <2>6. t.second + 1 # 0
    BY <1>1
  <2> QED BY <1>3, <2>3, <2>5, <2>6
<1>5. CASE t.second = 59 /\ t.minute < 59
  <2>1. minute = t.minute + 1 /\ hour = t.hour
    BY <1>1, <1>5 DEF minute, hour
  <2>2. Carried(t) = [second |-> 0, minute |-> t.minute + 1, hour |-> t.hour, day |-> t.day]
    BY <1>1, <1>2, <1>5, <2>1
  <2>3. /\ Carried(t).second = 0 /\ Carried(t).minute = t.minute + 1
        /\ Carried(t).hour = t.hour /\ Carried(t).day = t.day
    BY <2>2
  <2>4. Hours(t) \in Nat /\ Hours(Carried(t)) = Hours(t)
    BY <2>3, UnitsTyped DEF Hours
  <2>. Minutes(t) \in Nat /\ Minutes(Carried(t)) = Minutes(t) + 1
    BY <1>1, <2>3, <2>4, UnitsTyped DEF Minutes
  <2>5. Seconds(Carried(t)) = Seconds(t) + 1
    BY <1>5, <2>3, <2>4 DEF Seconds
  <2>6. t.minute + 1 # 0
    BY <1>1
  <2> QED BY <1>3, <2>3, <2>5, <2>6
<1>6. CASE t.second = 59 /\ t.minute = 59
  <2>1. minute = 60 /\ hour = t.hour + 1
    BY <1>1, <1>6 DEF minute, hour
  <2>2. Carried(t) = [second |-> 0, minute |-> 0, hour |-> IF t.hour = 23 THEN 0 ELSE t.hour + 1,
                      day |-> t.day + (IF t.hour = 23 THEN 1 ELSE 0)]
    BY <1>1, <1>2, <1>6, <2>1
  <2>3. /\ Carried(t).second = 0 /\ Carried(t).minute = 0 /\ Carried(t).day >= t.day
        /\ Hours(Carried(t)) = Hours(t) + 1
    BY <1>1, <2>2 DEF Hours
  <2>4. Hours(t) \in Nat
    BY UnitsTyped
  <2>5. Seconds(Carried(t)) = Hours(Carried(t)) * 3600 /\ Seconds(t) = Hours(t) * 3600 + 3599
    BY <1>6, <2>3, <2>4 DEF Seconds, Minutes
  <2> QED BY <1>3, <1>6, <2>3, <2>4, <2>5
<1> QED BY <1>1, <1>4, <1>5, <1>6

-----------------------------------------------------------------------------
(* The types: what has been read are digits of a time, the rest is a time. *)
LEMMA Types == Spec => []TypeOK
<1>1. Init => TypeOK
  <2> SUFFICES ASSUME Init PROVE TypeOK
    OBVIOUS
  <2>1. Bcd(0) = 0
    BY DEF Bcd
  <2>2. NoTime \in Registered /\ NoTime \in [second : Nat, minute : Nat, hour : Nat, day : Nat]
    BY <2>1 DEF NoTime, Registered
  <2> QED BY <2>2 DEF Init, TypeOK
<1>2. TypeOK /\ [Next]_vars => TypeOK'
  <2> SUFFICES ASSUME TypeOK, [Next]_vars PROVE TypeOK'
    OBVIOUS
  <2> USE DEF TypeOK, stamping
  <2>1. CASE SetFlag
    BY <2>1 DEF SetFlag
  <2>2. CASE Update
    <3>1. Later(rtc) \in Time
      BY DEF Later, Time
    <3> QED BY <2>2, <3>1 DEF Update
  <2>3. CASE WaitForFlag
    BY <2>3 DEF WaitForFlag
  <2>4. CASE read_RTC_reg
    <3>1. systime' \in Registered
      <4>1. /\ Registers.second \in {Bcd(n) : n \in 0 .. 59} /\ Registers.minute \in {Bcd(n) : n \in 0 .. 59}
            /\ Registers.hour \in {Bcd(n) : n \in 0 .. 23} /\ Registers.day \in {Bcd(n) : n \in 0 .. 31}
        BY DEF Registers, Time
      <4>2. CASE reg = 1
        BY <2>4, <4>1, <4>2 DEF read_RTC_reg, Fields, Registered
      <4>3. CASE reg = 2
        BY <2>4, <4>1, <4>3 DEF read_RTC_reg, Fields, Registered
      <4>4. CASE reg = 3
        BY <2>4, <4>1, <4>4 DEF read_RTC_reg, Fields, Registered
      <4>5. CASE reg = 4
        BY <2>4, <4>1, <4>5 DEF read_RTC_reg, Fields, Registered
      <4> QED BY <4>2, <4>3, <4>4, <4>5
    <3>2. Len(Fields) = 4
      BY DEF Fields
    <3> QED BY <2>4, <3>1, <3>2 DEF read_RTC_reg
  <2>5. CASE Compare
    <3>1. CASE ~Same
      BY <2>5, <3>1 DEF Compare, Kept
    <3>2. CASE Same
      <4>1. /\ FromBcd(systime.second) \in 0 .. 59 /\ FromBcd(systime.minute) \in 0 .. 59
            /\ FromBcd(systime.hour) \in 0 .. 23 /\ FromBcd(systime.day) \in 0 .. 31
        BY <2>5, BcdBack DEF Compare, Registered
      <4>2. Local(systime) \in Set
        BY <4>1 DEF Local, Set
      <4>3. format_time(Local(systime)) \in Digits
        <5> DEFINE l == Local(systime)
        <5>1. format_time(l) = [second |-> TwoDigits(l.second), minute |-> TwoDigits(l.minute),
                                hour |-> TwoDigits(l.hour), day |-> TwoDigits(l.day)]
          BY DEF Local, format_time
        <5>2. \A f \in {"second", "minute", "hour", "day"} : l[f] \in 0 .. 99
          BY <4>1 DEF Local
        <5>3. /\ TwoDigits(l.second) \in Seq(Nat) /\ TwoDigits(l.minute) \in Seq(Nat)
              /\ TwoDigits(l.hour) \in Seq(Nat) /\ TwoDigits(l.day) \in Seq(Nat)
          BY <5>2, DigitsShow
        <5> QED BY <5>1, <5>3 DEF Digits
      <4> QED BY <2>5, <3>2, <4>2, <4>3 DEF Compare
    <3> QED BY <3>1, <3>2
  <2>6. CASE PITInterruptHandler
    <3>1. Carried(systime) \in Set /\ (systime.minute + 1) \in 0 .. 99 /\ Carried(systime).second \in 0 .. 99
      BY <2>6, Carry DEF PITInterruptHandler, Set
    <3>2. TwoDigits(systime.minute + 1) \in Seq(Nat) /\ TwoDigits(Carried(systime).second) \in Seq(Nat)
      BY <3>1, DigitsShow
    <3>3. UNCHANGED <<systime, face>> \/ (systime' \in Set /\ face' \in Digits)
      BY <2>6, <3>1, <3>2 DEF PITInterruptHandler, update_clock, MinuteDrawn, Digits
    <3> QED BY <2>6, <3>3 DEF PITInterruptHandler, update_clock, reading
  <2>7. CASE populate_inode_metadata
    BY <2>7 DEF populate_inode_metadata, StampOrder, reading, Set
  <2>8. CASE UNCHANGED vars
    BY <2>8 DEF vars, reading
  <2> QED BY <2>1, <2>2, <2>3, <2>4, <2>5, <2>6, <2>7, <2>8 DEF Next
<1> QED BY <1>1, <1>2, PTL DEF Spec

-----------------------------------------------------------------------------
(* An interrupt: one second more when the ticks make one, with what is     *)
(* drawn of it, or nothing.  And what the other steps leave alone.         *)
LEMMA Tick ==
    ASSUME TypeOK, PITInterruptHandler
    PROVE  /\ systime \in Set /\ face \in Digits /\ clock_timer' = clock_timer + 1
           /\ UNCHANGED <<pc, booted, stamp, taken, began>>
           /\ IF (clock_timer + 1) % FREQUENCY = 0
                THEN /\ systime' = Carried(systime)
                     /\ face' = [face EXCEPT
                                   !.second = TwoDigits(systime'.second),
                                   !.minute = IF systime'.second = 0 THEN MinuteDrawn(systime) ELSE @]
                ELSE UNCHANGED <<systime, face>>
BY DEF TypeOK, PITInterruptHandler, update_clock, reading, stamping

LEMMA NoTick ==
    ASSUME TypeOK, [Next]_vars, ~PITInterruptHandler, pc = "run"
    PROVE  UNCHANGED <<pc, booted, systime, clock_timer, face>>
BY DEF Next, vars, reading, SetFlag, Update, WaitForFlag, read_RTC_reg, Compare, populate_inode_metadata

(* The time is that of the boot and a second for every FREQUENCY ticks,    *)
(* carried into minutes, hours and days.                                   *)
THEOREM TimeIsKept == Spec => []TimeKept
<1>1. Init => TimeKept
  BY DEF Init, TimeKept
<1>2. TimeKept /\ TypeOK /\ TypeOK' /\ [Next]_vars => TimeKept'
  <2> SUFFICES ASSUME TimeKept, TypeOK, TypeOK', [Next]_vars, pc' = "run" PROVE TimeKept'
    BY DEF TimeKept
  <2>1. systime' \in Set
    BY DEF TypeOK
  <2>2. Seconds(systime)' = Seconds(booted)' + (clock_timer' \div FREQUENCY)
    <3>1. CASE pc # "run"
      <4>1. Compare
        BY <3>1 DEF Next, vars, reading, SetFlag, Update, WaitForFlag, read_RTC_reg, Compare,
                    PITInterruptHandler, populate_inode_metadata
      <4>2. systime' = booted' /\ clock_timer' = 0
        BY <3>1, <4>1 DEF Compare, TypeOK
      <4>3. Seconds(systime') \in Nat /\ 0 \div FREQUENCY = 0
        BY <2>1, UnitsTyped
      <4> QED BY <4>2, <4>3
    <3>2. CASE pc = "run" /\ PITInterruptHandler
      <4>1. clock_timer \in Nat /\ FREQUENCY \in Nat \ {0} /\ Seconds(systime) \in Nat /\ booted \in Set
        BY <3>2, Tick, UnitsTyped DEF TypeOK
      <4>2. Seconds(booted) \in Nat /\ clock_timer \div FREQUENCY \in Nat
        BY <4>1, UnitsTyped
      <4>3. Seconds(systime') = Seconds(systime) + (IF (clock_timer + 1) % FREQUENCY = 0 THEN 1 ELSE 0)
        BY <3>2, <4>1, Tick, Carry
      <4>4. (clock_timer + 1) \div FREQUENCY
              = (clock_timer \div FREQUENCY) + (IF (clock_timer + 1) % FREQUENCY = 0 THEN 1 ELSE 0)
        BY <4>1, Quotients
      <4>5. Seconds(systime) = Seconds(booted) + (clock_timer \div FREQUENCY)
        BY <3>2 DEF TimeKept
      <4>6. booted' = booted /\ clock_timer' = clock_timer + 1
        BY <3>2, Tick
      <4> QED BY <4>1, <4>2, <4>3, <4>4, <4>5, <4>6
    <3>3. CASE pc = "run" /\ ~PITInterruptHandler
      BY <3>3, NoTick DEF TimeKept
    <3> QED BY <3>1, <3>2, <3>3
  <2> QED BY <2>1, <2>2 DEF TimeKept, Set
<1> QED BY <1>1, <1>2, Types, PTL DEF Spec

-----------------------------------------------------------------------------
(* The clock on the screen shows the time piece by piece, until an hour    *)
(* has ended: then the hour stays, and 60 may stand for the minute 0.      *)
THEOREM FaceIsRight == Spec => []FaceRight
<1>1. Init => FaceKept
  BY DEF Init, FaceKept
<1>2. FaceKept /\ TypeOK /\ TypeOK' /\ [Next]_vars => FaceKept'
  <2> SUFFICES ASSUME FaceKept, TypeOK, TypeOK', [Next]_vars, pc' = "run" PROVE FaceKept'
    BY DEF FaceKept
  <2>1. CASE pc # "run"
    <3>1. Compare
      BY <2>1 DEF Next, vars, reading, SetFlag, Update, WaitForFlag, read_RTC_reg, Compare,
                  PITInterruptHandler, populate_inode_metadata
    <3>2. /\ systime' = booted' /\ systime' = Local(systime) /\ face' = format_time(Local(systime))
      BY <2>1, <3>1 DEF Compare
    <3> DEFINE l == Local(systime)
    <3>3. format_time(l) = [second |-> TwoDigits(l.second), minute |-> TwoDigits(l.minute),
                            hour |-> TwoDigits(l.hour), day |-> TwoDigits(l.day)]
      BY DEF Local, format_time
    <3>4. l.second \in 0 .. 99 /\ l.minute \in 0 .. 99 /\ l.hour \in 0 .. 99 /\ l.day \in 0 .. 99
      BY <2>1, BcdBack DEF TypeOK, Registered, Local
    <3>5. Shows(TwoDigits(l.second), l.second) /\ Shows(TwoDigits(l.minute), l.minute)
          /\ Shows(TwoDigits(l.hour), l.hour) /\ Shows(TwoDigits(l.day), l.day)
      BY <3>4, DigitsShow
    <3>6. Hours(l) \in Nat
      BY <3>2, UnitsTyped DEF TypeOK
    <3> HIDE DEF l
    <3> QED BY <3>2, <3>3, <3>5, <3>6 DEF FaceKept, l
  <2>2. CASE pc = "run" /\ PITInterruptHandler
    <3>1. CASE UNCHANGED <<systime, face>>
      BY <2>2, <3>1, Tick DEF FaceKept
    <3>2. CASE ~ UNCHANGED <<systime, face>>
      <4>1. /\ systime \in Set /\ face \in Digits /\ systime' = Carried(systime) /\ booted' = booted
            /\ face' = [face EXCEPT !.second = TwoDigits(systime'.second),
                                    !.minute = IF systime'.second = 0 THEN TwoDigits(systime.minute + 1) ELSE @]
        BY <2>2, <3>2, Tick DEF MinuteDrawn
      <4>2. /\ face'.second = TwoDigits(systime'.second)
            /\ face'.minute = IF systime'.second = 0 THEN TwoDigits(systime.minute + 1) ELSE face.minute
            /\ face'.hour = face.hour /\ face'.day = face.day
        BY <4>1 DEF Digits
      <4>3. systime'.second \in 0 .. 99 /\ systime.minute + 1 \in 0 .. 99
        BY <4>1, Carry DEF Set
      <4>4. Shows(TwoDigits(systime'.second), systime'.second)
            /\ Shows(TwoDigits(systime.minute + 1), systime.minute + 1)
        BY <4>3, DigitsShow
      <4>5. Hours(systime) \in Nat /\ Hours(booted) \in Nat
        BY <2>2, <4>1, UnitsTyped DEF TypeOK
      <4>6. CASE systime'.second # 0
        <5>1. systime'.minute = systime.minute /\ Hours(systime') = Hours(systime)
          BY <4>1, <4>6, Carry DEF Hours
        <5> QED BY <2>2, <4>1, <4>2, <4>4, <4>6, <5>1 DEF FaceKept
      <4>7. CASE systime'.second = 0 /\ systime'.minute # 0
        <5>1. systime'.minute = systime.minute + 1 /\ Hours(systime') = Hours(systime)
          BY <4>1, <4>7, Carry DEF Hours
        <5> QED BY <2>2, <4>1, <4>2, <4>4, <4>7, <5>1 DEF FaceKept
      <4>8. CASE systime'.second = 0 /\ systime'.minute = 0
        <5>1. systime.minute = 59 /\ Hours(systime') = Hours(systime) + 1
          BY <4>1, <4>8, Carry
        <5> QED BY <2>2, <4>1, <4>2, <4>4, <4>5, <4>8, <5>1 DEF FaceKept
      <4> QED BY <4>6, <4>7, <4>8
    <3> QED BY <3>1, <3>2
  <2>3. CASE pc = "run" /\ ~PITInterruptHandler
    BY <2>3, NoTick DEF FaceKept
  <2> QED BY <2>1, <2>2, <2>3
<1>3. FaceKept /\ TypeOK => FaceRight
  <2> SUFFICES ASSUME FaceKept, TypeOK, pc = "run" PROVE FaceRight
    BY DEF FaceRight
  <2>1. systime.hour = booted.hour /\ systime.day = booted.day => Hours(systime) = Hours(booted)
    BY DEF Hours
  <2>2. Hours(systime) \in Nat /\ Hours(booted) \in Nat
    BY UnitsTyped DEF TypeOK
  <2> QED BY <2>1, <2>2 DEF FaceKept, FaceRight
<1> QED BY <1>1, <1>2, <1>3, Types, PTL DEF Spec

-----------------------------------------------------------------------------
(* A time in seconds.                                                      *)
LEMMA Totals ==
    ASSUME NEW a \in [second : Nat, minute : Nat, hour : Nat, day : Nat]
    PROVE  /\ Hours(a) \in Nat /\ Minutes(a) \in Nat /\ Seconds(a) \in Nat
           /\ Seconds(a) = Hours(a) * 3600 + a.minute * 60 + a.second
<1>1. a.second \in Nat /\ a.minute \in Nat /\ a.hour \in Nat /\ a.day \in Nat
  OBVIOUS
<1>2. Hours(a) \in Nat
  BY <1>1 DEF Hours
<1>3. Minutes(a) \in Nat
  BY <1>1, <1>2 DEF Minutes
<1> QED BY <1>1, <1>2, <1>3 DEF Seconds, Minutes

(* A stamp whose fields are taken one by one is never behind the time when *)
(* the first was taken, and ahead of the time only when a minute has ended *)
(* since.                                                                  *)
THEOREM StampIsNotBehind == Spec => []StampNotBehind
<1>1. Init => StampHolds
  BY DEF Init, StampHolds
<1>2. StampHolds /\ TypeOK /\ TypeOK' /\ [Next]_vars => StampHolds'
  <2> SUFFICES ASSUME StampHolds, TypeOK, TypeOK', [Next]_vars, taken' > 0 PROVE StampHolds'
    BY DEF StampHolds
  <2>1. CASE populate_inode_metadata
    <3>1. /\ pc = "run" /\ systime \in Set /\ systime' = systime /\ taken' = taken + 1 /\ taken \in 0 .. 3
          /\ stamp' = [stamp EXCEPT ![StampOrder[taken + 1]] = systime[StampOrder[taken + 1]]]
          /\ began' = IF taken = 0 THEN systime ELSE began
      BY <2>1 DEF populate_inode_metadata, TypeOK, StampOrder
    <3>2. Ahead' = IF taken = 0 THEN systime ELSE Ahead
      <4>1. CASE taken = 0
        <5>1. Ahead' = [second |-> systime.second, minute |-> systime.minute,
                        hour |-> systime.hour, day |-> systime.day]
          BY <3>1, <4>1 DEF Ahead, Field, StampOrder, TypeOK
        <5> QED BY <3>1, <4>1, <5>1 DEF Set
      <4>2. CASE taken = 1
        BY <3>1, <4>2 DEF Ahead, Field, StampOrder, TypeOK
      <4>3. CASE taken = 2
        BY <3>1, <4>3 DEF Ahead, Field, StampOrder, TypeOK
      <4>4. CASE taken = 3
        BY <3>1, <4>4 DEF Ahead, Field, StampOrder, TypeOK
      <4> QED BY <3>1, <4>1, <4>2, <4>3, <4>4
    <3>3. Seconds(systime) \in Nat
      BY <3>1, UnitsTyped
    <3> QED BY <3>1, <3>2, <3>3 DEF StampHolds
  <2>2. CASE PITInterruptHandler
    <3>1. UNCHANGED <<stamp, taken, began>> /\ taken > 0 /\ systime \in Set
      BY <2>2, Tick
    <3>2. CASE UNCHANGED systime
      BY <3>1, <3>2 DEF StampHolds, Ahead, Field
    <3>3. CASE ~ UNCHANGED systime
      <4>1. systime' = Carried(systime) /\ systime' \in Set /\ began \in Set
        BY <2>2, <3>1, <3>3, Tick, Carry DEF TypeOK
      <4>2. /\ Ahead \in [second : Nat, minute : Nat, hour : Nat, day : Nat]
            /\ Ahead' \in [second : Nat, minute : Nat, hour : Nat, day : Nat]
        BY <3>1, <4>1 DEF Ahead, Field, TypeOK, Set
      <4> DEFINE c == Carried(systime)
      <4>6. /\ c.minute \in 0 .. 59 /\ c.hour \in Nat /\ c.day \in Nat
            /\ systime.minute \in 0 .. 59 /\ systime.hour \in Nat /\ systime.day \in Nat
            /\ stamp.minute \in Nat /\ stamp.hour \in Nat /\ stamp.day \in Nat
            /\ taken \in 1 .. 4
        BY <3>1, <4>1 DEF TypeOK, Set
      <4>7. /\ Ahead'.second = Ahead.second
            /\ Ahead.minute = (IF taken >= 2 THEN stamp.minute ELSE systime.minute)
            /\ Ahead'.minute = (IF taken >= 2 THEN stamp.minute ELSE c.minute)
            /\ Ahead.hour = (IF taken >= 3 THEN stamp.hour ELSE systime.hour)
            /\ Ahead'.hour = (IF taken >= 3 THEN stamp.hour ELSE c.hour)
            /\ Ahead.day = (IF taken >= 4 THEN stamp.day ELSE systime.day)
            /\ Ahead'.day = (IF taken >= 4 THEN stamp.day ELSE c.day)
        BY <3>1, <4>1, <4>6 DEF Ahead, Field
      <4> HIDE DEF c
      <4> DEFINE Goal == /\ Seconds(Ahead') >= Seconds(Ahead)
                         /\ \/ Minutes(c) = Minutes(systime) /\ Seconds(Ahead') = Seconds(Ahead)
                            \/ Minutes(c) = Minutes(systime) + 1
      <4>8. ASSUME c.second # 0 PROVE Goal
        <5>1. c.minute = systime.minute /\ c.hour = systime.hour /\ c.day = systime.day
          BY <3>1, <4>8, Carry DEF c
        <5>2. Seconds(Ahead') = Seconds(Ahead) /\ Minutes(c) = Minutes(systime)
          BY <4>7, <5>1 DEF Seconds, Minutes, Hours
        <5> QED BY <4>2, <5>2, Totals
      <4>9. ASSUME c.second = 0, c.minute # 0 PROVE Goal
        <5>1. c.minute = systime.minute + 1 /\ c.hour = systime.hour /\ c.day = systime.day
          BY <3>1, <4>9, Carry DEF c
        <5>2. Hours(Ahead') = Hours(Ahead) /\ Hours(c) = Hours(systime)
          BY <4>7, <5>1 DEF Hours
        <5>3. Ahead'.minute >= Ahead.minute /\ Ahead'.minute \in Nat /\ Ahead.minute \in Nat
          BY <4>6, <4>7, <5>1
        <5>4. Minutes(c) = Minutes(systime) + 1
          BY <3>1, <4>6, <5>1, <5>2, UnitsTyped DEF Minutes
        <5> QED BY <4>2, <4>7, <5>2, <5>3, <5>4, Totals
      <4>10. ASSUME c.second = 0, c.minute = 0 PROVE Goal
        <5>1. systime.minute = 59 /\ Hours(c) = Hours(systime) + 1 /\ c.day >= systime.day
          BY <3>1, <4>10, Carry DEF c
        <5>2. Minutes(c) = Minutes(systime) + 1
          BY <3>1, <4>10, <5>1, UnitsTyped DEF Minutes
        <5>3. CASE taken <= 2
          <6>1. Hours(Ahead') = Hours(Ahead) + 1 /\ Ahead.minute - Ahead'.minute <= 59
            BY <4>6, <4>7, <4>10, <5>1, <5>3 DEF Hours
          <6> QED BY <4>2, <4>7, <5>2, <6>1, Totals
        <5>4. CASE taken > 2
          <6>1. Hours(Ahead') >= Hours(Ahead) /\ Ahead'.minute = Ahead.minute
            BY <4>6, <4>7, <5>1, <5>4 DEF Hours
          <6> QED BY <4>2, <4>7, <5>2, <6>1, Totals
        <5> QED BY <4>6, <5>3, <5>4
      <4>3. Goal
        BY <4>8, <4>9, <4>10
      <4>4. Seconds(systime') = Seconds(systime) + 1 /\ Seconds(systime) \in Nat /\ Seconds(began) \in Nat
        BY <3>1, <4>1, Carry, UnitsTyped
      <4>5. ASSUME Minutes(systime') = Minutes(began) PROVE Seconds(Ahead') <= Seconds(systime')
        <5>1. Seconds(systime) >= Seconds(began)
          BY <3>1 DEF StampHolds
        <5>2. Minutes(systime) >= Minutes(began)
          <6>1. began.second \in 0 .. 59 /\ systime.second \in 0 .. 59
            BY <3>1, <4>1 DEF Set
          <6>2. Minutes(systime) \in Nat /\ Minutes(began) \in Nat
            BY <3>1, <4>1, UnitsTyped
          <6> QED BY <5>1, <6>1, <6>2 DEF Seconds
        <5>3. Minutes(systime) \in Nat /\ Minutes(began) \in Nat
          BY <3>1, <4>1, UnitsTyped
        <5>4. Minutes(systime) = Minutes(began) /\ Seconds(Ahead') = Seconds(Ahead)
          BY <4>1, <4>3, <4>5, <5>2, <5>3 DEF c
        <5> QED BY <3>1, <4>2, <4>4, <5>4, Totals DEF StampHolds
      <4> QED BY <3>1, <4>2, <4>3, <4>4, <4>5, Totals DEF StampHolds
    <3> QED BY <3>2, <3>3
  <2>3. CASE ~PITInterruptHandler /\ ~populate_inode_metadata
    <3>1. UNCHANGED <<systime, stamp, taken, began>>
      BY <2>3 DEF Next, vars, reading, stamping, SetFlag, Update, WaitForFlag, read_RTC_reg, Compare, TypeOK
    <3> QED BY <3>1 DEF StampHolds, Ahead, Field
  <2> QED BY <2>1, <2>2, <2>3
<1>3. StampHolds /\ TypeOK => StampNotBehind
  <2> SUFFICES ASSUME StampHolds, TypeOK, taken = 4 PROVE StampNotBehind
    BY DEF StampNotBehind, StampOrder
  <2>1. Ahead = stamp
    BY DEF Ahead, Field, TypeOK
  <2> QED BY <2>1 DEF StampHolds, StampNotBehind
<1> QED BY <1>1, <1>2, <1>3, Types, PTL DEF Spec

-----------------------------------------------------------------------------
(***************************************************************************)
(* The time that read_rtc settles on was shown.                            *)
(*                                                                         *)
(* What the real time clock shows differs in its seconds from all that it  *)
(* showed before, as long as less than a minute passes.  So the registers  *)
(* read in a pass are all of the second that was read first, or that       *)
(* second is over; and it is over for good, so two passes that agree have  *)
(* the first of them read within one second.                               *)
(***************************************************************************)
Age(t) == (rtc.second - FromBcd(t.second)) % 60
ShownOnce ==
    pc # "run" =>
      /\ IsFiniteSet(shown) /\ Cardinality(shown) <= MaxSeconds + (IF updating THEN 0 ELSE 1)
      /\ Registers \in shown
      /\ \A t \in shown : t \in Registered /\ Age(t) < Cardinality(shown)

Seen(second) == \E t \in shown : t.second = second
ReadSoFar == IF pc = "compare" THEN 4 ELSE IF pc = "read" THEN reg - 1 ELSE 0
Passes ==
    pc # "run" =>
      /\ last.day # 0 => /\ Seen(last.second)
                         /\ last.second = Registers.second => last = Registers
      /\ ReadSoFar > 0 =>
           /\ Seen(systime.second)
           /\ systime.second = Registers.second =>
                \A i \in 1 .. ReadSoFar : systime[Fields[i]] = Registers[Fields[i]]
           /\ last.day # 0 /\ last.second = systime.second => last \in shown
      /\ ReadSoFar = 4 => systime.day # 0

LEMMA RegistersTyped ==
    ASSUME TypeOK
    PROVE  /\ Registers \in Registered /\ Registers.day # 0
           /\ Registers = [second |-> Bcd(rtc.second), minute |-> Bcd(rtc.minute),
                           hour |-> Bcd(rtc.hour), day |-> Bcd(rtc.day)]
<1>1. /\ rtc.second \in 0 .. 59 /\ rtc.minute \in 0 .. 59 /\ rtc.hour \in 0 .. 23 /\ rtc.day \in 1 .. 31
      /\ DOMAIN rtc = {"second", "minute", "hour", "day"}
  BY DEF TypeOK, Time
<1>2. Registers = [second |-> Bcd(rtc.second), minute |-> Bcd(rtc.minute),
                   hour |-> Bcd(rtc.hour), day |-> Bcd(rtc.day)]
  BY <1>1 DEF Registers
<1>3. \A n \in 1 .. 31 : Bcd(n) # 0
  BY DEF Bcd
<1> QED BY <1>1, <1>2, <1>3 DEF Registered

(* Modulo 60, a second later.                                              *)
LEMMA Minute ==
    /\ \A s, n \in 0 .. 59 : (s - n) % 60 < 59 => (((s + 1) % 60) - n) % 60 = ((s - n) % 60) + 1
    /\ \A s \in 0 .. 59 : (s - s) % 60 = 0 /\ (s - ((s + 1) % 60)) % 60 = 59
<1>1. \A a \in -59 .. 59 : a % 60 = IF a < 0 THEN a + 60 ELSE a
  OBVIOUS
<1>2. \A s \in 0 .. 59 : (s + 1) % 60 = IF s = 59 THEN 0 ELSE s + 1
  OBVIOUS
<1>3. ASSUME NEW s \in 0 .. 59, NEW n \in 0 .. 59, (s - n) % 60 < 59
      PROVE  (((s + 1) % 60) - n) % 60 = ((s - n) % 60) + 1
  <2> DEFINE s1 == (s + 1) % 60
  <2>1. s1 \in 0 .. 59 /\ s1 = IF s = 59 THEN 0 ELSE s + 1
    BY <1>2
  <2> HIDE DEF s1
  <2>2. s - n \in -59 .. 59 /\ s1 - n \in -59 .. 59
    BY <2>1
  <2>3. (s - n) % 60 = (IF s - n < 0 THEN s - n + 60 ELSE s - n)
        /\ (s1 - n) % 60 = IF s1 - n < 0 THEN s1 - n + 60 ELSE s1 - n
    BY <1>1, <2>2
  <2>4. (s1 - n) % 60 = ((s - n) % 60) + 1
    BY <1>3, <2>1, <2>3
  <2> QED BY <2>4 DEF s1
<1>4. ASSUME NEW s \in 0 .. 59
      PROVE  (s - s) % 60 = 0 /\ (s - ((s + 1) % 60)) % 60 = 59
  <2> DEFINE s1 == (s + 1) % 60
  <2>1. s1 \in 0 .. 59 /\ s1 = IF s = 59 THEN 0 ELSE s + 1
    BY <1>2
  <2> HIDE DEF s1
  <2>2. s - s1 \in -59 .. 59 /\ s - s = 0
    BY <2>1
  <2>3. (s - s1) % 60 = IF s - s1 < 0 THEN s - s1 + 60 ELSE s - s1
    BY <1>1, <2>2
  <2>4. (s - s1) % 60 = 59
    BY <2>1, <2>3
  <2>5. (s - s) % 60 = 0
    BY <2>2
  <2> QED BY <2>4, <2>5 DEF s1
<1> QED BY <1>3, <1>4

(* An update: the second that comes was not shown yet.                     *)
LEMMA NewSecond ==
    ASSUME MaxSeconds < 60, TypeOK, ShownOnce, pc # "run", Update
    PROVE  shown \subseteq shown' /\ ShownOnce' /\ \A t \in shown : t.second # Registers'.second
<1> DEFINE s == rtc.second   k == Cardinality(shown)   new == Registers'
<1>1. /\ rtc \in Time /\ s \in 0 .. 59 /\ updating /\ updating' = FALSE /\ rtc' = Later(rtc) /\ pc' = pc
      /\ Later(rtc) \in Time
  BY DEF Update, TypeOK, Later, Time
<1>2. DOMAIN rtc = {"second", "minute", "hour", "day"} /\ DOMAIN rtc' = DOMAIN rtc
  BY <1>1 DEF Time
<1>3. shown' = shown \cup {new}
  BY <1>1, <1>2 DEF Update, Registers
<1>4. rtc'.second = (s + 1) % 60 /\ rtc'.second \in 0 .. 59
  BY <1>1 DEF Later
<1>5. new.second = Bcd(rtc'.second) /\ FromBcd(new.second) = rtc'.second
  BY <1>2, <1>4, BcdBack DEF Registers
<1>6. new \in Registered
  <2>1. /\ rtc'.minute \in 0 .. 59 /\ rtc'.hour \in 0 .. 23 /\ rtc'.day \in 0 .. 31
    BY <1>1 DEF Time
  <2>2. new = [second |-> Bcd(rtc'.second), minute |-> Bcd(rtc'.minute),
               hour |-> Bcd(rtc'.hour), day |-> Bcd(rtc'.day)]
    BY <1>2 DEF Registers
  <2> QED BY <1>4, <2>1, <2>2 DEF Registered
<1>7. IsFiniteSet(shown) /\ k \in Nat /\ k <= MaxSeconds /\ k <= 59
  BY <1>1, FS_CardinalityType DEF ShownOnce
<1>8. ASSUME NEW t \in shown
      PROVE  t \in Registered /\ FromBcd(t.second) \in 0 .. 59 /\ (s - FromBcd(t.second)) % 60 < k
  <2>1. t \in Registered /\ (s - FromBcd(t.second)) % 60 < k
    BY <1>8 DEF ShownOnce, Age
  <2>2. PICK n \in 0 .. 59 : t.second = Bcd(n)
    BY <2>1 DEF Registered
  <2> QED BY <2>1, <2>2, BcdBack
<1> HIDE DEF s, k, new
<1>9. \A t \in shown : t.second # new.second
  <2> SUFFICES ASSUME NEW t \in shown, t.second = new.second PROVE FALSE
    OBVIOUS
  <2>1. FromBcd(t.second) = (s + 1) % 60
    BY <1>4, <1>5
  <2>2. (s - FromBcd(t.second)) % 60 = 59
    BY <1>1, <2>1, Minute
  <2> QED BY <1>7, <1>8, <2>2
<1>10. IsFiniteSet(shown') /\ Cardinality(shown') = k + 1
  <2>1. new \notin shown
    BY <1>9
  <2> QED BY <1>3, <1>7, <2>1, FS_AddElement DEF k
<1>11. \A t \in shown' : t \in Registered /\ (rtc'.second - FromBcd(t.second)) % 60 < k + 1
  <2>1. ASSUME NEW t \in shown PROVE (rtc'.second - FromBcd(t.second)) % 60 < k + 1
    <3>1. (s - FromBcd(t.second)) % 60 < 59 /\ FromBcd(t.second) \in 0 .. 59
          /\ (s - FromBcd(t.second)) % 60 < k
      BY <1>7, <1>8, <1>1
    <3>2. (((s + 1) % 60) - FromBcd(t.second)) % 60 = ((s - FromBcd(t.second)) % 60) + 1
      BY <1>1, <3>1, Minute
    <3>3. (s - FromBcd(t.second)) % 60 \in Int
      BY <1>1, <3>1
    <3> QED BY <1>4, <1>7, <3>1, <3>2, <3>3
  <2>2. (rtc'.second - FromBcd(new.second)) % 60 = 0
    BY <1>4, <1>5, Minute
  <2> QED BY <1>3, <1>6, <1>7, <1>8, <2>1, <2>2
<1>12. ShownOnce'
  <2>1. Cardinality(shown') <= MaxSeconds + 1 /\ new \in shown'
    BY <1>3, <1>7, <1>10
  <2>2. \A t \in shown' : t \in Registered /\ Age(t)' < Cardinality(shown')
    BY <1>10, <1>11 DEF Age
  <2> QED BY <1>1, <1>10, <2>1, <2>2 DEF ShownOnce, new
<1> QED BY <1>3, <1>9, <1>12 DEF new

(* A register more.                                                        *)
LEMMA ReadOn ==
    ASSUME TypeOK, ShownOnce, Passes, read_RTC_reg
    PROVE  Passes'
<1> DEFINE k == ReadSoFar
<1>1. /\ pc = "read" /\ pc' # "run" /\ reg \in 1 .. 4 /\ k = reg - 1 /\ ReadSoFar' = reg
      /\ UNCHANGED <<rtc, last, shown>> /\ systime \in Registered
      /\ systime' = [systime EXCEPT ![Fields[reg]] = Registers[Fields[reg]]]
  BY DEF read_RTC_reg, TypeOK, ReadSoFar, Fields
<1>2. Registers' = Registers /\ Registers \in shown
  BY <1>1 DEF Registers, ShownOnce
<1>3. Fields = <<"second", "minute", "hour", "day">> /\ DOMAIN systime = {"second", "minute", "hour", "day"}
  BY <1>1 DEF Fields, Registered
<1>4. \A f \in DOMAIN systime : systime'[f] = IF f = Fields[reg] THEN Registers[f] ELSE systime[f]
  BY <1>1
<1>5. CASE reg = 1
  <2>1. systime'.second = Registers.second
    BY <1>3, <1>4, <1>5
  <2>2. Seen(systime.second)' /\ (last.day # 0 => (last.second = Registers.second => last = Registers))
    BY <1>1, <1>2, <2>1 DEF Seen, Passes
  <2>3. \A i \in 1 .. 1 : systime'[Fields[i]] = Registers[Fields[i]]
    BY <1>3, <2>1
  <2>4. (last.day # 0 => Seen(last.second))'
    BY <1>1 DEF Passes, Seen
  <2> QED BY <1>1, <1>2, <1>5, <2>1, <2>2, <2>3, <2>4 DEF Passes
<1>6. CASE reg \in 2 .. 4
  <2>1. systime'.second = systime.second /\ k > 0
    BY <1>1, <1>3, <1>4, <1>6
  <2>2. /\ Seen(systime.second)
        /\ systime.second = Registers.second => \A i \in 1 .. k : systime[Fields[i]] = Registers[Fields[i]]
        /\ last.day # 0 /\ last.second = systime.second => last \in shown
        /\ last.day # 0 => Seen(last.second) /\ (last.second = Registers.second => last = Registers)
    BY <1>1, <2>1 DEF Passes
  <2>3. systime.second = Registers.second => \A i \in 1 .. reg : systime'[Fields[i]] = Registers[Fields[i]]
    <3> SUFFICES ASSUME systime.second = Registers.second, NEW i \in 1 .. reg
                 PROVE  systime'[Fields[i]] = Registers[Fields[i]]
      OBVIOUS
    <3>1. Fields[i] \in DOMAIN systime /\ (i # reg => i \in 1 .. k /\ Fields[i] # Fields[reg])
      BY <1>1, <1>3, <1>6
    <3> QED BY <1>4, <2>2, <3>1
  <2>4. Seen(systime.second)' /\ (last.day # 0 => Seen(last.second))'
    BY <1>1, <2>1, <2>2 DEF Seen
  <2>5. reg = 4 => systime'.day # 0
    BY <1>3, <1>4, RegistersTyped
  <2> QED BY <1>1, <1>2, <2>1, <2>2, <2>3, <2>4, <2>5 DEF Passes
<1> QED BY <1>1, <1>5, <1>6

(* A pass that is not the same as the one before takes its place.          *)
LEMMA PassKept ==
    ASSUME TypeOK, Passes, Compare, ~ Same
    PROVE  Passes'
<1>1. /\ pc = "compare" /\ pc' = "flag" /\ last' = systime /\ systime \in Registered
      /\ UNCHANGED <<rtc, shown>>
  BY DEF Compare, Kept, TypeOK
<1>2. ReadSoFar = 4 /\ ReadSoFar' = 0 /\ Registers' = Registers
  BY <1>1 DEF ReadSoFar, Registers
<1>3. /\ Seen(systime.second)
      /\ systime.second = Registers.second => \A i \in 1 .. 4 : systime[Fields[i]] = Registers[Fields[i]]
  BY <1>1, <1>2 DEF Passes
<1>4. systime.second = Registers.second => systime = Registers
  <2> SUFFICES ASSUME systime.second = Registers.second PROVE systime = Registers
    OBVIOUS
  <2>1. /\ systime[Fields[1]] = Registers[Fields[1]] /\ systime[Fields[2]] = Registers[Fields[2]]
        /\ systime[Fields[3]] = Registers[Fields[3]] /\ systime[Fields[4]] = Registers[Fields[4]]
    BY <1>3
  <2> QED BY <1>1, <2>1, RegistersTyped DEF Registered, Fields
<1>5. Seen(last.second)'
  BY <1>1, <1>3 DEF Seen
<1> QED BY <1>1, <1>2, <1>4, <1>5 DEF Passes

(* read_rtc settles on a time that the real time clock showed, if it takes *)
(* less than a minute.                                                     *)
THEOREM RightRead ==
    ASSUME MaxSeconds < 60
    PROVE  Spec => []ReadRight
<1> DEFINE Inv == ShownOnce /\ Passes /\ ReadRight
<1>1. Init => Inv
  <2> SUFFICES ASSUME Init PROVE Inv
    OBVIOUS
  <2>1. pc = "flag" /\ rtc \in Time /\ shown = {Registers} /\ last = NoTime /\ updating = FALSE
    BY DEF Init
  <2>2. Registers = [second |-> Bcd(rtc.second), minute |-> Bcd(rtc.minute),
                     hour |-> Bcd(rtc.hour), day |-> Bcd(rtc.day)]
    BY <2>1 DEF Registers, Time
  <2>3. Registers \in Registered /\ FromBcd(Registers.second) = rtc.second /\ rtc.second \in 0 .. 59
    BY <2>1, <2>2, BcdBack DEF Registered, Time
  <2>4. IsFiniteSet({Registers}) /\ Cardinality({Registers}) = 1
    BY FS_Singleton
  <2>7. Age(Registers) = 0
    <3>1. (rtc.second - rtc.second) % 60 = 0
      BY <2>3, Minute
    <3> QED BY <2>3, <3>1 DEF Age
  <2>5. ShownOnce
    BY <2>1, <2>3, <2>4, <2>7 DEF ShownOnce
  <2>6. ReadSoFar = 0 /\ last.day = 0
    BY <2>1 DEF ReadSoFar, NoTime
  <2> QED BY <2>1, <2>5, <2>6 DEF Passes, ReadRight
<1>2. Inv /\ TypeOK /\ [Next]_vars => Inv'
  <2> SUFFICES ASSUME ShownOnce, Passes, ReadRight, TypeOK, [Next]_vars PROVE Inv'
    OBVIOUS
  <2> USE DEF stamping
  <2>1. CASE pc = "run"
    <3>1. pc' = "run" /\ UNCHANGED <<booted, shown>>
      BY <2>1 DEF Next, vars, reading, SetFlag, Update, WaitForFlag, read_RTC_reg, Compare,
                  PITInterruptHandler, populate_inode_metadata
    <3> QED BY <2>1, <3>1 DEF ShownOnce, Passes, ReadRight
  <2>2. CASE pc # "run" /\ SetFlag
    <3>1. UNCHANGED <<rtc, systime, last, pc, reg, shown>> /\ ~updating /\ updating'
          /\ Cardinality(shown) <= MaxSeconds
      BY <2>2 DEF SetFlag
    <3>2. ShownOnce'
      BY <2>2, <3>1 DEF ShownOnce, Age, Registers
    <3>3. Passes'
      BY <2>2, <3>1 DEF Passes, ReadSoFar, Seen, Registers
    <3> QED BY <2>2, <3>1, <3>2, <3>3 DEF ReadRight
  <2>3. CASE pc # "run" /\ Update
    <3>1. UNCHANGED <<systime, last, pc, reg>>
      BY <2>3 DEF Update
    <3>2. shown \subseteq shown' /\ ShownOnce' /\ \A t \in shown : t.second # Registers'.second
      BY <2>3, NewSecond
    <3>3. Passes'
      <4>1. ReadSoFar' = ReadSoFar
        BY <3>1 DEF ReadSoFar
      <4>2. ASSUME last.day # 0
            PROVE  (Seen(last.second) /\ (last.second = Registers.second => last = Registers))'
        <5>1. Seen(last.second)
          BY <2>3, <4>2 DEF Passes
        <5> QED BY <3>1, <3>2, <5>1 DEF Seen
      <4>3. ASSUME ReadSoFar > 0
            PROVE  /\ Seen(systime.second)' /\ systime.second # Registers'.second
                   /\ last.day # 0 /\ last.second = systime.second => last \in shown'
        <5>1. Seen(systime.second) /\ (last.day # 0 /\ last.second = systime.second => last \in shown)
          BY <2>3, <4>3 DEF Passes
        <5> QED BY <3>1, <3>2, <5>1 DEF Seen
      <4>4. ReadSoFar = 4 => systime.day # 0
        BY <2>3 DEF Passes
      <4> QED BY <3>1, <4>1, <4>2, <4>3, <4>4 DEF Passes
    <3> QED BY <2>3, <3>1, <3>2, <3>3 DEF ReadRight
  <2>4. CASE pc # "run" /\ WaitForFlag
    <3>1. UNCHANGED <<rtc, systime, last, updating, shown>> /\ pc' = "read" /\ reg' = 1 /\ pc = "flag"
      BY <2>4 DEF WaitForFlag
    <3>2. ShownOnce'
      BY <2>4, <3>1 DEF ShownOnce, Age, Registers
    <3>3. Passes'
      BY <2>4, <3>1 DEF Passes, ReadSoFar, Seen, Registers
    <3> QED BY <3>1, <3>2, <3>3 DEF ReadRight
  <2>5. CASE pc # "run" /\ read_RTC_reg
    <3>1. UNCHANGED <<rtc, updating, shown>> /\ pc' # "run"
      BY <2>5 DEF read_RTC_reg
    <3>2. ShownOnce'
      BY <2>5, <3>1 DEF ShownOnce, Age, Registers
    <3> QED BY <2>5, <3>1, <3>2, ReadOn DEF ReadRight
  <2>6. CASE pc # "run" /\ Compare /\ ~ Same
    <3>1. UNCHANGED <<rtc, updating, shown>> /\ pc' # "run"
      BY <2>6 DEF Compare
    <3>2. ShownOnce'
      BY <2>6, <3>1 DEF ShownOnce, Age, Registers
    <3> QED BY <2>6, <3>1, <3>2, PassKept DEF ReadRight
  <2>7. CASE pc # "run" /\ Compare /\ Same
    <3>1. /\ pc = "compare" /\ pc' = "run" /\ last = systime /\ booted' = Local(systime) /\ shown' = shown
      BY <2>7 DEF Compare, Same
    <3>2. ReadSoFar = 4
      BY <3>1 DEF ReadSoFar
    <3>3. last \in shown
      BY <2>7, <3>1, <3>2 DEF Passes
    <3> QED BY <3>1, <3>3 DEF ShownOnce, Passes, ReadRight
  <2>8. CASE pc # "run" /\ UNCHANGED vars
    <3>1. UNCHANGED <<rtc, updating, systime, last, pc, reg, shown>>
      BY <2>8 DEF vars, reading
    <3>2. ShownOnce'
      BY <2>8, <3>1 DEF ShownOnce, Age, Registers
    <3>3. Passes'
      BY <2>8, <3>1 DEF Passes, ReadSoFar, Seen, Registers
    <3> QED BY <2>8, <3>1, <3>2, <3>3 DEF ReadRight
  <2> QED BY <2>1, <2>2, <2>3, <2>4, <2>5, <2>6, <2>7, <2>8
          DEF Next, PITInterruptHandler, populate_inode_metadata
<1> QED BY <1>1, <1>2, Types, PTL DEF Spec
=============================================================================
