--------------------------- MODULE KeyboardProofs ---------------------------
(***************************************************************************)
(* For every ring size and every set of readers: the keyboard keeps the    *)
(* order of keys and implements KeyQueue until two reads overlap.          *)
(***************************************************************************)
EXTENDS Keyboard, SequenceTheorems, TLAPS

USE KeysAssumption

(* The slot that comes k slots after slot i, for k of one lap at most.     *)
Slot(i, k) == IF i + k < MAX_KEYS THEN i + k ELSE i + k - MAX_KEYS
Held == Len(accepted) - Len(delivered)

(* The ring of collector c holds the keys that were accepted and not yet   *)
(* delivered, oldest first, and c has accepted all that were before.       *)
RingHolds(c) ==
    LET held == Len(c.in) - Len(delivered)
    IN  /\ held \in 0 .. MAX_KEYS - 1
        /\ c.w = Slot(reading_index, held)
        /\ \A k \in 0 .. MAX_KEYS - 1 :
             k < held => c.buf[Slot(reading_index, k)] = c.in[Len(delivered) + k + 1]
        /\ \A k \in 1 .. Len(delivered) : delivered[k] = c.in[k]
        /\ Len(c.in) >= Len(accepted)
        /\ \A k \in 1 .. Len(accepted) : c.in[k] = accepted[k]

(* Every reader in read_key has read an index that is still right.         *)
ReaderHolds(r) ==
    /\ pc[r] # "next" => nxt[r] = Slot(reading_index, 1)
    /\ pc[r] \in {"cmpw", "load", "store"} => idx[r] = reading_index
    /\ pc[r] \in {"index", "load", "store"} => Held > 0
    /\ pc[r] = "store" => key[r] = accepted[Len(delivered) + 1]

IInv == ~overlapped => RingHolds(collector) /\ \A r \in Readers : ReaderHolds(r)

-----------------------------------------------------------------------------
(* The modulus of the code moves an index to the next slot of the ring.    *)
LEMMA NextSlot ==
    ASSUME NEW i \in Index
    PROVE  (i + 1) % MAX_KEYS = Slot(i, 1) /\ Slot(i, 1) \in Index
<1>1. CASE i + 1 < MAX_KEYS
  BY <1>1 DEF Slot, Index
<1>2. CASE i + 1 = MAX_KEYS
  BY <1>2 DEF Slot, Index
<1> QED BY <1>1, <1>2 DEF Index

Collector == [buf : [Index -> Char], w : Index, in : Seq(Char), out : Nat]

(* write_key keeps the types of the collector.                             *)
LEMMA WriteTyped ==
    ASSUME NEW k \in Char, NEW c \in Collector
    PROVE  write_key(c, k) \in Collector
<1>1. (c.w + 1) % MAX_KEYS \in Index
  BY NextSlot DEF Collector
<1>2. [c EXCEPT !.out = @ + 1] \in Collector
  BY DEF Collector
<1>3. Append(c.in, k) \in Seq(Char) /\ [c.buf EXCEPT ![c.w] = k] \in [Index -> Char]
  BY DEF Collector
<1> QED BY <1>1, <1>2, <1>3 DEF write_key, Collector

-----------------------------------------------------------------------------
(* The types: every index stays within the ring.                           *)
THEOREM KeyboardTyped == Spec => []TypeOK
<1>1. Init => TypeOK
  <2> SUFFICES ASSUME Init PROVE TypeOK
    OBVIOUS
  <2>1. 0 \in Index
    BY DEF Index
  <2>2. "nul" \in Char /\ <<>> \in Seq(Char)
    BY DEF Char
  <2> QED BY <2>1, <2>2 DEF Init, TypeOK, Index, flags
<1>2. TypeOK /\ [Next]_vars => TypeOK'
  <2> SUFFICES ASSUME TypeOK, [Next]_vars PROVE TypeOK'
    OBVIOUS
  <2>1. CASE ExtendedPrefix
    BY <2>1 DEF ExtendedPrefix, TypeOK, flags, reads
  <2>2. ASSUME NEW code \in Keys, KeyUp(code) PROVE TypeOK'
    BY <2>2 DEF KeyUp, TypeOK, flags, reads
  <2>3. ASSUME NEW code \in Keys, KeyDown(code) PROVE TypeOK'
    <3>1. collector \in Collector
      BY DEF collector, Collector, TypeOK
    <3>2. /\ "ctrl" \in Char /\ "win" \in Char
          /\ decode_scancode(code) \in Char
      BY DEF Char, decode_scancode
    <3>3. ASSUME NEW c \in Collector, Collect(c)
          PROVE  /\ key_buffer' \in [Index -> Char] /\ writing_index' \in Index
                 /\ accepted' \in Seq(Char) /\ dropped' \in Nat
      BY <3>3 DEF Collect, Collector
    <3>4. PICK c \in Collector : Collect(c)
      <4> DEFINE own == [c \in {"WINDOWS_BUTTON", "LEFT_CTRL"} |->
                            IF c = "LEFT_CTRL" THEN "ctrl" ELSE "win"]
                 extended == IF is_extended /\ code \in DOMAIN own
                               THEN write_key(collector, own[code]) ELSE collector
      <4>1. extended \in Collector
        BY <3>1, <3>2, WriteTyped
      <4>2. write_key(extended, decode_scancode(code)) \in Collector
        BY <4>1, <3>2, WriteTyped
      <4> QED BY <2>3, <4>1, <4>2 DEF KeyDown
    <3>5. flags' \in BOOLEAN \X BOOLEAN \X BOOLEAN
      BY <2>3 DEF KeyDown, TypeOK, flags
    <3> QED BY <2>3, <3>3, <3>4, <3>5 DEF KeyDown, TypeOK, reads
  <2>4. ASSUME NEW r \in Readers, read_key(r) PROVE TypeOK'
    <3>1. CASE ReadNext(r)
      BY <3>1, NextSlot DEF ReadNext, Goto, Rest, TypeOK, flags
    <3>2. CASE ReadCompareIndex(r)
      BY <3>2 DEF ReadCompareIndex, Goto, Rest, TypeOK, flags
    <3>3. CASE ReadCompare(r)
      BY <3>3 DEF ReadCompare, Goto, Rest, TypeOK, flags
    <3>4. CASE ReadIndex(r)
      BY <3>4 DEF ReadIndex, Goto, Rest, TypeOK, flags
    <3>5. CASE ReadLoad(r)
      BY <3>5 DEF ReadLoad, Goto, Rest, TypeOK, flags
    <3>6. CASE ReadStore(r)
      BY <3>6 DEF ReadStore, Goto, Rest, TypeOK, flags
    <3> QED BY <2>4, <3>1, <3>2, <3>3, <3>4, <3>5, <3>6 DEF read_key
  <2>5. CASE UNCHANGED vars
    BY <2>5 DEF vars, TypeOK, flags, reads
  <2> QED BY <2>1, <2>2, <2>3, <2>4, <2>5 DEF Next, HandleKeyboardInterrupt
<1> QED BY <1>1, <1>2, PTL DEF Spec

-----------------------------------------------------------------------------
(* The test of write_key is right: it refuses a key exactly when           *)
(* MAX_KEYS - 1 keys are in the ring.                                      *)
LEMMA FullWhen ==
    ASSUME reading_index \in Index, NEW h \in 0 .. MAX_KEYS - 1
    PROVE  /\ Slot(reading_index, h) \in Index
           /\ (Slot(reading_index, h) + 1) % MAX_KEYS = reading_index <=> h = MAX_KEYS - 1
           /\ h < MAX_KEYS - 1 =>
                (Slot(reading_index, h) + 1) % MAX_KEYS = Slot(reading_index, h + 1)
<1>1. Slot(reading_index, h) \in Index
  BY DEF Slot, Index
<1>2. (Slot(reading_index, h) + 1) % MAX_KEYS = Slot(Slot(reading_index, h), 1)
  BY <1>1, NextSlot
<1> QED BY <1>1, <1>2 DEF Slot, Index

(* Keys less than a lap apart are in different slots.                      *)
LEMMA SlotsDiffer ==
    ASSUME reading_index \in Index, NEW h \in 0 .. MAX_KEYS - 1,
           NEW i \in 0 .. MAX_KEYS - 1, i < h
    PROVE  Slot(reading_index, i) \in Index /\ Slot(reading_index, i) # Slot(reading_index, h)
BY DEF Slot, Index

(* write_key stores behind the keys that wait, and overwrites none.        *)
LEMMA WriteHolds ==
    ASSUME TypeOK, NEW k \in Char, NEW c \in Collector, RingHolds(c)
    PROVE  RingHolds(write_key(c, k))
<1> DEFINE h == Len(c.in) - Len(delivered)
           d == write_key(c, k)
<1>1. /\ reading_index \in Index /\ h \in 0 .. MAX_KEYS - 1
      /\ c.w = Slot(reading_index, h)
      /\ delivered \in Seq(Char) /\ accepted \in Seq(Char)
      /\ c.in \in Seq(Char) /\ c.buf \in [Index -> Char]
  BY DEF TypeOK, RingHolds, Collector
<1>2. CASE h = MAX_KEYS - 1
  <2>1. d = [c EXCEPT !.out = @ + 1]
    BY <1>1, <1>2, FullWhen DEF write_key
  <2>2. d.in = c.in /\ d.w = c.w /\ d.buf = c.buf
    BY <2>1 DEF Collector
  <2> QED BY <2>2 DEF RingHolds
<1>3. CASE h < MAX_KEYS - 1
  <2>1. /\ d.in = Append(c.in, k)
        /\ d.buf = [c.buf EXCEPT ![c.w] = k]
        /\ d.w = Slot(reading_index, h + 1)
    BY <1>1, <1>3, FullWhen DEF write_key
  <2>2. Len(d.in) = Len(c.in) + 1 /\ d.in[Len(c.in) + 1] = k
        /\ \A i \in 1 .. Len(c.in) : d.in[i] = c.in[i]
    BY <1>1, <2>1
  <2>3. ASSUME NEW i \in 0 .. MAX_KEYS - 1, i < h + 1
        PROVE  d.buf[Slot(reading_index, i)] = d.in[Len(delivered) + i + 1]
    <3>1. CASE i = h
      BY <3>1, <1>1, <2>1, <2>2, FullWhen
    <3>2. CASE i < h
      <4>1. /\ Slot(reading_index, i) \in Index
            /\ Slot(reading_index, i) # c.w
        BY <1>1, <3>2, SlotsDiffer
      <4>2. Len(delivered) + i + 1 \in 1 .. Len(c.in)
        BY <1>1, <3>2
      <4>3. c.buf[Slot(reading_index, i)] = c.in[Len(delivered) + i + 1]
        BY <3>2 DEF RingHolds
      <4>4. d.buf[Slot(reading_index, i)] = c.buf[Slot(reading_index, i)]
        BY <1>1, <2>1, <4>1
      <4>5. d.in[Len(delivered) + i + 1] = c.in[Len(delivered) + i + 1]
        BY <2>2, <4>2
      <4> QED BY <4>3, <4>4, <4>5
    <3> HIDE DEF h
    <3> QED BY <1>1, <2>3, <3>1, <3>2
  <2>4. \A i \in 1 .. Len(delivered) : delivered[i] = d.in[i]
    BY <1>1, <2>2 DEF RingHolds
  <2>5. Len(d.in) >= Len(accepted) /\ \A i \in 1 .. Len(accepted) : d.in[i] = accepted[i]
    BY <1>1, <2>2 DEF RingHolds
  <2>6. Len(d.in) - Len(delivered) = h + 1 /\ h + 1 \in 0 .. MAX_KEYS - 1
    BY <1>1, <1>3, <2>2
  <2> QED BY <2>1, <2>3, <2>4, <2>5, <2>6 DEF RingHolds
<1> HIDE DEF h
<1> QED BY <1>1, <1>2, <1>3

-----------------------------------------------------------------------------
(* What a key press does to the collector: nothing, one or two write_keys. *)
LEMMA KeyWrites ==
    ASSUME TypeOK, NEW code \in Keys, KeyDown(code)
    PROVE  \E j \in {"ctrl", "win"}, k \in Char :
             \E c \in {collector, write_key(collector, j)} :
               Collect(c) \/ Collect(write_key(c, k))
<1> DEFINE own == [c \in {"WINDOWS_BUTTON", "LEFT_CTRL"} |->
                      IF c = "LEFT_CTRL" THEN "ctrl" ELSE "win"]
           extended == IF is_extended /\ code \in DOMAIN own
                         THEN write_key(collector, own[code]) ELSE collector
<1>1. decode_scancode(code) \in Char
  BY DEF Char, decode_scancode
<1>2. PICK j \in {"ctrl", "win"} : extended \in {collector, write_key(collector, j)}
  OBVIOUS
<1>3. Collect(extended) \/ Collect(write_key(extended, decode_scancode(code)))
  BY DEF KeyDown
<1> HIDE DEF extended
<1> QED BY <1>1, <1>2, <1>3

(* A key press keeps what the ring and the readers hold.                   *)
LEMMA KeyDownHolds ==
    ASSUME TypeOK, IInv, NEW code \in Keys, KeyDown(code)
    PROVE  IInv'
<1> SUFFICES ASSUME ~overlapped
             PROVE  RingHolds(collector)' /\ \A r \in Readers : ReaderHolds(r)'
  BY DEF IInv, KeyDown
<1>1. collector \in Collector /\ RingHolds(collector)
  BY DEF IInv, TypeOK, Collector, collector
<1>2. PICK c \in Collector : RingHolds(c) /\ Collect(c)
  <2>1. {"ctrl", "win"} \subseteq Char
    BY DEF Char
  <2> QED BY <1>1, <2>1, KeyWrites, WriteTyped, WriteHolds
<1>3. /\ key_buffer' = c.buf /\ writing_index' = c.w /\ accepted' = c.in
      /\ UNCHANGED <<reading_index, delivered, pc, nxt, idx, key>>
  BY <1>2 DEF Collect, KeyDown, reads
<1>4. RingHolds(collector)'
  BY <1>2, <1>3 DEF RingHolds, collector, Collector
<1>5. /\ Len(accepted') >= Len(accepted)
      /\ \A k \in 1 .. Len(accepted) : accepted'[k] = accepted[k]
      /\ Len(accepted) \in Nat /\ Len(accepted') \in Nat /\ Len(delivered) \in Nat
  BY <1>2, <1>3 DEF RingHolds, Collector, TypeOK
<1>6. ASSUME NEW r \in Readers PROVE ReaderHolds(r)'
  <2>1. ReaderHolds(r)
    BY DEF IInv
  <2>2. Held > 0 => Held' > 0 /\ accepted'[Len(delivered) + 1] = accepted[Len(delivered) + 1]
    BY <1>3, <1>5 DEF Held
  <2> QED BY <1>3, <2>1, <2>2 DEF ReaderHolds, Slot
<1> QED BY <1>4, <1>6

(* A step of read_key that stores nothing keeps them.                      *)
LEMMA ReadHolds ==
    ASSUME TypeOK, IInv, NEW r \in Readers,
           \/ ReadNext(r) \/ ReadCompareIndex(r) \/ ReadCompare(r)
           \/ ReadIndex(r) \/ ReadLoad(r)
    PROVE  IInv'
<1> SUFFICES ASSUME ~overlapped
             PROVE  RingHolds(collector)' /\ \A o \in Readers : ReaderHolds(o)'
  BY DEF IInv, ReadNext, ReadCompareIndex, ReadCompare, ReadIndex, ReadLoad
<1>1. UNCHANGED <<key_buffer, writing_index, accepted, dropped, reading_index, delivered>>
  BY DEF ReadNext, ReadCompareIndex, ReadCompare, ReadIndex, ReadLoad, Rest
<1>2. RingHolds(collector) /\ \A o \in Readers : ReaderHolds(o)
  BY DEF IInv
<1>3. RingHolds(collector)'
  BY <1>1, <1>2 DEF RingHolds, collector, Slot
<1>4. reading_index \in Index /\ Held \in Nat /\ Held' = Held /\ Slot(reading_index, 0) = reading_index
  BY <1>1, <1>2 DEF RingHolds, collector, Held, TypeOK, Slot, Index
<1>5. ASSUME NEW o \in Readers PROVE ReaderHolds(o)'
  <2>1. CASE o # r
    BY <1>1, <1>2, <1>4, <2>1 DEF ReaderHolds, Slot, TypeOK, Goto,
         ReadNext, ReadCompareIndex, ReadCompare, ReadIndex, ReadLoad
  <2>2. CASE o = r
    <3>1. CASE ReadNext(r)
      BY <1>1, <1>2, <1>4, <2>2, <3>1, NextSlot DEF ReaderHolds, Slot, TypeOK, Goto, ReadNext
    <3>2. CASE ReadCompareIndex(r)
      BY <1>1, <1>2, <1>4, <2>2, <3>2 DEF ReaderHolds, Slot, TypeOK, Goto, ReadCompareIndex
    <3>3. CASE ReadCompare(r)
      <4>1. Held = 0 => reading_index = writing_index
        BY <1>2, <1>4 DEF RingHolds, collector, Held
      <4> QED BY <1>1, <1>2, <1>4, <2>2, <3>3, <4>1 DEF ReaderHolds, Slot, TypeOK, Goto, ReadCompare
    <3>4. CASE ReadIndex(r)
      BY <1>1, <1>2, <1>4, <2>2, <3>4 DEF ReaderHolds, Slot, TypeOK, Goto, ReadIndex
    <3>5. CASE ReadLoad(r)
      <4>1. Held > 0 => key_buffer[reading_index] = accepted[Len(delivered) + 1]
        BY <1>2, <1>4 DEF RingHolds, collector, Held, TypeOK
      <4> QED BY <1>1, <1>2, <1>4, <2>2, <3>5, <4>1 DEF ReaderHolds, Slot, TypeOK, Goto, ReadLoad
    <3> QED BY <3>1, <3>2, <3>3, <3>4, <3>5
  <2> QED BY <2>1, <2>2
<1> QED BY <1>3, <1>5

(* The last store of read_key takes the oldest key out.                    *)
LEMMA StoreHolds ==
    ASSUME TypeOK, IInv, NEW r \in Readers, ReadStore(r)
    PROVE  IInv'
<1> SUFFICES ASSUME ~overlapped, ~overlapped'
             PROVE  RingHolds(collector)' /\ \A o \in Readers : ReaderHolds(o)'
  BY DEF IInv, ReadStore
<1>1. RingHolds(collector) /\ ReaderHolds(r) /\ reading_index \in Index
  BY DEF IInv, TypeOK
<1>2. /\ UNCHANGED <<key_buffer, writing_index, accepted>>
      /\ reading_index' = Slot(reading_index, 1) /\ Held > 0
      /\ delivered' = Append(delivered, accepted[Len(delivered) + 1])
  BY <1>1 DEF ReadStore, ReaderHolds, Goto, Rest
<1>3. delivered \in Seq(Char) /\ accepted \in Seq(Char) /\ Held \in 0 .. MAX_KEYS - 1
  BY <1>1 DEF TypeOK, RingHolds, collector, Held
<1>4. Len(delivered) + 1 \in 1 .. Len(accepted)
  BY <1>2, <1>3 DEF Held
<1>5. /\ Len(delivered') = Len(delivered) + 1
      /\ \A k \in 1 .. Len(delivered) : delivered'[k] = delivered[k]
      /\ delivered'[Len(delivered) + 1] = accepted[Len(delivered) + 1]
      /\ Held' = Held - 1
  BY <1>2, <1>3, <1>4 DEF Held
<1>6. ASSUME NEW k \in 0 .. MAX_KEYS - 1, k < MAX_KEYS - 1
      PROVE  Slot(Slot(reading_index, 1), k) = Slot(reading_index, k + 1)
  BY <1>1, <1>6 DEF Slot, Index
<1>7. writing_index' = Slot(reading_index', Held')
  BY <1>1, <1>2, <1>3, <1>5, <1>6 DEF RingHolds, collector, Held
<1>8. ASSUME NEW k \in 0 .. MAX_KEYS - 1, k < Held'
      PROVE  key_buffer'[Slot(reading_index', k)] = accepted'[Len(delivered') + k + 1]
  <2>1. k + 1 \in 0 .. MAX_KEYS - 1 /\ k + 1 < Held
    BY <1>3, <1>5, <1>8
  <2>2. key_buffer[Slot(reading_index, k + 1)] = accepted[Len(delivered) + (k + 1) + 1]
    BY <1>1, <2>1 DEF RingHolds, collector, Held
  <2>3. Slot(reading_index', k) = Slot(reading_index, k + 1)
    BY <1>2, <1>3, <1>6, <2>1
  <2>4. Len(delivered') + k + 1 = Len(delivered) + (k + 1) + 1
    BY <1>3, <1>5
  <2> QED BY <1>2, <2>2, <2>3, <2>4
<1>9. \A k \in 1 .. Len(delivered') : delivered'[k] = accepted'[k]
  BY <1>1, <1>2, <1>3, <1>5 DEF RingHolds, collector
<1>10. RingHolds(collector)'
  BY <1>2, <1>3, <1>5, <1>2, <1>7, <1>8, <1>9 DEF RingHolds, collector, Held
<1>11. ASSUME NEW o \in Readers PROVE pc'[o] = "next"
  BY DEF ReadStore, Goto, TypeOK
<1> QED BY <1>10, <1>11 DEF ReaderHolds

(* IInv is inductive, whatever the ring size and the readers.              *)
THEOREM KeyboardInvariance == Spec => [](TypeOK /\ IInv)
<1>1. Init => IInv
  <2> SUFFICES ASSUME Init PROVE RingHolds(collector) /\ \A r \in Readers : ReaderHolds(r)
    BY DEF IInv
  <2>1. Len(accepted) = 0 /\ Len(delivered) = 0
    BY DEF Init
  <2> QED BY <2>1 DEF Init, RingHolds, collector, ReaderHolds, Slot
<1>2. TypeOK /\ IInv /\ [Next]_vars => IInv'
  <2> SUFFICES ASSUME TypeOK, IInv, [Next]_vars PROVE IInv'
    OBVIOUS
  <2>1. CASE UNCHANGED <<key_buffer, writing_index, reading_index, reads, accepted,
                         delivered, dropped, overlapped>>
    BY <2>1 DEF IInv, RingHolds, collector, ReaderHolds, Held, Slot, reads
  <2>2. ASSUME NEW code \in Keys, KeyDown(code) PROVE IInv'
    BY <2>2, KeyDownHolds
  <2>3. ASSUME NEW r \in Readers, read_key(r) PROVE IInv'
    BY <2>3, ReadHolds, StoreHolds DEF read_key
  <2>4. CASE ExtendedPrefix \/ (\E code \in Keys : KeyUp(code)) \/ UNCHANGED vars
    <3>1. CASE ExtendedPrefix
      BY <2>1, <3>1 DEF ExtendedPrefix
    <3>2. CASE \E code \in Keys : KeyUp(code)
      BY <2>1, <3>2 DEF KeyUp
    <3>3. CASE UNCHANGED vars
      BY <2>1, <3>3 DEF vars, reads
    <3> QED BY <2>4, <3>1, <3>2, <3>3
  <2> QED BY <2>2, <2>3, <2>4 DEF Next, HandleKeyboardInterrupt
<1> QED BY <1>1, <1>2, KeyboardTyped, PTL DEF Spec

-----------------------------------------------------------------------------
(* Whatever tasks read: until one read_key finishes inside another, what   *)
(* was delivered is what was accepted, in order, each key once.            *)
THEOREM KeysInOrder == Spec => []InOrder
<1>1. TypeOK /\ IInv => InOrder
  <2> SUFFICES ASSUME TypeOK, IInv, ~overlapped
               PROVE  /\ Len(delivered) <= Len(accepted)
                      /\ delivered = SubSeq(accepted, 1, Len(delivered))
                      /\ Len(accepted) - Len(delivered) < MAX_KEYS
    BY DEF InOrder
  <2>1. delivered \in Seq(Char) /\ accepted \in Seq(Char)
    BY DEF TypeOK
  <2>2. /\ Len(accepted) - Len(delivered) \in 0 .. MAX_KEYS - 1
        /\ \A k \in 1 .. Len(delivered) : delivered[k] = accepted[k]
    BY DEF IInv, RingHolds, collector
  <2>3. Len(delivered) <= Len(accepted)
    BY <2>1, <2>2
  <2>4. delivered = SubSeq(accepted, 1, Len(delivered))
    <3>1. /\ SubSeq(accepted, 1, Len(delivered)) \in Seq(Char)
          /\ Len(SubSeq(accepted, 1, Len(delivered))) = Len(delivered)
          /\ \A k \in 1 .. Len(delivered) :
               SubSeq(accepted, 1, Len(delivered))[k] = accepted[k]
      BY <2>1, <2>3
    <3> QED BY <2>1, <2>2, <3>1, SeqEqual
  <2> QED BY <2>1, <2>2, <2>3, <2>4
<1> QED BY <1>1, KeyboardInvariance, PTL

-----------------------------------------------------------------------------
(* What write_key does to the keys of the collector is what KeyQueue       *)
(* offers: it appends the key, or drops it when the queue is full.         *)
LEMMA WriteOffers ==
    ASSUME TypeOK, NEW k \in Char, NEW c \in Collector, RingHolds(c)
    PROVE  LET d == write_key(c, k)
               waiting == Len(c.in) - Len(delivered)
           IN  \/ /\ waiting + 1 <= MAX_KEYS - 1
                  /\ d.in = Append(c.in, k) /\ d.out = c.out
               \/ /\ waiting = MAX_KEYS - 1
                  /\ d.in = c.in /\ d.out = c.out + 1
<1> DEFINE h == Len(c.in) - Len(delivered)
           d == write_key(c, k)
<1>1. reading_index \in Index /\ h \in 0 .. MAX_KEYS - 1 /\ c.w = Slot(reading_index, h)
  BY DEF TypeOK, RingHolds, Collector
<1>2. CASE h = MAX_KEYS - 1
  <2>1. d = [c EXCEPT !.out = @ + 1]
    BY <1>1, <1>2, FullWhen DEF write_key
  <2>2. d.in = c.in /\ d.out = c.out + 1
    BY <2>1 DEF Collector
  <2> QED BY <1>2, <2>2
<1>3. CASE h < MAX_KEYS - 1
  <2>1. d.in = Append(c.in, k) /\ d.out = c.out
    BY <1>1, <1>3, FullWhen DEF write_key
  <2>2. h + 1 <= MAX_KEYS - 1
    BY <1>1, <1>3
  <2> QED BY <2>1, <2>2
<1> HIDE DEF h
<1> QED BY <1>1, <1>2, <1>3

(* The prefixes of the sequences of one and of two keys.                   *)
LEMMA Prefixes ==
    ASSUME NEW j \in Char, NEW k \in Char
    PROVE  /\ Len(<<j>>) = 1 /\ SubSeq(<<j>>, 1, 0) = <<>> /\ SubSeq(<<j>>, 1, 1) = <<j>>
           /\ Len(<<j, k>>) = 2 /\ SubSeq(<<j, k>>, 1, 0) = <<>>
           /\ SubSeq(<<j, k>>, 1, 1) = <<j>> /\ SubSeq(<<j, k>>, 1, 2) = <<j, k>>
<1>1. <<j>> \in Seq(Char) /\ <<j, k>> \in Seq(Char) /\ Len(<<j>>) = 1 /\ Len(<<j, k>>) = 2
  OBVIOUS
<1>2. SubSeq(<<j>>, 1, 0) = <<>> /\ SubSeq(<<j, k>>, 1, 0) = <<>>
  BY SubSeqEmpty
<1>3. SubSeq(<<j>>, 1, 1) = <<j>> /\ SubSeq(<<j, k>>, 1, 2) = <<j, k>>
  BY <1>1, SubSeqFull
<1>4. SubSeq(<<j, k>>, 1, 1) = <<j>>
  <2> DEFINE s == SubSeq(<<j, k>>, 1, 1)
  <2>1. s \in Seq(Char) /\ Len(s) = 1 /\ s[1] = j
    BY <1>1, SubSeqProperties
  <2> HIDE DEF s
  <2>2. s = <<j>>
    BY <1>1, <2>1, SeqEqual
  <2> QED BY <2>2 DEF s
<1> QED BY <1>1, <1>2, <1>3, <1>4

(* What KeyQueue offers, for one key and for two.                          *)
LEMMA OfferOne ==
    ASSUME TypeOK, NEW i \in Char, UNCHANGED delivered,
           \/ Held + 1 <= MAX_KEYS - 1 /\ accepted' = Append(accepted, i) /\ dropped' = dropped
           \/ Held = MAX_KEYS - 1 /\ accepted' = accepted /\ dropped' = dropped + 1
    PROVE  Queue!Offer(<<i>>)
<1>1. /\ accepted \in Seq(Char) /\ Len(accepted) - Len(delivered) = Held
      /\ dropped \in Nat /\ Held \in Int
  BY DEF TypeOK, Held
<1>2. Len(<<i>>) = 1 /\ SubSeq(<<i>>, 1, 0) = <<>> /\ SubSeq(<<i>>, 1, 1) = <<i>>
  BY Prefixes
<1>3. accepted \o <<>> = accepted /\ accepted \o <<i>> = Append(accepted, i)
  BY <1>1, ConcatEmptySeq, AppendIsConcat
<1>4. CASE Held + 1 <= MAX_KEYS - 1 /\ accepted' = Append(accepted, i) /\ dropped' = dropped
  <2> 1 \in 0 .. Len(<<i>>) /\ dropped + (Len(<<i>>) - 1) = dropped
    BY <1>1, <1>2
  <2> QED BY <1>1, <1>2, <1>3, <1>4 DEF Queue!Offer, Queue!Waiting
<1>5. CASE Held = MAX_KEYS - 1 /\ accepted' = accepted /\ dropped' = dropped + 1
  <2> 0 \in 0 .. Len(<<i>>) /\ dropped + (Len(<<i>>) - 0) = dropped + 1
    BY <1>1, <1>2
  <2> QED BY <1>1, <1>2, <1>3, <1>5 DEF Queue!Offer, Queue!Waiting
<1> QED BY <1>4, <1>5

(* The same for the two keys that an extended key writes.                  *)
LEMMA OfferTwo ==
    ASSUME TypeOK, NEW j \in Char, NEW k \in Char, UNCHANGED delivered,
           \/ /\ Held + 2 <= MAX_KEYS - 1
              /\ accepted' = Append(Append(accepted, j), k) /\ dropped' = dropped
           \/ /\ Held + 1 = MAX_KEYS - 1
              /\ accepted' = Append(accepted, j) /\ dropped' = dropped + 1
           \/ /\ Held = MAX_KEYS - 1
              /\ accepted' = accepted /\ dropped' = dropped + 1 + 1
    PROVE  Queue!Offer(<<j, k>>)
<1>1. /\ accepted \in Seq(Char) /\ Len(accepted) - Len(delivered) = Held
      /\ dropped \in Nat /\ Held \in Int
  BY DEF TypeOK, Held
<1>2. /\ Len(<<j, k>>) = 2 /\ SubSeq(<<j, k>>, 1, 0) = <<>>
      /\ SubSeq(<<j, k>>, 1, 1) = <<j>> /\ SubSeq(<<j, k>>, 1, 2) = <<j, k>>
  BY Prefixes
<1>3. /\ accepted \o <<>> = accepted /\ accepted \o <<j>> = Append(accepted, j)
      /\ accepted \o <<j, k>> = Append(Append(accepted, j), k)
  <2>1. accepted \o <<j, k>> = Append(Append(accepted, j), k)
    <3> DEFINE s == accepted \o <<j, k>>
               t == Append(Append(accepted, j), k)
    <3>1. s \in Seq(Char) /\ t \in Seq(Char) /\ Len(s) = Len(t)
      BY <1>1
    <3>2. \A i \in 1 .. Len(s) : s[i] = t[i]
      BY <1>1
    <3> HIDE DEF s, t
    <3>3. s = t
      BY <3>1, <3>2, SeqEqual
    <3> QED BY <3>3 DEF s, t
  <2> QED BY <1>1, <2>1, ConcatEmptySeq, AppendIsConcat
<1>4. CASE /\ Held + 2 <= MAX_KEYS - 1
           /\ accepted' = Append(Append(accepted, j), k) /\ dropped' = dropped
  <2> 2 \in 0 .. Len(<<j, k>>) /\ dropped + (Len(<<j, k>>) - 2) = dropped
    BY <1>1, <1>2
  <2> QED BY <1>1, <1>2, <1>3, <1>4 DEF Queue!Offer, Queue!Waiting
<1>5. CASE /\ Held + 1 = MAX_KEYS - 1
           /\ accepted' = Append(accepted, j) /\ dropped' = dropped + 1
  <2> 1 \in 0 .. Len(<<j, k>>) /\ dropped + (Len(<<j, k>>) - 1) = dropped + 1
    BY <1>1, <1>2
  <2> QED BY <1>1, <1>2, <1>3, <1>5 DEF Queue!Offer, Queue!Waiting
<1>6. CASE Held = MAX_KEYS - 1 /\ accepted' = accepted /\ dropped' = dropped + 1 + 1
  <2> 0 \in 0 .. Len(<<j, k>>) /\ dropped + (Len(<<j, k>>) - 0) = dropped + 1 + 1
    BY <1>1, <1>2
  <2> QED BY <1>1, <1>2, <1>3, <1>6 DEF Queue!Offer, Queue!Waiting
<1> QED BY <1>4, <1>5, <1>6

(* A key press is a step of KeyQueue, or changes nothing it shows.         *)
LEMMA KeyDownImplements ==
    ASSUME TypeOK, IInv, ~overlapped, NEW code \in Keys, KeyDown(code)
    PROVE  Queue!Next \/ UNCHANGED <<accepted, delivered, dropped>>
<1>1. collector \in Collector /\ RingHolds(collector)
  BY DEF IInv, TypeOK, Collector, collector
<1>2. /\ {"ctrl", "win"} \subseteq Char
      /\ UNCHANGED delivered
      /\ accepted \in Seq(Char) /\ delivered \in Seq(Char) /\ dropped \in Nat
      /\ Held \in 0 .. MAX_KEYS - 1
  BY <1>1 DEF Char, KeyDown, TypeOK, RingHolds, collector, Held
<1>3. PICK j \in {"ctrl", "win"}, k \in Char :
        \E c \in {collector, write_key(collector, j)} : Collect(c) \/ Collect(write_key(c, k))
  BY KeyWrites
<1>4. ASSUME NEW i \in Char, Collect(write_key(collector, i)) PROVE Queue!Offer(<<i>>)
  <2>1. \/ Held + 1 <= MAX_KEYS - 1 /\ accepted' = Append(accepted, i) /\ dropped' = dropped
        \/ Held = MAX_KEYS - 1 /\ accepted' = accepted /\ dropped' = dropped + 1
    BY <1>1, <1>4, WriteOffers DEF Collect, collector, Held
  <2> QED BY <1>2, <2>1, OfferOne
<1>5. ASSUME Collect(write_key(write_key(collector, j), k)) PROVE Queue!Offer(<<j, k>>)
  <2> DEFINE d == write_key(collector, j)
  <2>1. d \in Collector /\ RingHolds(d)
    BY <1>1, <1>2, WriteTyped, WriteHolds
  <2>2. \/ Held + 1 <= MAX_KEYS - 1 /\ d.in = Append(accepted, j) /\ d.out = dropped
        \/ Held = MAX_KEYS - 1 /\ d.in = accepted /\ d.out = dropped + 1
    BY <1>1, <1>2, WriteOffers DEF collector, Held
  <2> DEFINE w == Len(d.in) - Len(delivered)
  <2>3. \/ w + 1 <= MAX_KEYS - 1 /\ accepted' = Append(d.in, k) /\ dropped' = d.out
        \/ w = MAX_KEYS - 1 /\ accepted' = d.in /\ dropped' = d.out + 1
    BY <1>5, <2>1, WriteOffers DEF Collect
  <2>4. \/ Held + 1 <= MAX_KEYS - 1 /\ w = Held + 1
        \/ Held = MAX_KEYS - 1 /\ w = Held
    BY <1>2, <2>2 DEF Held
  <2> HIDE DEF d, w
  <2>5. \/ /\ Held + 2 <= MAX_KEYS - 1
           /\ accepted' = Append(Append(accepted, j), k) /\ dropped' = dropped
        \/ /\ Held + 1 = MAX_KEYS - 1
           /\ accepted' = Append(accepted, j) /\ dropped' = dropped + 1
        \/ /\ Held = MAX_KEYS - 1
           /\ accepted' = accepted /\ dropped' = dropped + 1 + 1
    BY <1>2, <2>2, <2>3, <2>4
  <2> QED BY <1>2, <2>5, OfferTwo
<1>6. CASE Collect(collector)
  BY <1>2, <1>6 DEF Collect, collector
<1>7. CASE Collect(write_key(collector, j)) \/ Collect(write_key(collector, k))
  BY <1>2, <1>4, <1>7 DEF Queue!Next
<1>8. CASE Collect(write_key(write_key(collector, j), k))
  BY <1>2, <1>5, <1>8 DEF Queue!Next
<1> QED BY <1>3, <1>6, <1>7, <1>8

(* A step that does not end with an overlap is a step of KeyQueue.         *)
LEMMA StepImplements ==
    ASSUME TypeOK, IInv, [Next]_vars
    PROVE  overlapped' \/ Queue!Next \/ UNCHANGED <<accepted, delivered, dropped>>
<1> SUFFICES ASSUME ~overlapped'
             PROVE  Queue!Next \/ UNCHANGED <<accepted, delivered, dropped>>
  OBVIOUS
<1>1. ASSUME NEW code \in Keys, KeyDown(code)
      PROVE  Queue!Next \/ UNCHANGED <<accepted, delivered, dropped>>
  BY <1>1, KeyDownImplements DEF KeyDown
<1>2. ASSUME NEW o \in Readers, ReadStore(o) PROVE Queue!Deliver
  <2>1. ReaderHolds(o) /\ pc[o] = "store"
    BY <1>2 DEF IInv, ReadStore, Goto
  <2>2. Held > 0 /\ delivered' = Append(delivered, accepted[Len(delivered) + 1])
    BY <1>2, <2>1 DEF ReadStore, ReaderHolds
  <2> QED BY <1>2, <2>2 DEF Queue!Deliver, Queue!Waiting, Held, ReadStore, Rest
<1>3. ASSUME NEW o \in Readers, read_key(o), ~ReadStore(o)
      PROVE  UNCHANGED <<accepted, delivered, dropped>>
  BY <1>3 DEF read_key, ReadNext, ReadCompareIndex, ReadCompare, ReadIndex, ReadLoad, Rest
<1>4. CASE ExtendedPrefix \/ (\E code \in Keys : KeyUp(code)) \/ UNCHANGED vars
  BY <1>4 DEF ExtendedPrefix, KeyUp, vars
<1> QED BY <1>1, <1>2, <1>3, <1>4 DEF Next, HandleKeyboardInterrupt, Queue!Next

(* Whatever tasks read: the ring of MAX_KEYS slots, its interrupt handler  *)
(* and the unprotected read_key implement a queue of MAX_KEYS - 1 keys,    *)
(* step by step, until one read_key finishes inside another.               *)
THEOREM KeyboardImplementsQueue == Spec => QueueSpec
<1>1. Init => Queue!Init
  BY DEF Init, Queue!Init
<1>2. TypeOK /\ IInv /\ [Next]_vars => [overlapped' \/ Queue!Next]_(Queue!vars)
  BY StepImplements DEF Queue!vars
<1> QED BY <1>1, <1>2, KeyboardInvariance, PTL DEF Spec, QueueSpec

(* With one task that reads, nothing overlaps.                             *)
LEMMA OneReader ==
    ASSUME NEW r, Readers = {r}
    PROVE  Spec => []~overlapped
<1>1. Init => ~overlapped
  BY DEF Init
<1>2. ~overlapped /\ [Next]_vars => ~overlapped'
  BY DEF Next, HandleKeyboardInterrupt, ExtendedPrefix, KeyDown, KeyUp, read_key, vars,
     ReadNext, ReadCompareIndex, ReadCompare, ReadIndex, ReadLoad, ReadStore
<1> QED BY <1>1, <1>2, PTL DEF Spec

(* With one task that reads, as while each program blocks the one that     *)
(* started it, the promise of KeyQueue holds without a reservation.        *)
THEOREM OneReaderQueue ==
    ASSUME NEW r, Readers = {r}
    PROVE  Spec => Queue!Spec
<1>1. Init => Queue!Init
  BY DEF Init, Queue!Init
<1>2. TypeOK /\ IInv /\ ~overlapped' /\ [Next]_vars => [Queue!Next]_(Queue!vars)
  BY StepImplements DEF Queue!vars
<1> QED BY <1>1, <1>2, KeyboardInvariance, OneReader, PTL DEF Spec, Queue!Spec
=============================================================================
