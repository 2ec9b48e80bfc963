----------------------------- MODULE DevicesProofs -----------------------------
(***************************************************************************)
(* Proofs about the drivers of the three devices, one part each.  The      *)
(* keyboard ring, for every size and every set of keys: the invariant      *)
(* follows one character through the main loop; once the loop has seen the *)
(* ring nonempty it stays nonempty until the loop moves the tail, because  *)
(* a handler moves only the head and never onto the tail.  The serial      *)
(* port, its two writers and the interrupt of its receiver, for every      *)
(* depth of the queues, every trigger and window; and the disk, for every  *)
(* set of drives, every size and every call, whatever the drives do.       *)
(***************************************************************************)
EXTENDS Keyboard, Drivers, SequenceTheorems, TLAPS

-----------------------------------------------------------------------------
(* The keyboard. *)
(* A slot between the tail and the head, going round. *)
Occupied(i) == IF buffer_tail <= buffer_head
               THEN buffer_tail <= i /\ i < buffer_head
               ELSE buffer_tail <= i \/ i < buffer_head

(* The points after the loop has found the ring nonempty. *)
Committed == {"getchar", "getchar2", "pop", "pop2", "fetch", "advance"}

(* Occupied slots hold characters. *)
RingFilled == \A i \in Slots : Occupied(i) => keyboard_buffer[i] \in Chars

(* What the loop knows at each point. *)
LoopKnows ==
    /\ pc \in Committed => buffer_head # buffer_tail
    /\ pc = "loop2" /\ head # buffer_tail => buffer_head # buffer_tail
    /\ pc \in {"getchar2", "pop2"} => head # buffer_tail
    /\ pc = "advance" => c = keyboard_buffer[buffer_tail]
    /\ pc = "handle" => c \in Chars

IInv == TypeOK /\ RingFilled /\ LoopKnows

(* The successor of a slot, without the modulus. *)
LEMMA SuccValue ==
    ASSUME NEW i \in Slots
    PROVE  /\ Succ(i) = IF i = KEYBOARD_BUFFER_SIZE - 1 THEN 0 ELSE i + 1
           /\ Succ(i) \in Slots
           /\ Succ(i) # i
<1>1. KEYBOARD_BUFFER_SIZE \in Nat /\ KEYBOARD_BUFFER_SIZE >= 2
  BY KeyboardAssumption
<1>2. i \in Nat /\ i <= KEYBOARD_BUFFER_SIZE - 1
  BY <1>1 DEF Slots
<1>3. ASSUME NEW n \in Nat, n >= 2, NEW j \in Nat, j <= n - 1
      PROVE  (j + 1) % n = IF j = n - 1 THEN 0 ELSE j + 1
  <2>1. CASE j = n - 1
    BY <2>1, <1>3, Z3
  <2>2. CASE j < n - 1
    BY <2>2, <1>3, Z3
  <2> QED
    BY <2>1, <2>2, <1>3
<1>4. Succ(i) = IF i = KEYBOARD_BUFFER_SIZE - 1 THEN 0 ELSE i + 1
  BY <1>1, <1>2, <1>3 DEF Succ
<1> QED
  BY <1>1, <1>2, <1>4 DEF Slots

(* kernel_main enters its loop with the invariant. *)
LEMMA InvInit == Init => IInv
<1> SUFFICES ASSUME Init PROVE IInv
  OBVIOUS
<1>1. 0 \in Slots
  BY KeyboardAssumption DEF Slots
<1>2. TypeOK
  BY <1>1 DEF Init, TypeOK, Steps, ShiftKeys
<1>3. RingFilled
  BY KeyboardAssumption DEF Init, RingFilled, Occupied, Slots
<1>4. LoopKnows
  BY DEF Init, LoopKnows, Committed
<1> QED
  BY <1>2, <1>3, <1>4 DEF IInv

(* keyboard_buffer_push, at any point of the loop, keeps the ring filled,  *)
(* keeps a nonempty ring nonempty and leaves the slot at its tail alone.   *)
LEMMA PushKeeps ==
    ASSUME TypeOK, RingFilled, NEW ch \in Chars,
           keyboard_buffer_push(ch), buffer_tail' = buffer_tail
    PROVE  /\ keyboard_buffer' \in [Slots -> Chars \cup {NoChar}]
           /\ buffer_head' \in Slots
           /\ RingFilled'
           /\ buffer_head # buffer_tail => /\ buffer_head' # buffer_tail
                                           /\ keyboard_buffer'[buffer_tail] = keyboard_buffer[buffer_tail]
<1>1. /\ buffer_head \in Slots /\ buffer_tail \in Slots
      /\ keyboard_buffer \in [Slots -> Chars \cup {NoChar}]
  BY DEF TypeOK
<1>2. CASE Full
  BY <1>1, <1>2 DEF keyboard_buffer_push, RingFilled, Occupied
<1>3. CASE ~ Full
  <2>1. /\ keyboard_buffer' = [keyboard_buffer EXCEPT ![buffer_head] = ch]
        /\ buffer_head' = Succ(buffer_head) /\ Succ(buffer_head) # buffer_tail
    BY <1>3 DEF keyboard_buffer_push, Full
  <2>2. Succ(buffer_head) \in Slots
    BY <1>1, SuccValue
  <2>3. ASSUME NEW i \in Slots, Occupied(i)' PROVE i = buffer_head \/ Occupied(i)
    <3> DEFINE h == buffer_head
               t == buffer_tail
    <3>1. /\ KEYBOARD_BUFFER_SIZE \in Nat /\ i \in Nat /\ h \in Nat /\ t \in Nat
          /\ i < KEYBOARD_BUFFER_SIZE
      BY <1>1, KeyboardAssumption DEF Slots
    <3>2. IF t <= Succ(h) THEN t <= i /\ i < Succ(h) ELSE t <= i \/ i < Succ(h)
      BY <2>1, <2>3 DEF Occupied
    <3>3. Succ(h) = IF h = KEYBOARD_BUFFER_SIZE - 1 THEN 0 ELSE h + 1
      BY <1>1, SuccValue
    <3> HIDE DEF h, t
    <3>4. i = h \/ (IF t <= h THEN t <= i /\ i < h ELSE t <= i \/ i < h)
      <4>1. CASE h = KEYBOARD_BUFFER_SIZE - 1
        BY <2>1, <3>1, <3>2, <3>3, <4>1 DEF h, t
      <4>2. CASE h # KEYBOARD_BUFFER_SIZE - 1
        BY <3>1, <3>2, <3>3, <4>2
      <4> QED
        BY <4>1, <4>2
    <3> QED
      BY <3>4 DEF Occupied, h, t
  <2>4. RingFilled'
    BY <1>1, <2>1, <2>3 DEF RingFilled
  <2> QED
    BY <1>1, <2>1, <2>2, <2>4
<1> QED
  BY <1>2, <1>3

(* A handler that leaves the ring alone, or pushes, preserves the invariant. *)
LEMMA HandlerKeeps ==
    ASSUME IInv, Wake, buffer_tail' = buffer_tail,
           \/ UNCHANGED <<keyboard_buffer, buffer_head>>
           \/ \E ch \in Chars : keyboard_buffer_push(ch),
           shift_pressed' \in BOOLEAN, caps_lock_on' \in BOOLEAN, down' \in SUBSET ShiftKeys
    PROVE  IInv'
<1>1. TypeOK /\ RingFilled /\ LoopKnows
  BY DEF IInv
<1>2. /\ keyboard_buffer' \in [Slots -> Chars \cup {NoChar}]
      /\ buffer_head' \in Slots
      /\ RingFilled'
      /\ buffer_head # buffer_tail => /\ buffer_head' # buffer_tail
                                      /\ keyboard_buffer'[buffer_tail] = keyboard_buffer[buffer_tail]
  <2>1. CASE UNCHANGED <<keyboard_buffer, buffer_head>>
    BY <1>1, <2>1 DEF TypeOK, RingFilled, Occupied
  <2>2. CASE \E ch \in Chars : keyboard_buffer_push(ch)
    BY <1>1, <2>2, PushKeeps
  <2> QED
    BY <2>1, <2>2
<1>3. TypeOK'
  BY <1>1, <1>2 DEF TypeOK, Wake, Steps
<1>4. LoopKnows'
  BY <1>1, <1>2 DEF LoopKnows, Wake, Committed
<1> QED
  BY <1>2, <1>3, <1>4 DEF IInv

(* Every interrupt and every instruction of the loop preserves it. *)
LEMMA InvNext == IInv /\ [Next]_vars => IInv'
<1> SUFFICES ASSUME IInv, [Next]_vars PROVE IInv'
  OBVIOUS
<1>0. TypeOK /\ RingFilled /\ LoopKnows
  BY DEF IInv
<1>1. ASSUME NEW k \in Keys, KeyPress(k) PROVE IInv'
  <2>1. /\ Wake /\ buffer_tail' = buffer_tail
        /\ down' \in SUBSET ShiftKeys
        /\ shift_pressed' \in BOOLEAN /\ caps_lock_on' \in BOOLEAN
    BY <1>0, <1>1 DEF KeyPress, TypeOK
  <2>2. CASE k \in TypedKeys
    <3> DEFINE ch == [key |-> k, shifted |-> Shifted(k)]
    <3>1. Shifted(k) \in BOOLEAN
      BY <1>0 DEF Shifted, TypeOK
    <3>2. ch \in Chars
      BY <2>2, <3>1 DEF Chars
    <3>3. keyboard_buffer_push(ch)
      BY <1>1, <2>2 DEF KeyPress
    <3> HIDE DEF ch
    <3> QED
      BY <2>1, <3>2, <3>3, HandlerKeeps
  <2>3. CASE k \notin TypedKeys
    <3>1. UNCHANGED <<keyboard_buffer, buffer_head>>
      BY <1>1, <2>3 DEF KeyPress
    <3> QED
      BY <2>1, <3>1, HandlerKeeps
  <2> QED
    BY <2>2, <2>3
<1>2. ASSUME NEW k \in Keys, KeyRelease(k) PROVE IInv'
  <2>1. /\ Wake /\ buffer_tail' = buffer_tail
        /\ UNCHANGED <<keyboard_buffer, buffer_head>>
        /\ down' \in SUBSET ShiftKeys
        /\ shift_pressed' \in BOOLEAN /\ caps_lock_on' \in BOOLEAN
    BY <1>0, <1>2 DEF KeyRelease, TypeOK
  <2> QED
    BY <2>1, HandlerKeeps
<1>3. CASE timer_handler
  <2>1. /\ Wake /\ buffer_tail' = buffer_tail
        /\ UNCHANGED <<keyboard_buffer, buffer_head>>
        /\ down' \in SUBSET ShiftKeys
        /\ shift_pressed' \in BOOLEAN /\ caps_lock_on' \in BOOLEAN
    BY <1>0, <1>3 DEF timer_handler, driver, TypeOK
  <2> QED
    BY <2>1, HandlerKeeps
<1>4. CASE UNCHANGED driver /\ kernel_main_loop
  <2>1. RingFilled'
    BY <1>0, <1>4 DEF RingFilled, Occupied, driver
  <2>2. CASE TestInput
    BY <1>0, <1>4, <2>1, <2>2 DEF IInv, TypeOK, LoopKnows, driver, TestInput, LoadHead, Compare,
       Goto, Committed, Steps
  <2>3. CASE WaitForInput
    BY <1>0, <1>4, <2>1, <2>3 DEF IInv, TypeOK, LoopKnows, driver, WaitForInput, LoadHead, Compare,
       Goto, Committed, Steps
  <2>4. CASE TestBeforePop
    BY <1>0, <1>4, <2>1, <2>4 DEF IInv, TypeOK, LoopKnows, driver, TestBeforePop, LoadHead, Compare,
       Goto, Committed, Steps
  <2>5. CASE FetchChar
    BY <1>0, <1>4, <2>1, <2>5 DEF IInv, TypeOK, LoopKnows, driver, FetchChar, Goto, Committed, Steps
  <2>6. CASE HandleInput
    BY <1>0, <1>4, <2>1, <2>6 DEF IInv, TypeOK, LoopKnows, driver, HandleInput, Goto, Committed, Steps
  <2>7. CASE Halt
    BY <1>0, <1>4, <2>1, <2>7 DEF IInv, TypeOK, LoopKnows, driver, Halt, Goto, Committed, Steps
  <2>8. CASE AdvanceTail
    <3>1. Succ(buffer_tail) # buffer_tail
      BY <1>0, SuccValue DEF TypeOK
    <3> QED
      BY <1>4, <2>8, <3>1 DEF AdvanceTail, driver
  <2> QED
    BY <1>4, <2>2, <2>3, <2>4, <2>5, <2>6, <2>7, <2>8 DEF kernel_main_loop, keyboard_buffer_pop
<1>5. CASE AdvanceTail
  <2>1. /\ buffer_head \in Slots /\ buffer_tail \in Slots
        /\ buffer_head # buffer_tail /\ c = keyboard_buffer[buffer_tail]
    BY <1>0, <1>5 DEF TypeOK, LoopKnows, AdvanceTail, Goto, Committed
  <2>2. Occupied(buffer_tail)
    BY <2>1 DEF Occupied, Slots
  <2>3. c \in Chars
    BY <1>0, <2>1, <2>2 DEF RingFilled
  <2>4. buffer_tail' = Succ(buffer_tail) /\ Succ(buffer_tail) \in Slots
    BY <1>5, <2>1, SuccValue DEF AdvanceTail
  <2>5. ASSUME NEW i \in Slots, Occupied(i)' PROVE Occupied(i)
    BY <1>5, <2>1, <2>4, <2>5, SuccValue, KeyboardAssumption DEF Occupied, Slots, AdvanceTail
  <2>6. RingFilled'
    BY <1>0, <1>5, <2>5 DEF RingFilled, AdvanceTail
  <2>7. TypeOK'
    BY <1>0, <1>5, <2>4 DEF TypeOK, AdvanceTail, Goto, Steps
  <2>8. LoopKnows'
    BY <1>5, <2>3 DEF LoopKnows, AdvanceTail, Goto, Committed
  <2> QED
    BY <2>6, <2>7, <2>8 DEF IInv
<1>6. CASE UNCHANGED vars
  BY <1>0, <1>6 DEF vars, IInv, TypeOK, RingFilled, LoopKnows, Occupied
<1>7. kernel_main_loop => AdvanceTail \/ UNCHANGED driver
  BY DEF kernel_main_loop, TestInput, WaitForInput, keyboard_buffer_pop, TestBeforePop, FetchChar,
     HandleInput, Halt, LoadHead, Compare
<1> QED
  BY <1>1, <1>2, <1>3, <1>4, <1>5, <1>6, <1>7 DEF Next, keyboard_handler

(* The invariant holds throughout. *)
LEMMA InvHolds == Spec => []IInv
  BY InvInit, InvNext, PTL DEF Spec

(* The ring, the registers and the loop stay in range. *)
THEOREM TypeCorrect == Spec => []TypeOK
<1>1. IInv => TypeOK
  BY DEF IInv
<1> QED
  BY <1>1, InvHolds, PTL

(* No burst of keys can overwrite the character a pop is taking. *)
THEOREM PopUndisturbed == Spec => []FetchedIsOldest
<1>1. IInv => FetchedIsOldest
  BY DEF IInv, LoopKnows, FetchedIsOldest, Committed
<1> QED
  BY <1>1, InvHolds, PTL

(* keyboard_getchar returns a typed character, never the 0 of an empty ring. *)
THEOREM GetcharNeverEmpty == Spec => []GetcharReturnsInput
<1>1. IInv => GetcharReturnsInput
  BY KeyboardAssumption DEF IInv, LoopKnows, GetcharReturnsInput
<1> QED
  BY <1>1, InvHolds, PTL

-----------------------------------------------------------------------------
(* The ring as a sequence. *)

Values == Chars \cup {NoChar}
Size   == KEYBOARD_BUFFER_SIZE

Ring(buf, h, t) == [i \in 1 .. (h - t) % Size |-> buf[(t + i - 1) % Size]]

(* Indices without the modulus. *)
LEMMA Modulus ==
  ASSUME NEW n \in Int, - Size < n, n < 2 * Size
  PROVE  n % Size = IF n < 0 THEN n + Size ELSE IF n < Size THEN n ELSE n - Size
<1> USE KeyboardAssumption DEF Size
<1>1. CASE n < 0
  BY <1>1, Z3
<1>2. CASE n >= 0 /\ n < Size
  BY <1>2, Z3
<1>3. CASE n >= Size
  BY <1>3, Z3
<1> QED
  BY <1>1, <1>2, <1>3

LEMMA RingSeq ==
  ASSUME NEW buf \in [Slots -> Values], NEW h \in Slots, NEW t \in Slots
  PROVE  /\ Ring(buf, h, t) \in Seq(Values)
         /\ Len(Ring(buf, h, t)) = IF t <= h THEN h - t ELSE h - t + Size
         /\ \A i \in 1 .. Len(Ring(buf, h, t)) :
               Ring(buf, h, t)[i] = buf[IF t + i - 1 < Size THEN t + i - 1 ELSE t + i - 1 - Size]
<1>1. /\ Size \in Nat /\ Size >= 2
      /\ \A i \in Slots : i \in Nat /\ i < Size
      /\ \A i \in Nat : i < Size => i \in Slots
  BY KeyboardAssumption DEF Size, Slots
<1> DEFINE n == (h - t) % Size
<1>2. n = (IF t <= h THEN h - t ELSE h - t + Size) /\ n \in Nat /\ n < Size
  BY <1>1, Modulus
<1>3. ASSUME NEW i \in 1 .. n
      PROVE  /\ (t + i - 1) % Size = IF t + i - 1 < Size THEN t + i - 1 ELSE t + i - 1 - Size
             /\ (t + i - 1) % Size \in Slots
  <2>1. PICK m \in Int : m = t + i - 1
    BY <1>1, <1>2
  <2>2. - Size < m /\ m < 2 * Size /\ ~ (m < 0)
    BY <1>1, <1>2, <2>1
  <2>3. m % Size = IF m < Size THEN m ELSE m - Size
    BY <2>2, Modulus
  <2>4. m % Size \in Slots
    BY <1>1, <2>2, <2>3
  <2>5. t \in Int /\ i \in Int /\ Size \in Int
    BY <1>1, <1>2
  <2> QED
    BY <2>1, <2>3, <2>4, <2>5
<1> HIDE DEF n
<1>4. Ring(buf, h, t) \in [1 .. n -> Values]
  BY <1>3 DEF Ring, n
<1>5. Ring(buf, h, t) \in Seq(Values) /\ Len(Ring(buf, h, t)) = n
  BY <1>2, <1>4, SeqDef, LenProperties
<1>6. \A i \in 1 .. n : Ring(buf, h, t)[i] = buf[(t + i - 1) % Size]
  BY DEF Ring, n
<1> QED
  BY <1>2, <1>3, <1>5, <1>6

(* A push adds at the end; the ring holds one less than its slots. *)
LEMMA RingPush ==
  ASSUME NEW buf \in [Slots -> Values], NEW h \in Slots, NEW t \in Slots, NEW ch \in Values
  PROVE  /\ Succ(h) = t => ~ (Len(Ring(buf, h, t)) < Size - 1)
         /\ Succ(h) # t => /\ Len(Ring(buf, h, t)) < Size - 1
                           /\ Ring([buf EXCEPT ![h] = ch], Succ(h), t) = Append(Ring(buf, h, t), ch)
<1> DEFINE old == Ring(buf, h, t)
           new == Ring([buf EXCEPT ![h] = ch], Succ(h), t)
<1>1. /\ Size \in Nat /\ Size >= 2
      /\ \A i \in Slots : i \in Nat /\ i < Size
      /\ \A i \in Nat : i < Size => i \in Slots
  BY KeyboardAssumption DEF Size, Slots
<1>2. Succ(h) = (IF h = Size - 1 THEN 0 ELSE h + 1) /\ Succ(h) \in Slots
  BY SuccValue DEF Size
<1>3. /\ old \in Seq(Values) /\ Len(old) = IF t <= h THEN h - t ELSE h - t + Size
      /\ \A i \in 1 .. Len(old) :
            old[i] = buf[IF t + i - 1 < Size THEN t + i - 1 ELSE t + i - 1 - Size]
  BY RingSeq
<1>4. CASE Succ(h) = t
  BY <1>1, <1>2, <1>3, <1>4
<1>5. CASE Succ(h) # t
  <2>1. [buf EXCEPT ![h] = ch] \in [Slots -> Values]
    OBVIOUS
  <2>2. /\ new \in Seq(Values)
        /\ Len(new) = IF t <= Succ(h) THEN Succ(h) - t ELSE Succ(h) - t + Size
        /\ \A i \in 1 .. Len(new) :
              new[i] = [buf EXCEPT ![h] = ch][IF t + i - 1 < Size THEN t + i - 1 ELSE t + i - 1 - Size]
    <3> DEFINE pushed == [buf EXCEPT ![h] = ch]
               h2     == Succ(h)
    <3>1. pushed \in [Slots -> Values] /\ h2 \in Slots
      BY <1>2, <2>1
    <3> HIDE DEF pushed, h2
    <3>2. /\ Ring(pushed, h2, t) \in Seq(Values)
          /\ Len(Ring(pushed, h2, t)) = IF t <= h2 THEN h2 - t ELSE h2 - t + Size
          /\ \A i \in 1 .. Len(Ring(pushed, h2, t)) :
                Ring(pushed, h2, t)[i] = pushed[IF t + i - 1 < Size THEN t + i - 1 ELSE t + i - 1 - Size]
      BY <3>1, RingSeq
    <3> QED
      BY <3>2 DEF pushed, h2
  <2>3. Len(new) = Len(old) + 1 /\ Len(old) \in Nat /\ Len(old) < Size - 1
    <3>1. h \in Nat /\ t \in Nat /\ h < Size /\ t < Size
      BY <1>1
    <3>2. Len(new) = IF t <= Succ(h) THEN Succ(h) - t ELSE Succ(h) - t + Size
      BY <2>2
    <3>3. Len(old) = IF t <= h THEN h - t ELSE h - t + Size
      BY <1>3
    <3> HIDE DEF old, new
    <3>4. CASE h = Size - 1
      <4>1. Succ(h) = 0
        BY <1>2, <3>4
      <4> QED
        BY <1>1, <1>5, <3>1, <3>2, <3>3, <3>4, <4>1
    <3>5. CASE h # Size - 1
      <4>1. Succ(h) = h + 1
        BY <1>2, <3>5
      <4> QED
        BY <1>1, <1>5, <3>1, <3>2, <3>3, <3>5, <4>1
    <3> QED
      BY <3>4, <3>5
  <2>4. /\ Append(old, ch) \in Seq(Values) /\ Len(Append(old, ch)) = Len(old) + 1
        /\ \A i \in 1 .. Len(old) : Append(old, ch)[i] = old[i]
        /\ Append(old, ch)[Len(old) + 1] = ch
    BY <1>3
  <2> HIDE DEF old, new
  <2>5. ASSUME NEW i \in 1 .. Len(new) PROVE new[i] = Append(old, ch)[i]
    <3> DEFINE p == IF t + i - 1 < Size THEN t + i - 1 ELSE t + i - 1 - Size
    <3>1. i \in Nat /\ i >= 1 /\ i <= Len(old) + 1 /\ p \in Slots
      BY <1>1, <2>3
    <3>2. CASE i = Len(old) + 1
      <4>1. p = h
        <5>1. i = Len(old) + 1 /\ Len(old) \in Nat
          BY <2>3, <3>2
        <5>2. h \in Nat /\ t \in Nat /\ h < Size
          BY <1>1
        <5>3. Len(old) = IF t <= h THEN h - t ELSE h - t + Size
          BY <1>3
        <5>4. CASE t <= h
          <6>1. t + i - 1 = h
            BY <5>1, <5>2, <5>3, <5>4
          <6> QED
            BY <5>1, <5>2, <6>1
        <5>5. CASE ~ (t <= h)
          <6>1. t + i - 1 = h + Size
            BY <1>1, <5>1, <5>2, <5>3, <5>5
          <6>2. ~ (t + i - 1 < Size) /\ t + i - 1 - Size = h
            BY <1>1, <5>2, <6>1
          <6> QED
            BY <6>2
        <5> QED
          BY <5>4, <5>5
      <4> QED
        BY <2>2, <2>4, <3>2, <4>1
    <3>3. CASE i # Len(old) + 1
      <4>1. i \in 1 .. Len(old) /\ p # h
        <5>1. i \in Nat /\ i >= 1 /\ i <= Len(old)
          BY <2>3, <3>1, <3>3
        <5>2. CASE t <= h
          BY <1>1, <1>3, <5>1, <5>2
        <5>3. CASE ~ (t <= h)
          BY <1>1, <1>3, <5>1, <5>3
        <5> QED
          BY <5>2, <5>3
      <4> QED
        BY <1>3, <2>2, <2>4, <3>1, <4>1
    <3> QED
      BY <3>2, <3>3
  <2>6. new = Append(old, ch)
    BY <2>2, <2>3, <2>4, <2>5, SeqEqual
  <2> QED
    BY <1>5, <2>3, <2>6 DEF old, new
<1> QED
  BY <1>4, <1>5

(* A pop takes the first. *)
LEMMA RingPop ==
  ASSUME NEW buf \in [Slots -> Values], NEW h \in Slots, NEW t \in Slots, h # t
  PROVE  /\ Ring(buf, h, t) # <<>>
         /\ Head(Ring(buf, h, t)) = buf[t]
         /\ Ring(buf, h, Succ(t)) = Tail(Ring(buf, h, t))
<1> DEFINE old == Ring(buf, h, t)
           new == Ring(buf, h, Succ(t))
<1>1. /\ Size \in Nat /\ Size >= 2
      /\ \A i \in Slots : i \in Nat /\ i < Size
      /\ \A i \in Nat : i < Size => i \in Slots
  BY KeyboardAssumption DEF Size, Slots
<1>2. Succ(t) = (IF t = Size - 1 THEN 0 ELSE t + 1) /\ Succ(t) \in Slots
  BY SuccValue DEF Size
<1>3. /\ old \in Seq(Values) /\ Len(old) = IF t <= h THEN h - t ELSE h - t + Size
      /\ \A i \in 1 .. Len(old) :
            old[i] = buf[IF t + i - 1 < Size THEN t + i - 1 ELSE t + i - 1 - Size]
  BY RingSeq
<1>4. /\ new \in Seq(Values)
      /\ Len(new) = IF Succ(t) <= h THEN h - Succ(t) ELSE h - Succ(t) + Size
      /\ \A i \in 1 .. Len(new) :
            new[i] = buf[IF Succ(t) + i - 1 < Size THEN Succ(t) + i - 1 ELSE Succ(t) + i - 1 - Size]
  BY <1>2, RingSeq
<1>5. Len(new) = Len(old) - 1 /\ Len(old) \in Nat /\ Len(old) >= 1 /\ Len(old) <= Size
  BY <1>1, <1>2, <1>3, <1>4
<1> HIDE DEF old, new
<1>6. old # <<>>
  BY <1>5
<1>7. /\ Head(old) = old[1] /\ Tail(old) \in Seq(Values) /\ Len(Tail(old)) = Len(old) - 1
      /\ \A i \in 1 .. Len(old) - 1 : Tail(old)[i] = old[i + 1]
  BY <1>3, <1>6
<1>8. Head(old) = buf[t]
  BY <1>1, <1>3, <1>5, <1>7
<1>9. ASSUME NEW i \in 1 .. Len(new) PROVE new[i] = Tail(old)[i]
  <2>1. i \in Nat /\ i >= 1 /\ i + 1 \in 1 .. Len(old) /\ i <= Len(old) - 1
    BY <1>5
  <2>2. (IF Succ(t) + i - 1 < Size THEN Succ(t) + i - 1 ELSE Succ(t) + i - 1 - Size)
           = (IF t + (i + 1) - 1 < Size THEN t + (i + 1) - 1 ELSE t + (i + 1) - 1 - Size)
    BY <1>1, <1>2, <1>5, <2>1
  <2>3. new[i] = old[i + 1]
    BY <1>3, <1>4, <2>1, <2>2
  <2> QED
    BY <1>5, <1>7, <2>1, <2>3
<1>10. new = Tail(old)
  BY <1>4, <1>5, <1>7, <1>9, SeqEqual
<1> QED
  BY <1>6, <1>8, <1>10 DEF old, new

(* The variables of CharQueue, as Keyboard's ImplementsCharQueue has them. *)
AWaiting == Ring(keyboard_buffer, buffer_head, buffer_tail)
AInHand  == IF pc = "handle" THEN c ELSE NoChar

(* A handler that pushes types a character, and any other leaves the queue. *)
LEMMA PressRefines ==
  ASSUME IInv, NEW k \in Keys, KeyPress(k)
  PROVE  [Queue!Next]_<<AWaiting, AInHand>>
<1>1. /\ keyboard_buffer \in [Slots -> Values] /\ buffer_head \in Slots /\ buffer_tail \in Slots
      /\ shift_pressed \in BOOLEAN /\ caps_lock_on \in BOOLEAN
  BY DEF IInv, TypeOK, Values
<1>2. AInHand' = AInHand /\ buffer_tail' = buffer_tail
  BY DEF KeyPress, Wake, AInHand
<1>3. CASE UNCHANGED <<keyboard_buffer, buffer_head>>
  BY <1>2, <1>3 DEF AWaiting, Ring
<1>4. CASE k \in TypedKeys
  <2>1. PICK ch \in Chars : ch = [key |-> k, shifted |-> Shifted(k)]
    <3>1. Shifted(k) \in BOOLEAN
      BY <1>1 DEF Shifted
    <3>2. [key |-> k, shifted |-> Shifted(k)] \in Chars
      BY <1>4, <3>1 DEF Chars
    <3> QED
      BY <3>2
  <2>2. keyboard_buffer_push(ch)
    BY <1>4, <2>1 DEF KeyPress
  <2>3. AWaiting' = IF Len(AWaiting) < Size - 1 THEN Append(AWaiting, ch) ELSE AWaiting
    <3>1. CASE Full
      BY <1>1, <1>2, <2>1, <2>2, <3>1, RingPush DEF keyboard_buffer_push, Full, AWaiting, Values
    <3>2. CASE ~ Full
      BY <1>1, <1>2, <2>1, <2>2, <3>2, RingPush DEF keyboard_buffer_push, Full, AWaiting, Values
    <3> QED
      BY <3>1, <3>2
  <2>4. Queue!Type(ch)
    BY <1>2, <2>3 DEF Queue!Type, AWaiting, AInHand, Ring, Size
  <2> QED
    BY <2>4 DEF Queue!Next
<1>5. k \in TypedKeys \/ UNCHANGED <<keyboard_buffer, buffer_head>>
  BY DEF KeyPress
<1> QED
  BY <1>3, <1>4, <1>5

(* The store of buffer_tail delivers the character fetched before. *)
LEMMA AdvanceRefines ==
  ASSUME IInv, AdvanceTail
  PROVE  Queue!Deliver
<1>1. /\ keyboard_buffer \in [Slots -> Values] /\ buffer_head \in Slots /\ buffer_tail \in Slots
      /\ buffer_head # buffer_tail /\ c = keyboard_buffer[buffer_tail] /\ pc = "advance"
  BY DEF IInv, TypeOK, Values, LoopKnows, AdvanceTail, Goto, Committed
<1>2. AInHand = NoChar /\ AInHand' = IF pc' = "handle" THEN c' ELSE NoChar
  BY <1>1 DEF AInHand
<1>3. AWaiting # <<>> /\ Head(AWaiting) = c /\ AWaiting' = Tail(AWaiting)
  BY <1>1, RingPop DEF AWaiting, AdvanceTail
<1>4. AInHand' = c
  <2>1. pc' = "handle"
    BY DEF AdvanceTail, Goto
  <2>2. IInv'
    BY InvNext DEF Next, kernel_main_loop, keyboard_buffer_pop
  <2> QED
    BY <2>1 DEF AInHand, AdvanceTail
<1> QED
  BY <1>2, <1>3, <1>4 DEF Queue!Deliver, AWaiting, AInHand, Ring, Size

LEMMA StepRefines == IInv /\ [Next]_vars => [Queue!Next]_<<AWaiting, AInHand>>
<1> SUFFICES ASSUME IInv, [Next]_vars PROVE [Queue!Next]_<<AWaiting, AInHand>>
  OBVIOUS
<1>1. ASSUME NEW k \in Keys, KeyPress(k) PROVE [Queue!Next]_<<AWaiting, AInHand>>
  BY <1>1, PressRefines
<1>2. ASSUME NEW k \in Keys, KeyRelease(k) PROVE UNCHANGED <<AWaiting, AInHand>>
  BY <1>2 DEF KeyRelease, Wake, AWaiting, AInHand, Ring
<1>3. CASE timer_handler
  BY <1>3 DEF timer_handler, Wake, driver, AWaiting, AInHand, Ring
<1>4. CASE AdvanceTail
  BY <1>4, AdvanceRefines DEF Queue!Next
<1>5. CASE HandleInput
  <2>1. pc = "handle" /\ pc' = "hlt" /\ c \in Chars /\ c # NoChar /\ UNCHANGED driver
    BY <1>5, KeyboardAssumption DEF HandleInput, Goto, IInv, LoopKnows
  <2>2. AInHand # NoChar /\ AInHand' = NoChar /\ AWaiting' = AWaiting
    BY <2>1 DEF AInHand, AWaiting, Ring, driver
  <2>3. Queue!Handled
    BY <2>2 DEF Queue!Handled, AWaiting, AInHand, Ring, Size
  <2> QED
    BY <2>3 DEF Queue!Next
<1>6. CASE TestInput \/ WaitForInput \/ TestBeforePop \/ FetchChar \/ Halt
  <2>1. UNCHANGED driver
    BY <1>6 DEF TestInput, WaitForInput, TestBeforePop, FetchChar, Halt, LoadHead, Compare
  <2>2. pc # "handle" /\ pc' # "handle"
    <3>1. pc = "pop2" => head # buffer_tail
      BY DEF IInv, LoopKnows
    <3> QED
      BY <1>6, <3>1 DEF TestInput, WaitForInput, TestBeforePop, FetchChar, Halt, LoadHead, Compare, Goto
  <2> QED
    BY <2>1, <2>2 DEF driver, AWaiting, AInHand, Ring
<1>7. CASE UNCHANGED vars
  BY <1>7 DEF vars, AWaiting, AInHand, Ring
<1> QED
  BY <1>1, <1>2, <1>3, <1>4, <1>5, <1>6, <1>7
     DEF Next, keyboard_handler, kernel_main_loop, keyboard_buffer_pop

(* Handler and loop, interleaved at every load and store, are a bounded    *)
(* queue: each character the ring had room for is delivered once, in order. *)
THEOREM QueueRefined == Spec => ImplementsCharQueue
<1>1. Init => Queue!Init
  <2> SUFFICES ASSUME Init PROVE Queue!Init
    OBVIOUS
  <2>1. IInv
    BY InvInit
  <2>2. keyboard_buffer \in [Slots -> Values] /\ buffer_head \in Slots /\ buffer_tail \in Slots
        /\ buffer_head = 0 /\ buffer_tail = 0 /\ pc = "loop"
    BY <2>1 DEF Init, IInv, TypeOK, Values
  <2>3. AWaiting = <<>> /\ AInHand = NoChar
    <3>1. AWaiting \in Seq(Values) /\ Len(AWaiting) = 0
      BY <2>2, RingSeq DEF AWaiting
    <3> QED
      BY <2>2, <3>1, EmptySeq DEF AInHand
  <2> QED
    BY <2>3 DEF Queue!Init, AWaiting, AInHand, Ring, Size
<1>2. IInv /\ [Next]_vars => [Queue!Next]_<<AWaiting, AInHand>>
  BY StepRefines
<1> QED
  BY <1>1, <1>2, InvHolds, PTL
     DEF Spec, ImplementsCharQueue, Queue!Spec, AWaiting, AInHand, Ring, Size

-----------------------------------------------------------------------------
(* The serial port. *)
(* While the thread has seen THRE and not written yet, the handler, which  *)
(* writes only into an empty transmitter, has put at most one character    *)
(* there.  A thread that has seen THRE has a character to write.           *)
WritersInv ==
    /\ tx \in Seq({"text", "echo"})
    /\ handler \in {"none", "echoing"}
    /\ left \in Nat /\ polled \in BOOLEAN
    /\ Len(tx) <= 2 /\ ~ dropped
    /\ polled => left > 0 /\ Len(tx) <= 1

(* An edge is latched only by a character that arrives or has waited, and  *)
(* only the handler, whose interrupt is the latched edge, takes one.       *)
ReceiverInv == rx \in Nat /\ latched \in BOOLEAN /\ (latched => rx > 0)

SerialInv == WritersInv /\ ReceiverInv

LEMMA InitEstablishes == SerialInit => SerialInv
<1> SUFFICES ASSUME SerialInit PROVE SerialInv
  OBVIOUS
<1>1. tx \in Seq({"text", "echo"}) /\ Len(tx) <= 2
  BY DEF SerialInit
<1>2. handler \in {"none", "echoing"} /\ left \in Nat
  BY DEF SerialInit
<1>3. polled = FALSE /\ dropped = FALSE
  BY DEF SerialInit
<1>4. WritersInv
  BY <1>1, <1>2, <1>3, Zenon DEF WritersInv
<1>5. ReceiverInv
  BY DEF SerialInit, ReceiverInv
<1> QED
  BY <1>4, <1>5 DEF SerialInv

(* What comes off a queue leaves a shorter queue. *)
LEMMA TailShorter ==
  ASSUME NEW S, NEW s \in Seq(S), s # <<>>
  PROVE  Tail(s) \in Seq(S) /\ Len(Tail(s)) = Len(s) - 1 /\ Len(s) \in Nat
  OBVIOUS

(* A write into a queue with room is not dropped. *)
LEMMA PutFits ==
  ASSUME NEW m \in {"text", "echo"}, WritersInv, Len(tx) <= 1, Put(m)
  PROVE  /\ tx' \in Seq({"text", "echo"})
         /\ Len(tx') <= Len(tx) + 1
         /\ ~ dropped'
<1>1. Len(tx) \in Nat /\ Len(tx) < TxDepth /\ ~ (Len(tx) >= TxDepth)
  BY SerialAssumption DEF WritersInv
<1>2. tx' = Append(tx, m)
  BY <1>1 DEF Put
<1>3. ~ dropped'
  BY <1>1, Zenon DEF Put, WritersInv
<1> QED
  BY <1>2, <1>3 DEF WritersInv

LEMMA StepPreserves == SerialInv /\ [SerialNext]_serialVars => SerialInv'
<1> SUFFICES ASSUME SerialInv, [SerialNext]_serialVars PROVE SerialInv'
  OBVIOUS
<1> USE DEF SerialInv
<1>1. CASE Receive
  BY <1>1 DEF Receive, Receiver, LineUp, WritersInv, ReceiverInv
<1>2. CASE CharacterTimeout
  BY <1>2 DEF CharacterTimeout, Receiver, LineUp, WritersInv, ReceiverInv
<1>3. CASE Transmit
  <2>1. ReceiverInv'
    BY <1>3 DEF Transmit, ReceiverInv
  <2>2. tx' \in Seq({"text", "echo"}) /\ Len(tx') <= Len(tx)
    BY <1>3, TailShorter DEF Transmit, WritersInv
  <2> QED
    BY <1>3, <2>1, <2>2 DEF Transmit, WritersInv
<1>4. CASE HandlerReads
  <2>1. WritersInv'
    BY <1>4 DEF HandlerReads, WritersInv
  <2>2. rx' \in Nat
    BY <1>4 DEF HandlerReads, ReceiverInv
  <2>3. latched' = FALSE
    BY <1>4 DEF HandlerReads
  <2>4. ReceiverInv'
    BY <2>2, <2>3, Zenon DEF ReceiverInv
  <2> QED
    BY <2>1, <2>4
<1>5. CASE HandlerEchoes
  <2>1. ReceiverInv'
    BY <1>5 DEF HandlerEchoes, ReceiverInv
  <2>2. tx = <<>> /\ Put("echo")
    BY <1>5 DEF HandlerEchoes
  <2>3. tx' \in Seq({"text", "echo"}) /\ Len(tx') <= 1 /\ ~ dropped'
    BY <2>2, PutFits
  <2> QED
    BY <1>5, <2>1, <2>3 DEF HandlerEchoes, WritersInv
<1>6. CASE WriterPolls
  BY <1>6 DEF WriterPolls, uartVars, WritersInv, ReceiverInv
<1>7. CASE WriterWrites
  <2>1. ReceiverInv'
    BY <1>7 DEF WriterWrites, ReceiverInv
  <2>2. tx' \in Seq({"text", "echo"}) /\ Len(tx') <= 2 /\ ~ dropped'
    BY <1>7, PutFits DEF WriterWrites, WritersInv
  <2>3. handler' \in {"none", "echoing"} /\ left' \in Nat
    BY <1>7 DEF WriterWrites, WritersInv
  <2>4. polled' = FALSE
    BY <1>7 DEF WriterWrites
  <2>5. WritersInv'
    BY <2>2, <2>3, <2>4, Zenon DEF WritersInv
  <2> QED
    BY <2>1, <2>5
<1>8. CASE \E n \in Lengths : serial_write_string(n)
  BY <1>8, SerialAssumption DEF serial_write_string, uartVars, WritersInv, ReceiverInv
<1>9. CASE UNCHANGED serialVars
  BY <1>9 DEF serialVars, uartVars, WritersInv, ReceiverInv
<1> QED
  BY <1>1, <1>2, <1>3, <1>4, <1>5, <1>6, <1>7, <1>8, <1>9
     DEF SerialNext, HandlerStep, WriterStep, UartStep

(* Whoever moves, the serial port takes a step of its own or none. *)
LEMMA SerialStep == [DriversNext]_deviceVars => [SerialNext]_serialVars
  BY DEF DriversNext, DiskProceeds, DiskCalled, DiskComplains, DrivesWork, ThreadPrints, Handler,
         Writer, Uart, SerialNext, deviceVars

LEMMA Invariance == DriversSpec => []SerialInv
<1>1. DriversInit => SerialInv
  BY InitEstablishes DEF DriversInit
<1>2. SerialInv /\ [DriversNext]_deviceVars => SerialInv'
  BY SerialStep, StepPreserves
<1> QED
  BY <1>1, <1>2, PTL DEF DriversSpec

(* serial_write, from the thread and inside it from the handler, never     *)
(* writes into a transmit queue without room.                              *)
THEOREM NoCharacterDropped == DriversSpec => []TransmitterNotOverrun
<1>1. SerialInv => TransmitterNotOverrun
  BY DEF SerialInv, WritersInv, TransmitterNotOverrun
<1> QED
  BY <1>1, Invariance, PTL

(* The handler that reads without testing LSR_DR always finds a character. *)
THEOREM NoPhantomCharacter == DriversSpec => []InterruptHasCharacter
<1>1. SerialInv => InterruptHasCharacter
  BY DEF SerialInv, ReceiverInv, InterruptHasCharacter
<1> QED
  BY <1>1, Invariance, PTL

-----------------------------------------------------------------------------
(* The disk driver. *)

Words    == Data \cup {"none"}
Contents == Data \cup {"blank"}
Command  == [phase : {"idle", "absent", "failed", "busy", "data"},
             cmd : {"none", "identify", "read", "write"}, lba : Nat, left : Nat, word : Words]
InCall   == {"RDY", "DRQ", "BSY"}

DiskTyped ==
    /\ drives \subseteq Drives /\ selected \in Drives
    /\ dev \in [Drives -> Command]
    /\ disk \in [Drives -> [0..(Sectors - 1) -> Contents]]
    /\ call \in [cmd : {"none", "read", "write"}, drive : Nat, lba : Nat, count : Nat]

(* Between detection and the answer, the call is one of the callers', its  *)
(* buffer holds what a sector can, and the loop is before its end.         *)
CallTyped ==
    /\ stage \in {"idle", "detect", "IDENTIFY BSY", "IDENTIFY DRQ", "returned"} \cup InCall
    /\ stage \notin {"idle", "returned"} \/ sent # "no" => call.drive \in Drives
    /\ stage \in InCall => /\ call.cmd \in {"read", "write"}
                           /\ DOMAIN buffer = 0..(call.count - 1)
                           /\ call.cmd = "write" => buffer \in [0..(call.count - 1) -> Data]
    /\ stage = "DRQ" => sector \in Nat /\ sector < call.count
    /\ stage \notin {"DRQ", "BSY", "returned"} => sent = "no"

(* How far a command that went to a free drive has come: the drive has     *)
(* refused; or it is at sector i with the sectors before done; or it       *)
(* stores the sector it was given last; or it is done.                     *)
Target    == dev[call.drive]
Stored(k) == \A j \in 0..(k - 1) : disk[call.drive][call.lba + j] = buffer[j]
At(i, w)  == /\ Target.cmd = call.cmd /\ Target.lba = call.lba + i
             /\ Target.left = call.count - i /\ Target.word = w
Refused    == Target.phase = "failed"
Running(i) == Target.phase \in {"busy", "data"} /\ At(i, "none") /\ Stored(i)
Storing(i) == /\ call.cmd = "write" /\ i > 0
              /\ Target.phase = "busy" /\ At(i - 1, buffer[i - 1]) /\ Stored(i - 1)
Complete   == Target.phase = "idle" /\ Stored(call.count)

Progress ==
    sent = "clean" /\ Addressable =>
       /\ stage = "DRQ" => selected = call.drive /\ (Refused \/ Running(sector) \/ Storing(sector))
       /\ stage = "BSY" => /\ call.cmd = "write" /\ selected = call.drive
                           /\ Refused \/ Storing(call.count) \/ Complete
       /\ stage = "returned" /\ result = 0 => Complete \/ (Refused /\ call.cmd = "write")

DiskInv == DiskTyped /\ CallTyped /\ Progress

(* The records of a command, field by field. *)
LEMMA CommandFields ==
  /\ NoCommand \in Command /\ NoCommand.phase = "idle" /\ NoCommand.word = "none"
  /\ Absent \in Command /\ Absent.phase = "absent"
  /\ Failed \in Command /\ Failed.phase = "failed"
  BY DEF NoCommand, Absent, Failed, Command, Words

LEMMA OnwardFields ==
  ASSUME NEW m \in Command
  PROVE  /\ Onward(m) \in Command /\ [Onward(m) EXCEPT !.phase = "data"] \in Command
         /\ m.left > 1 => /\ Onward(m).phase = "busy" /\ Onward(m).cmd = m.cmd
                          /\ Onward(m).lba = m.lba + 1 /\ Onward(m).left = m.left - 1
                          /\ Onward(m).word = "none"
         /\ m.left <= 1 => Onward(m) = NoCommand
<1>1. /\ m.lba \in Nat /\ m.left \in Nat
      /\ m = [phase |-> m.phase, cmd |-> m.cmd, lba |-> m.lba, left |-> m.left, word |-> m.word]
      /\ m.cmd \in {"none", "identify", "read", "write"}
  BY DEF Command
<1>2. CASE m.left > 1
  <2>1. Onward(m) = [phase |-> "busy", cmd |-> m.cmd, lba |-> m.lba + 1, left |-> m.left - 1, word |-> "none"]
    BY <1>1, <1>2 DEF Onward
  <2>2. m.lba + 1 \in Nat /\ m.left - 1 \in Nat
    BY <1>1, <1>2
  <2> QED
    BY <1>1, <1>2, <2>1, <2>2 DEF Command, Words
<1>3. CASE m.left <= 1
  <2>1. Onward(m) = NoCommand
    BY <1>1, <1>3 DEF Onward
  <2> QED
    BY <1>1, <1>3, <2>1, CommandFields DEF NoCommand, Command, Words
<1> QED
  BY <1>1, <1>2, <1>3

(* A drive that serves changes nothing but its command and the sector it   *)
(* was given.                                                              *)
LEMMA ServesTyped ==
  ASSUME DiskTyped, NEW d \in Drives, Serves(d) \/ Fails(d)
  PROVE  DiskTyped'
<1> USE DEF DiskTyped
<1>1. dev[d] \in Command
  OBVIOUS
<1>2. UNCHANGED <<drives, selected, call>>
  BY DEF Serves, Fails, driverVars
<1>3. CASE Fails(d)
  BY <1>2, <1>3, CommandFields DEF Fails
<1>4. CASE Serves(d) /\ dev[d].word = "none"
  <2>1. [dev[d] EXCEPT !.phase = "data"] \in Command
    BY <1>1 DEF Command
  <2>2. dev' = [dev EXCEPT ![d] = [dev[d] EXCEPT !.phase = "data"]] /\ disk' = disk
    BY <1>4 DEF Serves
  <2> QED
    BY <1>2, <2>1, <2>2
<1>5. CASE Serves(d) /\ dev[d].word # "none"
  <2>1. dev[d].word \in Contents
    BY <1>1, <1>5 DEF Command, Words, Contents
  <2>2. disk' = [disk EXCEPT ![d][dev[d].lba] = dev[d].word]
    BY <1>5 DEF Serves
  <2>3. disk' \in [Drives -> [0..(Sectors - 1) -> Contents]]
    BY <2>1, <2>2
  <2>4. \E m \in Command : dev' = [dev EXCEPT ![d] = m]
    BY <1>1, <1>5, OnwardFields, CommandFields DEF Serves
  <2> QED
    BY <1>2, <2>3, <2>4
<1> QED
  BY <1>3, <1>4, <1>5

LEMMA ServesProgress ==
  ASSUME DiskInv, NEW d \in Drives, Serves(d) \/ Fails(d)
  PROVE  CallTyped' /\ Progress'
<1>0. DiskTyped /\ CallTyped /\ Progress
  BY DEF DiskInv
<1>1. UNCHANGED <<drives, stage, call, buffer, sector, result, sent, selected>>
  BY DEF Serves, Fails, driverVars
<1>2. CallTyped'
  BY <1>0, <1>1 DEF CallTyped, InCall
<1> SUFFICES ASSUME sent = "clean", Addressable PROVE Progress'
  BY <1>0, <1>1, <1>2 DEF Progress, Addressable
<1> DEFINE e == call.drive
<1>3. e \in Drives /\ dev[d] \in Command /\ dev[d].phase = "busy"
  BY <1>0 DEF CallTyped, DiskTyped, Serves, Fails
<1>4. CASE e # d
  <2>1. Target' = Target /\ disk'[e] = disk[e]
    BY <1>0, <1>1, <1>3, <1>4 DEF Target, DiskTyped, Serves, Fails
  <2>2. Refused' = Refused /\ Complete' = Complete
        /\ \A i : Running(i)' = Running(i) /\ Storing(i)' = Storing(i)
    BY <1>1, <2>1 DEF Refused, Complete, Running, Storing, At, Stored
  <2> QED
    BY <1>0, <1>1, <2>2 DEF Progress
<1>5. CASE e = d
  <2>1. CASE Fails(d)
    <3>1. Refused'
      BY <1>0, <1>1, <1>3, <1>5, <2>1, CommandFields DEF Fails, Refused, Target, DiskTyped
    <3>2. ~ (stage = "returned" /\ result = 0)
      BY <1>0, <1>3, <1>5 DEF Progress, Complete, Refused, Target
    <3> QED
      BY <1>0, <1>1, <3>1, <3>2 DEF Progress
  <2>2. CASE Serves(d)
    <3>1. ~ Refused /\ ~ Complete /\ Target = dev[d]
      BY <1>3, <1>5 DEF Refused, Complete, Target
    <3>2. ~ (stage = "returned" /\ result = 0)
      BY <1>0, <3>1 DEF Progress
    <3>3. ASSUME NEW i \in Nat, Running(i) PROVE Running(i)'
      <4>1. dev[d].word = "none"
        BY <3>1, <3>3 DEF Running, At
      <4>2. dev' = [dev EXCEPT ![d].phase = "data"] /\ disk' = disk
        BY <2>2, <4>1 DEF Serves
      <4>3. /\ dev'[d].phase = "data" /\ dev'[d].cmd = dev[d].cmd /\ dev'[d].lba = dev[d].lba
            /\ dev'[d].left = dev[d].left /\ dev'[d].word = dev[d].word
        BY <1>0, <1>3, <4>2 DEF DiskTyped, Command
      <4> QED
        BY <1>1, <1>5, <3>1, <3>3, <4>2, <4>3 DEF Running, At, Target, Stored
    <3>4. ASSUME NEW i \in 1..call.count, Storing(i), stage \in {"DRQ", "BSY"}
          PROVE  IF i < call.count THEN Running(i)' ELSE Complete'
      <4>1. /\ call.count \in Nat /\ call.lba \in Nat /\ i \in Nat
            /\ buffer \in [0..(call.count - 1) -> Data] /\ buffer[i - 1] \in Data
        <5>1. call.count \in Nat /\ call.lba \in Nat
          BY <1>0 DEF DiskTyped
        <5>2. i \in Nat /\ i - 1 \in 0..(call.count - 1)
          BY <5>1
        <5>3. buffer \in [0..(call.count - 1) -> Data]
          BY <1>0, <3>4 DEF CallTyped, InCall, Storing
        <5> QED
          BY <5>1, <5>2, <5>3
      <4>2. /\ dev[d].word = buffer[i - 1] /\ dev[d].word # "none" /\ dev[d].cmd = "write"
            /\ dev[d].lba = call.lba + (i - 1) /\ dev[d].left = call.count - (i - 1)
            /\ call.cmd = "write" /\ Stored(i - 1)
        BY <3>1, <3>4, <4>1, DiskAssumption DEF Storing, At
      <4>3. /\ disk' = [disk EXCEPT ![d][dev[d].lba] = dev[d].word] /\ dev[d].lba < Sectors
            /\ dev' = [dev EXCEPT ![d] = IF dev[d].left > 1
                                         THEN [Onward(dev[d]) EXCEPT !.phase = "data"] ELSE NoCommand]
        BY <2>2, <4>2 DEF Serves
      <4>4. \A l \in 0..(Sectors - 1) : disk'[d][l] = IF l = dev[d].lba THEN dev[d].word ELSE disk[d][l]
        BY <1>0, <4>3 DEF DiskTyped
      <4>5. Stored(i)'
        <5> SUFFICES ASSUME NEW j \in 0..(i - 1) PROVE disk'[d][call.lba + j] = buffer[j]
          BY <1>1, <1>5 DEF Stored
        <5>1. call.lba + j \in 0..(Sectors - 1) /\ (call.lba + j = dev[d].lba <=> j = i - 1)
          <6>1. /\ j \in Nat /\ j <= i - 1 /\ Sectors \in Nat
                /\ call.lba + (i - 1) < Sectors /\ dev[d].lba = call.lba + (i - 1)
            BY <4>1, <4>2, <4>3, DiskAssumption
          <6>2. call.lba + j \in Nat /\ call.lba + j < Sectors
            BY <4>1, <6>1
          <6>3. call.lba + j = dev[d].lba <=> j = i - 1
            BY <4>1, <6>1
          <6> QED
            BY <6>1, <6>2, <6>3
        <5>2. j # i - 1 => disk[d][call.lba + j] = buffer[j]
          <6>1. j # i - 1 => j \in 0..((i - 1) - 1)
            BY <4>1
          <6> QED
            BY <1>5, <4>2, <6>1 DEF Stored
        <5> QED
          BY <4>2, <4>4, <5>1, <5>2
      <4>6. CASE i < call.count
        <5>1. dev[d].left > 1 /\ dev[d].left - 1 = call.count - i /\ dev[d].lba + 1 = call.lba + i
          BY <4>1, <4>2, <4>6
        <5>2. dev'[d] = [Onward(dev[d]) EXCEPT !.phase = "data"]
          BY <1>0, <4>3, <5>1 DEF DiskTyped
        <5>3. /\ dev'[d].phase = "data" /\ dev'[d].cmd = dev[d].cmd /\ dev'[d].word = "none"
              /\ dev'[d].lba = dev[d].lba + 1 /\ dev'[d].left = dev[d].left - 1
          BY <1>3, <5>1, <5>2, OnwardFields DEF Command
        <5> QED
          BY <1>1, <1>5, <4>2, <4>5, <4>6, <5>1, <5>3 DEF Running, At, Target
      <4>7. CASE ~ (i < call.count)
        <5>1. i = call.count /\ ~ (dev[d].left > 1)
          BY <4>1, <4>2, <4>7
        <5>2. dev'[d] = NoCommand
          BY <1>0, <4>3, <5>1 DEF DiskTyped
        <5> QED
          BY <1>1, <1>5, <4>5, <5>1, <5>2, CommandFields DEF Complete, Target
      <4> QED
        BY <4>6, <4>7
    <3>5. CASE stage = "DRQ"
      <4>1. selected = call.drive /\ (Running(sector) \/ Storing(sector))
        BY <1>0, <3>1, <3>5 DEF Progress
      <4>2. sector \in Nat /\ sector < call.count /\ call.count \in Nat
        BY <1>0, <3>5 DEF CallTyped, DiskTyped
      <4>3. ASSUME NEW i \in Nat, i = sector PROVE Running(i)'
        <5>1. CASE Running(i)
          BY <3>3, <5>1
        <5>2. CASE Storing(i)
          <6>1. i \in 1..call.count
            BY <4>2, <4>3, <5>2 DEF Storing
          <6> QED
            BY <3>4, <3>5, <4>2, <4>3, <5>2, <6>1
        <5> QED
          BY <4>1, <4>3, <5>1, <5>2
      <4>4. Running(sector)'
        BY <1>1, <4>2, <4>3 DEF Running, At, Stored
      <4> QED
        BY <1>1, <3>5, <4>1, <4>4 DEF Progress
    <3>6. CASE stage = "BSY"
      <4>1. call.cmd = "write" /\ selected = call.drive /\ Storing(call.count) /\ call.count \in 1..call.count
        BY <1>0, <3>1, <3>6 DEF Progress, DiskTyped, Addressable
      <4>2. Complete'
        BY <3>4, <3>6, <4>1
      <4> QED
        BY <1>1, <3>6, <4>1, <4>2 DEF Progress
    <3>7. CASE stage \notin {"DRQ", "BSY"}
      BY <1>1, <3>2, <3>7 DEF Progress
    <3> QED
      BY <3>5, <3>6, <3>7
  <2> QED
    BY <2>1, <2>2
<1> QED
  BY <1>4, <1>5

(* Detection, a call and its refusal touch no command of a call.           *)
LEMMA NextDriveTyped ==
  ASSUME DiskTyped, NextDrive
  PROVE  call' \in [cmd : {"none", "read", "write"}, drive : Nat, lba : Nat, count : Nat]
         /\ call'.drive \in Drives /\ stage' \in {"detect", "idle"}
<1>1. (IF call.drive + 1 \in Drives THEN call.drive + 1 ELSE 0) \in Drives /\ Drives \subseteq Nat
  BY DiskAssumption
<1>2. call' = [call EXCEPT !.drive = IF call.drive + 1 \in Drives THEN call.drive + 1 ELSE 0]
  BY DEF NextDrive
<1> QED
  BY <1>1, <1>2 DEF DiskTyped, NextDrive

LEMMA IssuedTyped ==
  ASSUME DiskTyped, NEW d \in Drives, NEW m \in Command, Issued(d, m)
  PROVE  selected' \in Drives /\ dev' \in [Drives -> Command]
  BY DEF Issued, DiskTyped

LEMMA SectorReadTyped ==
  ASSUME DiskTyped, SectorRead
  PROVE  dev' \in [Drives -> Command]
<1>1. dev[selected] \in Command /\ Onward(dev[selected]) \in Command
  BY OnwardFields DEF DiskTyped
<1>2. dev' = [dev EXCEPT ![selected] = IF dev[selected].cmd = "write" THEN dev[selected]
                                      ELSE Onward(dev[selected])]
  BY DEF SectorRead
<1> QED
  BY <1>1, <1>2 DEF DiskTyped

Unsent == stage' \notin {"DRQ", "BSY", "returned"} /\ sent' = "no"

LEMMA DetectionKeeps ==
  ASSUME DiskInv, Identify \/ IdentifyAnswers \/ Identified \/ IdentifyTimesOut
  PROVE  DiskInv'
<1>0. DiskTyped /\ CallTyped
  BY DEF DiskInv
<1>1. /\ stage \in {"detect", "IDENTIFY BSY", "IDENTIFY DRQ"} /\ call.drive \in Drives
      /\ sent = "no" /\ sent' = sent
  BY <1>0 DEF CallTyped, Identify, IdentifyAnswers, Identified, IdentifyTimesOut, Waiting, TimesOut
<1>2. CASE Identify
  <2> DEFINE m == [NoCommand EXCEPT !.phase = "busy", !.cmd = "identify", !.left = 1]
  <2>1. m \in Command
    BY DEF NoCommand, Command, Words
  <2>2. CASE dev[call.drive].phase = "absent"
    <3>1. NextDrive /\ selected' = call.drive /\ UNCHANGED <<dev, drives, disk>>
      BY <1>2, <2>2 DEF Identify
    <3>2. DiskTyped'
      BY <1>0, <1>1, <3>1, NextDriveTyped DEF DiskTyped
    <3>3. CallTyped'
      BY <1>0, <1>1, <3>1, NextDriveTyped DEF CallTyped, InCall
    <3> QED
      BY <1>1, <3>2, <3>3 DEF DiskInv, Progress
  <2>3. CASE dev[call.drive].phase # "absent"
    <3>1. Issued(call.drive, m) /\ stage' = "IDENTIFY BSY" /\ UNCHANGED <<call, drives, disk>>
      BY <1>2, <2>3 DEF Identify, WaitFor
    <3>2. DiskTyped'
      <4> HIDE DEF m
      <4> QED
        BY <1>0, <1>1, <2>1, <3>1, IssuedTyped DEF DiskTyped
    <3>3. CallTyped'
      BY <1>1, <3>1 DEF CallTyped, InCall
    <3> QED
      BY <1>1, <3>2, <3>3 DEF DiskInv, Progress
  <2> QED
    BY <2>2, <2>3
<1>3. CASE IdentifyAnswers \/ IdentifyTimesOut
  <2>1. /\ NextDrive \/ (stage' = "IDENTIFY DRQ" /\ call' = call)
        /\ UNCHANGED <<drives, selected, dev, disk>>
    BY <1>3 DEF IdentifyAnswers, IdentifyTimesOut, WaitFor
  <2>2. DiskTyped'
    BY <1>0, <2>1, NextDriveTyped DEF DiskTyped
  <2>3. CallTyped'
    BY <1>0, <1>1, <2>1, NextDriveTyped DEF CallTyped, InCall
  <2> QED
    BY <1>1, <2>2, <2>3 DEF DiskInv, Progress
<1>4. CASE Identified
  <2>1. /\ SectorRead /\ NextDrive /\ drives' = drives \cup {call.drive}
        /\ UNCHANGED <<selected, disk>>
    BY <1>4 DEF Identified
  <2>2. DiskTyped'
    BY <1>0, <1>1, <2>1, NextDriveTyped, SectorReadTyped DEF DiskTyped
  <2>3. CallTyped'
    BY <1>0, <1>1, <2>1, NextDriveTyped DEF CallTyped, InCall
  <2> QED
    BY <1>1, <2>2, <2>3 DEF DiskInv, Progress
<1> QED
  BY <1>2, <1>3, <1>4

LEMMA CallsKeep == DiskInv /\ Calls => DiskInv'
<1> SUFFICES ASSUME DiskInv, Calls PROVE DiskInv'
  OBVIOUS
<1>0. DiskTyped /\ CallTyped
  BY DEF DiskInv
<1>1. PICK d \in Called, lba \in Lbas, n \in Counts :
           \/ disk_read_sectors(d, lba, n)
           \/ \E data \in [0..(n - 1) -> Data] : disk_write_sectors(d, lba, data, n)
  BY DEF Calls
<1>2. d \in Nat /\ lba \in Nat /\ n \in Nat
  BY DiskAssumption
<1>3. PICK cmd \in {"read", "write"}, data \in [0..(n - 1) -> Data \cup {"junk"}] :
         /\ disk_sectors([cmd |-> cmd, drive |-> d, lba |-> lba, count |-> n], data)
         /\ cmd = "write" => data \in [0..(n - 1) -> Data]
  <2>1. CASE disk_read_sectors(d, lba, n)
    BY <2>1 DEF disk_read_sectors
  <2>2. CASE \E data \in [0..(n - 1) -> Data] : disk_write_sectors(d, lba, data, n)
    BY <2>2 DEF disk_write_sectors
  <2> QED
    BY <1>1, <2>1, <2>2
<1> DEFINE m == [cmd |-> cmd, drive |-> d, lba |-> lba, count |-> n]
<1>4. /\ m \in [cmd : {"none", "read", "write"}, drive : Nat, lba : Nat, count : Nat]
      /\ m.cmd = cmd /\ m.drive = d /\ m.count = n
  BY <1>2
<1> HIDE DEF m
<1>5. /\ stage = "idle" /\ d \in drives /\ call' = m /\ buffer' = data /\ stage' = "RDY"
      /\ UNCHANGED <<drives, sent, selected, dev, disk>>
  BY <1>3, <1>4 DEF disk_sectors, WaitFor, m
<1>6. DiskTyped'
  BY <1>0, <1>4, <1>5 DEF DiskTyped
<1>7. sent' = "no"
  BY <1>0, <1>5 DEF CallTyped
<1>8. call'.cmd = cmd /\ call'.drive = d /\ call'.count = n /\ d \in Drives
  BY <1>0, <1>4, <1>5 DEF DiskTyped
<1>9. CallTyped'
  BY <1>3, <1>5, <1>7, <1>8 DEF CallTyped, InCall
<1> QED
  BY <1>6, <1>7, <1>9 DEF DiskInv, Progress

(* The answers, and looks at the status that end no wait.                  *)
LEMMA NoCallTyped ==
  /\ NoCall \in [cmd : {"none", "read", "write"}, drive : Nat, lba : Nat, count : Nat]
  /\ \A d \in Nat : [NoCall EXCEPT !.drive = d]
                      \in [cmd : {"none", "read", "write"}, drive : Nat, lba : Nat, count : Nat]
  BY DEF NoCall

LEMMA AnswersKeep ==
  ASSUME DiskInv,
         AnswerTaken \/ CallTimesOut \/ WriteCompletes \/ LooksAgain \/ \E d \in Called : NoSuchDrive(d)
  PROVE  DiskInv'
<1>0. DiskTyped /\ CallTyped /\ Progress
  BY DEF DiskInv
<1>1. CASE AnswerTaken
  <2>1. DiskTyped'
    BY <1>0, <1>1, NoCallTyped DEF AnswerTaken, DiskTyped
  <2>2. CallTyped' /\ sent' = "no"
    BY <1>1 DEF AnswerTaken, CallTyped, InCall
  <2> QED
    BY <2>1, <2>2 DEF DiskInv, Progress
<1>2. CASE \E d \in Called : NoSuchDrive(d)
  <2>1. PICK d \in Called : NoSuchDrive(d)
    BY <1>2
  <2>2. d \in Nat
    BY DiskAssumption
  <2>3. DiskTyped'
    BY <1>0, <2>1, <2>2, NoCallTyped DEF NoSuchDrive, DiskTyped
  <2>4. CallTyped' /\ sent' = "no"
    BY <1>0, <2>1 DEF NoSuchDrive, Return, CallTyped, InCall
  <2> QED
    BY <2>3, <2>4 DEF DiskInv, Progress
<1>3. CASE CallTimesOut
  <2>1. /\ stage \in InCall /\ stage' = "returned" /\ result' = -1
        /\ UNCHANGED <<drives, call, buffer, sent, selected, dev, disk>>
    BY <1>3 DEF CallTimesOut, TimesOut, Return, InCall
  <2>2. DiskTyped' /\ CallTyped'
    BY <1>0, <2>1 DEF DiskTyped, CallTyped, InCall
  <2> QED
    BY <2>1, <2>2 DEF DiskInv, Progress
<1>4. CASE WriteCompletes
  <2>1. /\ stage = "BSY" /\ MaySee /\ stage' = "returned"
        /\ UNCHANGED <<drives, call, buffer, sector, sent, selected, dev, disk>>
    BY <1>4 DEF WriteCompletes, Waiting, Return
  <2>2. DiskTyped' /\ CallTyped'
    BY <1>0, <2>1 DEF DiskTyped, CallTyped, InCall
  <2>3. dev[selected].phase # "busy"
    BY <2>1 DEF MaySee
  <2>4. sent = "clean" /\ Addressable => (Complete \/ (Refused /\ call.cmd = "write"))'
    <3> SUFFICES ASSUME sent = "clean", Addressable PROVE (Complete \/ (Refused /\ call.cmd = "write"))'
      OBVIOUS
    <3>1. call.cmd = "write" /\ (Refused \/ Complete)
      BY <1>0, <2>1, <2>3 DEF Progress, Storing, Target
    <3> QED
      BY <2>1, <3>1 DEF Refused, Complete, Target, Stored
  <2>5. Progress'
    BY <2>1, <2>4 DEF Progress, Addressable
  <2> QED
    BY <2>2, <2>5 DEF DiskInv
<1>5. CASE LooksAgain
  <2>1. UNCHANGED <<drives, call, buffer, sector, result, sent, stage, selected, dev, disk>>
    BY <1>5 DEF LooksAgain, driverVars
  <2>2. DiskTyped' /\ CallTyped'
    BY <1>0, <2>1 DEF DiskTyped, CallTyped, InCall
  <2>3. Progress'
    BY <1>0, <2>1 DEF Progress, Addressable, Refused, Running, Storing, Complete, Target, At, Stored
  <2> QED
    BY <2>2, <2>3 DEF DiskInv
<1> QED
  BY <1>1, <1>2, <1>3, <1>4, <1>5

-----------------------------------------------------------------------------
(* The command goes out, and the sectors follow. *)
LEMMA Registers ==
  ASSUME NEW n \in Nat, NEW r \in Nat \ {0}
  PROVE  /\ n % r \in Nat
         /\ n \in 1..r => (IF n % r = 0 THEN r ELSE n % r) = n
         /\ n < r => n % r = n
<1>1. n % r \in 0..(r - 1)
  BY Z3
<1>2. n < r => n % r = n
  BY Z3
<1>3. n = r => n % r = 0
  BY Z3
<1> QED
  BY <1>1, <1>2, <1>3

LEMMA SendKeeps == DiskInv /\ SendCommand => DiskInv'
<1> SUFFICES ASSUME DiskInv, SendCommand PROVE DiskInv'
  OBVIOUS
<1> DEFINE lba  == call.lba % LbaRange
           todo == IF call.count % CountRange = 0 THEN CountRange ELSE call.count % CountRange
           m == [phase |-> "busy", cmd |-> call.cmd, lba |-> lba, word |-> "none", left |-> todo]
           e == call.drive
<1>0. DiskTyped /\ CallTyped
  BY DEF DiskInv
<1>1. /\ stage = "RDY" /\ e \in Drives /\ call.cmd \in {"read", "write"}
      /\ call.count \in Nat /\ call.lba \in Nat
  BY <1>0 DEF SendCommand, Waiting, DiskTyped, CallTyped, InCall
<1>2. /\ Issued(e, m) /\ sent' = (IF Free(e) THEN "clean" ELSE "over") /\ LoopAt(0)
      /\ UNCHANGED <<drives, call, buffer, disk>>
  BY DEF SendCommand
<1>3. CountRange \in Nat \ {0} /\ LbaRange \in Nat \ {0}
  BY DiskAssumption
<1>4. lba \in Nat /\ todo \in Nat
  BY <1>1, <1>3, Registers
<1>5. Addressable => lba = call.lba /\ todo = call.count
  <2>1. Addressable => call.count \in 1..CountRange /\ call.lba < LbaRange
    BY <1>1, <1>3 DEF Addressable
  <2> QED
    BY <1>1, <1>3, <2>1, Registers
<1> HIDE DEF lba, todo
<1>6. /\ m \in Command /\ m.phase = "busy" /\ m.cmd = call.cmd /\ m.lba = lba
      /\ m.word = "none" /\ m.left = todo
  BY <1>1, <1>4 DEF Command, Words
<1> HIDE DEF m
<1>7. DiskTyped'
  BY <1>0, <1>1, <1>2, <1>6, IssuedTyped DEF DiskTyped
<1>8. /\ sector' = 0
      /\ call.count > 0 => stage' = "DRQ"
      /\ call.count = 0 => stage' \in {"BSY", "returned"}
      /\ sent' # "no"
  BY <1>1, <1>2 DEF LoopAt, WaitFor, Return
<1>9. CallTyped'
  <2>1. stage' \in {"DRQ", "BSY", "returned"} /\ (stage' = "DRQ" => sector' < call.count)
    BY <1>1, <1>8
  <2>2. /\ DOMAIN buffer = 0..(call.count - 1)
        /\ call.cmd = "write" => buffer \in [0..(call.count - 1) -> Data]
    BY <1>0, <1>1 DEF CallTyped, InCall
  <2> QED
    BY <1>1, <1>2, <1>8, <2>1, <2>2 DEF CallTyped, InCall
<1>10. Progress'
  <2> SUFFICES ASSUME sent' = "clean", Addressable
               PROVE  stage' = "DRQ" /\ (selected = call.drive /\ Running(sector))'
    BY <1>2 DEF Progress, Addressable
  <2>1. Free(e)
    BY <1>2
  <2>2. dev' = [dev EXCEPT ![e] = m] /\ selected' = e
    BY <1>2, <2>1 DEF Issued
  <2>3. dev'[e] = m
    BY <1>0, <1>1, <2>2 DEF DiskTyped
  <2>4. call.count > 0
    BY <1>1 DEF Addressable
  <2>5. Running(0)'
    BY <1>1, <1>2, <1>5, <1>6, <2>3 DEF Running, At, Target, Stored
  <2> QED
    BY <1>2, <1>8, <2>2, <2>4, <2>5 DEF Running, At, Stored
<1> QED
  BY <1>7, <1>9, <1>10 DEF DiskInv

(* The loop goes on to the next sector, or ends. *)
LEMMA LoopTyped ==
  ASSUME DiskInv, stage = "DRQ", LoopAt(sector + 1), DiskTyped',
         UNCHANGED <<drives, call, sent, selected>>,
         DOMAIN buffer' = 0..(call.count - 1),
         call.cmd = "write" => buffer' = buffer
  PROVE  /\ CallTyped' /\ sector \in Nat /\ call.count \in Nat /\ sector + 1 <= call.count
         /\ sector' = sector + 1 /\ call.cmd \in {"read", "write"}
         /\ sector + 1 < call.count => stage' = "DRQ"
         /\ sector + 1 = call.count => stage' = IF call.cmd = "read" THEN "returned" ELSE "BSY"
<1>0. DiskTyped /\ CallTyped
  BY DEF DiskInv
<1>1. sector \in Nat /\ call.count \in Nat /\ sector < call.count
  BY <1>0 DEF DiskTyped, CallTyped
<1>2. sector + 1 \in Nat /\ sector + 1 <= call.count
  BY <1>1
<1>3. sector' = sector + 1 /\ call.cmd \in {"read", "write"}
  BY <1>0 DEF LoopAt, CallTyped, InCall
<1>4. /\ sector + 1 < call.count => stage' = "DRQ"
      /\ sector + 1 = call.count => stage' = IF call.cmd = "read" THEN "returned" ELSE "BSY"
  BY <1>1 DEF LoopAt, Return, WaitFor
<1>5. stage' = "DRQ" => sector' < call.count
  BY <1>1, <1>2, <1>3, <1>4
<1>6. stage' \in {"DRQ", "returned", "BSY"}
  BY <1>1, <1>2, <1>4
<1>7. CallTyped'
  BY <1>0, <1>2, <1>3, <1>5, <1>6 DEF CallTyped, InCall
<1> QED
  BY <1>1, <1>2, <1>3, <1>4, <1>7

LEMMA ReadKeeps == DiskInv /\ ReadSector => DiskInv'
<1> SUFFICES ASSUME DiskInv, ReadSector PROVE DiskInv'
  OBVIOUS
<1> DEFINE e == call.drive
           i == sector
<1>0. DiskTyped /\ CallTyped /\ Progress
  BY DEF DiskInv
<1>1. /\ stage = "DRQ" /\ MaySee /\ call.cmd = "read" /\ SectorRead /\ LoopAt(sector + 1)
      /\ buffer' = [buffer EXCEPT ![sector] = Given]
      /\ UNCHANGED <<drives, call, sent, selected, disk>>
  BY DEF ReadSector, Waiting
<1>2. /\ e \in Drives /\ i \in 0..(call.count - 1) /\ call.count \in Nat /\ call.lba \in Nat
      /\ DOMAIN buffer = 0..(call.count - 1)
  BY <1>0, <1>1 DEF DiskTyped, CallTyped, InCall
<1>3. DiskTyped'
  BY <1>0, <1>1, SectorReadTyped DEF DiskTyped
<1>4. sent = "clean" /\ Addressable => selected = e /\ Running(i) /\ dev[e].phase = "data"
  BY <1>0, <1>1 DEF Progress, MaySee, Refused, Storing, Target
<1>5. /\ DOMAIN buffer' = 0..(call.count - 1) /\ buffer'[i] = Given
      /\ \A j \in 0..(i - 1) : buffer'[j] = buffer[j]
  BY <1>1, <1>2
<1>6. /\ CallTyped' /\ i \in Nat /\ i + 1 <= call.count /\ sector' = i + 1
      /\ i + 1 < call.count => stage' = "DRQ"
      /\ i + 1 = call.count => stage' = "returned"
  BY <1>1, <1>3, <1>5, LoopTyped
<1>7. Progress'
  <2> SUFFICES ASSUME sent = "clean", Addressable
               PROVE  /\ i + 1 < call.count => (selected = call.drive /\ Running(sector))'
                      /\ i + 1 = call.count => Complete'
    BY <1>1, <1>2, <1>6 DEF Progress, Addressable
  <2>1. /\ selected = e /\ dev[e].cmd = "read" /\ dev[e].lba = call.lba + i
        /\ dev[e].left = call.count - i /\ dev[e].word = "none" /\ Stored(i)
    BY <1>1, <1>4 DEF Running, At, Target
  <2>2. Given = disk[e][call.lba + i]
    BY <2>1 DEF Given
  <2>3. \A j \in 0..i : disk[e][call.lba + j] = buffer'[j]
    <3> TAKE j \in 0..i
    <3>1. j = i \/ j \in 0..(i - 1)
      BY <1>6
    <3> QED
      BY <1>5, <2>1, <2>2, <3>1 DEF Stored
  <2>4. dev[e] \in Command /\ dev'[e] = Onward(dev[e])
    BY <1>0, <1>1, <1>2, <2>1 DEF SectorRead, DiskTyped
  <2>5. CASE i + 1 < call.count
    <3>1. dev[e].left > 1 /\ dev[e].lba + 1 = call.lba + (i + 1) /\ dev[e].left - 1 = call.count - (i + 1)
      BY <1>2, <1>6, <2>1, <2>5
    <3>2. /\ Target'.phase = "busy" /\ Target'.cmd = "read" /\ Target'.word = "none"
          /\ Target'.lba = call.lba + (i + 1) /\ Target'.left = call.count - (i + 1)
      <4>1. Target' = Onward(dev[e])
        BY <1>1, <2>4 DEF Target
      <4> QED
        BY <2>1, <2>4, <3>1, <4>1, OnwardFields
    <3>3. Stored(sector)'
      <4>1. 0..(sector' - 1) = 0..i
        BY <1>6
      <4> QED
        BY <1>1, <2>3, <4>1 DEF Stored
    <3> QED
      BY <1>1, <1>6, <2>1, <2>5, <3>2, <3>3 DEF Running, At
  <2>6. CASE i + 1 = call.count
    <3>1. dev[e].left <= 1 /\ 0..(call.count - 1) = 0..i
      BY <1>2, <1>6, <2>1, <2>6
    <3>2. Target'.phase = "idle"
      <4>1. Target' = Onward(dev[e])
        BY <1>1, <2>4 DEF Target
      <4>2. Onward(dev[e]) = NoCommand
        BY <2>4, <3>1, OnwardFields
      <4> QED
        BY <4>1, <4>2, CommandFields
    <3> QED
      BY <1>1, <1>6, <2>3, <2>6, <3>1, <3>2 DEF Complete, Stored
  <2> QED
    BY <2>5, <2>6
<1> QED
  BY <1>3, <1>6, <1>7 DEF DiskInv

LEMMA WriteKeeps == DiskInv /\ WriteSector => DiskInv'
<1> SUFFICES ASSUME DiskInv, WriteSector PROVE DiskInv'
  OBVIOUS
<1> DEFINE e == call.drive
           i == sector
           w == buffer[sector]
<1>0. DiskTyped /\ CallTyped /\ Progress
  BY DEF DiskInv
<1>1. /\ stage = "DRQ" /\ MaySee /\ call.cmd = "write" /\ LoopAt(sector + 1)
      /\ dev' = [dev EXCEPT ![selected] =
                   IF dev[selected].cmd = "write"
                   THEN [dev[selected] EXCEPT !.phase = "busy", !.word = w] ELSE dev[selected]]
      /\ UNCHANGED <<drives, call, buffer, sent, selected, disk>>
  BY DEF WriteSector, Waiting, SectorWritten
<1>2. /\ e \in Drives /\ i \in 0..(call.count - 1) /\ call.count \in Nat /\ call.lba \in Nat
      /\ DOMAIN buffer = 0..(call.count - 1) /\ buffer \in [0..(call.count - 1) -> Data]
      /\ selected \in Drives
  BY <1>0, <1>1 DEF DiskTyped, CallTyped, InCall
<1>3. w \in Data /\ w \in Words
  BY <1>2 DEF Words
<1> HIDE DEF w
<1>4. DiskTyped'
  <2>1. dev[selected] \in Command
    BY <1>0, <1>2 DEF DiskTyped
  <2>2. [dev[selected] EXCEPT !.phase = "busy", !.word = w] \in Command
    BY <1>3, <2>1 DEF Command
  <2>3. dev' \in [Drives -> Command]
    BY <1>0, <1>1, <1>2, <2>1, <2>2 DEF DiskTyped
  <2> QED
    BY <1>0, <1>1, <2>3 DEF DiskTyped
<1>5. /\ CallTyped' /\ i \in Nat /\ i + 1 <= call.count /\ sector' = i + 1
      /\ i + 1 < call.count => stage' = "DRQ"
      /\ i + 1 = call.count => stage' = "BSY"
  BY <1>1, <1>2, <1>4, LoopTyped
<1>6. Progress'
  <2> SUFFICES ASSUME sent = "clean", Addressable
               PROVE  (selected = call.drive /\ Storing(sector))'
    BY <1>1, <1>2, <1>5 DEF Progress, Addressable
  <2>1. selected = e /\ Running(i) /\ dev[e].phase = "data"
    BY <1>0, <1>1 DEF Progress, MaySee, Refused, Storing, Target
  <2>2. /\ dev[e].cmd = "write" /\ dev[e].lba = call.lba + i
        /\ dev[e].left = call.count - i /\ Stored(i)
    BY <1>1, <2>1 DEF Running, At, Target
  <2>3. dev[e] \in Command
    BY <1>0, <1>2 DEF DiskTyped
  <2>4. dev'[e] = [dev[e] EXCEPT !.phase = "busy", !.word = w]
    BY <1>0, <1>1, <1>2, <2>1, <2>2 DEF DiskTyped
  <2>5. /\ Target'.phase = "busy" /\ Target'.cmd = "write" /\ Target'.word = w
        /\ Target'.lba = call.lba + i /\ Target'.left = call.count - i
    <3>1. Target' = dev'[e]
      BY <1>1 DEF Target
    <3>2. dev'[e].phase = "busy" /\ dev'[e].word = w
      BY <2>3, <2>4 DEF Command
    <3>3. /\ dev'[e].cmd = dev[e].cmd /\ dev'[e].lba = dev[e].lba
          /\ dev'[e].left = dev[e].left
      BY <2>3, <2>4 DEF Command
    <3> QED
      BY <2>2, <3>1, <3>2, <3>3
  <2>6. sector' - 1 = i /\ sector' > 0
    BY <1>5
  <2> QED
    BY <1>1, <2>1, <2>2, <2>5, <2>6 DEF Storing, At, Stored, w
<1> QED
  BY <1>4, <1>5, <1>6 DEF DiskInv

-----------------------------------------------------------------------------
LEMMA DiskInitEstablishes == DiskInit => DiskInv
<1> SUFFICES ASSUME DiskInit PROVE DiskInv
  OBVIOUS
<1>1. dev \in [Drives -> Command]
  BY CommandFields DEF DiskInit
<1>2. disk \in [Drives -> [0..(Sectors - 1) -> Contents]]
  BY DEF DiskInit, Contents
<1>3. DiskTyped
  BY <1>1, <1>2, NoCallTyped, DiskAssumption DEF DiskInit, DiskTyped
<1>4. CallTyped
  BY DiskAssumption DEF DiskInit, CallTyped, InCall, NoCall
<1> QED
  BY <1>3, <1>4 DEF DiskInv, Progress, DiskInit

LEMMA DiskStepPreserves == DiskInv /\ [DiskNext]_diskVars => DiskInv'
<1> SUFFICES ASSUME DiskInv, [DiskNext]_diskVars PROVE DiskInv'
  OBVIOUS
<1>1. CASE DriveSteps
  BY <1>1, ServesTyped, ServesProgress DEF DriveSteps, DiskInv
<1>2. CASE Calls
  BY <1>2, CallsKeep
<1>3. CASE Complains
  BY <1>3, DetectionKeeps, AnswersKeep DEF Complains
<1>4. CASE Proceeds
  BY <1>4, DetectionKeeps, AnswersKeep, SendKeeps, ReadKeeps, WriteKeeps DEF Proceeds
<1>5. CASE UNCHANGED diskVars
  BY <1>5 DEF diskVars, driverVars, DiskInv, DiskTyped, CallTyped, InCall, Progress, Addressable,
              Refused, Running, Storing, Complete, Target, At, Stored
<1> QED
  BY <1>1, <1>2, <1>3, <1>4, <1>5 DEF DiskNext

(* Whoever moves, the disk driver and its drives take a step or none. *)
LEMMA DiskStep == [DriversNext]_deviceVars => [DiskNext]_diskVars
  BY DEF DriversNext, DiskProceeds, DiskCalled, DiskComplains, DrivesWork, ThreadPrints, Handler,
         Writer, Uart, DiskNext, deviceVars

(* disk_read_sectors and disk_write_sectors that return 0, after a command *)
(* to a drive that was executing none, have moved every sector and left    *)
(* the drive free, unless it refused the end of a write.                   *)
THEOREM SuccessMovesEverySector == DriversSpec => []CallDelivers
<1>1. DriversInit => DiskInv
  BY DiskInitEstablishes DEF DriversInit
<1>2. DiskInv /\ [DriversNext]_deviceVars => DiskInv'
  BY DiskStep, DiskStepPreserves
<1>3. DiskInv => CallDelivers
  BY DEF DiskInv, Progress, CallDelivers, Complete, Refused, Target, Stored, SectorsAgree, Free
<1> QED
  BY <1>1, <1>2, <1>3, PTL DEF DriversSpec
=============================================================================
