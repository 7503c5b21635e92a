--------------------------- MODULE KeyboardProofs ---------------------------
(***************************************************************************)
(* Proofs about Keyboard.  For a buffer of any size and a device that      *)
(* sends any bytes, the index and the count of the ring buffer describe a  *)
(* queue that loses its oldest event when it is full.  For any keys whose  *)
(* scan codes are those of the tables, the decoder tells plain keys as     *)
(* they were typed, and one of them puts its prefix flags right.           *)
(***************************************************************************)
EXTENDS KeyboardQueue, TLAPS

N == MAX_KEYBOARD_BUFF_SIZE
Slots == 0 .. N - 1

\* What the ring buffer holds: events, and NoEvent where none was put yet.
Entries == [keycode : Keycodes \cup {"KEY_NONE"}, is_released : BOOLEAN]

RingOk ==
  /\ keyboard_event_buff \in [Slots -> Entries]
  /\ event_buff_idx \in Slots
  /\ event_count \in 0 .. N
  /\ keyboard_callback \in BOOLEAN

\* RingContents for any buffer, index and count.
Contents(b, i, n) == [k \in 1 .. n |-> b[(Oldest(i, n) + k - 1) % N]]

-----------------------------------------------------------------------------
\* What the remainders of the index arithmetic are.
LEMMA ModFacts ==
  /\ N \in Nat /\ N > 0
  /\ \A a \in Slots : a % N = a
  /\ \A a \in N .. 2 * N - 1 : a % N = a - N
<1>1. N \in Nat /\ N > 0
  BY KeyboardAssumption DEF N
<1>2. ASSUME NEW a \in Slots PROVE a % N = a
  BY <1>1 DEF Slots
<1>3. ASSUME NEW a \in N .. 2 * N - 1 PROVE a % N = a - N
  BY <1>1
<1>4. QED BY <1>1, <1>2, <1>3

\* Where the k-th oldest of n events is, the index being i.
LEMMA SlotFacts ==
  ASSUME NEW i \in Slots, NEW n \in 0 .. N, NEW k \in 1 .. n
  PROVE  /\ (Oldest(i, n) + k - 1) % N \in Slots
         /\ (Oldest(i, n) + k - 1) % N =
              IF i - n + k - 1 >= 0 THEN i - n + k - 1 ELSE i - n + k - 1 + N
<1>1. Oldest(i, n) = IF i >= n /\ n > 0 THEN i - n
                     ELSE IF n = 0 THEN i ELSE i - n + N
  BY ModFacts DEF Oldest, Slots, N
<1>2. CASE i >= n
  <2>1. Oldest(i, n) = i - n
    BY <1>1, <1>2, ModFacts DEF Slots
  <2>2. i - n + k - 1 \in Slots
    BY <1>2, ModFacts DEF Slots
  <2>3. QED BY <2>1, <2>2, ModFacts DEF Slots
<1>3. CASE i < n
  <2>1. Oldest(i, n) = i - n + N
    BY <1>1, <1>3, ModFacts DEF Slots
  <2>2. CASE i - n + k - 1 >= 0
    <3>1. i - n + N + k - 1 \in N .. 2 * N - 1
      BY <2>2, ModFacts DEF Slots
    <3>2. (i - n + N + k - 1) % N = i - n + k - 1
      BY <3>1, ModFacts DEF Slots
    <3>3. QED BY <2>1, <2>2, <3>2, ModFacts DEF Slots
  <2>3. CASE i - n + k - 1 < 0
    <3>1. i - n + N + k - 1 \in Slots
      BY <1>3, <2>3, ModFacts DEF Slots
    <3>2. QED BY <2>1, <2>3, <3>1, ModFacts DEF Slots
  <2>4. QED BY <2>2, <2>3, ModFacts DEF Slots
<1>4. QED BY <1>2, <1>3, ModFacts DEF Slots

LEMMA ContentsType ==
  ASSUME NEW b \in [Slots -> Entries], NEW i \in Slots, NEW n \in 0 .. N
  PROVE  /\ Contents(b, i, n) \in Seq(Entries)
         /\ Len(Contents(b, i, n)) = n
         /\ DOMAIN Contents(b, i, n) = 1 .. n
<1>1. \A k \in 1 .. n : b[(Oldest(i, n) + k - 1) % N] \in Entries
  BY SlotFacts
<1>2. n \in Nat
  BY ModFacts
<1>3. QED BY <1>1, <1>2 DEF Contents

\* An event written at the index goes behind the others, and takes the place of
\* the oldest one if the buffer is full.
LEMMA PushFacts ==
  ASSUME NEW b \in [Slots -> Entries], NEW i \in Slots, NEW n \in 0 .. N,
         NEW e \in Entries
  PROVE  Contents([b EXCEPT ![i] = e], (i + 1) % N, CountAfterPush(n)) =
           IF n < N THEN Append(Contents(b, i, n), e)
           ELSE Append(Tail(Contents(b, i, n)), e)
<1> DEFINE b2 == [b EXCEPT ![i] = e]
           i2 == (i + 1) % N
           n2 == CountAfterPush(n)
           c  == Contents(b, i, n)
           c2 == Contents(b2, i2, n2)
<1>1. /\ i2 = (IF i = N - 1 THEN 0 ELSE i + 1)
      /\ i2 \in Slots
  BY ModFacts DEF Slots
<1>2. n2 = (IF n < N THEN n + 1 ELSE N) /\ n2 \in 0 .. N /\ n2 >= 1
  BY ModFacts DEF CountAfterPush, N
<1>3. b2 \in [Slots -> Entries]
  OBVIOUS
<1>4. /\ c \in Seq(Entries) /\ Len(c) = n /\ DOMAIN c = 1 .. n
      /\ c2 \in Seq(Entries) /\ Len(c2) = n2 /\ DOMAIN c2 = 1 .. n2
  <2>1. c \in Seq(Entries) /\ Len(c) = n /\ DOMAIN c = 1 .. n
    BY ContentsType
  <2>2. c2 \in Seq(Entries) /\ Len(c2) = n2 /\ DOMAIN c2 = 1 .. n2
    <3> HIDE DEF b2, i2, n2
    <3>1. QED BY <1>1, <1>2, <1>3, ContentsType
  <2> HIDE DEF c, c2
  <2>3. QED BY <2>1, <2>2
<1>5. \A k \in 1 .. n : c[k] = b[IF i - n + k - 1 >= 0 THEN i - n + k - 1
                                 ELSE i - n + k - 1 + N]
  <2> SUFFICES ASSUME NEW k \in 1 .. n
               PROVE  c[k] = b[IF i - n + k - 1 >= 0 THEN i - n + k - 1
                               ELSE i - n + k - 1 + N]
    OBVIOUS
  <2>1. QED BY SlotFacts DEF Contents
<1>6. \A k \in 1 .. n2 : c2[k] = b2[IF i2 - n2 + k - 1 >= 0 THEN i2 - n2 + k - 1
                                    ELSE i2 - n2 + k - 1 + N]
  <2> HIDE DEF b2, i2, n2
  <2> SUFFICES ASSUME NEW k \in 1 .. n2
               PROVE  c2[k] = b2[IF i2 - n2 + k - 1 >= 0 THEN i2 - n2 + k - 1
                                 ELSE i2 - n2 + k - 1 + N]
    OBVIOUS
  <2>1. QED BY <1>1, <1>2, SlotFacts DEF Contents
<1>7. \A s \in Slots : b2[s] = IF s = i THEN e ELSE b[s]
  OBVIOUS
<1> HIDE DEF b2, i2, n2, c, c2
<1>8. CASE n < N
  <2>1. c2[n + 1] = e
    <3>1. n2 = n + 1
      BY <1>2, <1>8
    <3>2. c2[n + 1] = b2[IF i2 - 1 >= 0 THEN i2 - 1 ELSE i2 - 1 + N]
      BY <1>1, <1>6, <3>1, ModFacts DEF Slots
    <3>3. (IF i2 - 1 >= 0 THEN i2 - 1 ELSE i2 - 1 + N) = i
      BY <1>1, ModFacts DEF Slots
    <3>4. QED BY <1>7, <3>2, <3>3
  <2>2. ASSUME NEW k \in 1 .. n PROVE c2[k] = c[k]
    <3> DEFINE s  == IF i - n + k - 1 >= 0 THEN i - n + k - 1 ELSE i - n + k - 1 + N
               s2 == IF i2 - n2 + k - 1 >= 0 THEN i2 - n2 + k - 1
                     ELSE i2 - n2 + k - 1 + N
    <3>1. s2 = s /\ s \in Slots /\ s # i
      BY <1>1, <1>2, <1>8, ModFacts DEF Slots
    <3>2. c2[k] = b2[s2]
      BY <1>2, <1>6, <1>8, ModFacts
    <3>3. c[k] = b[s]
      BY <1>5
    <3>4. QED BY <1>7, <3>1, <3>2, <3>3
  <2>3. c2 = Append(c, e)
    BY <1>2, <1>4, <1>8, <2>1, <2>2
  <2>4. QED BY <1>8, <2>3 DEF b2, i2, n2, c, c2
<1>9. CASE n = N
  <2>1. c2[n] = e
    <3>1. n2 = n
      BY <1>2, <1>9
    <3>2. c2[n] = b2[IF i2 - 1 >= 0 THEN i2 - 1 ELSE i2 - 1 + N]
      BY <1>1, <1>6, <1>9, <3>1, ModFacts DEF Slots
    <3>3. (IF i2 - 1 >= 0 THEN i2 - 1 ELSE i2 - 1 + N) = i
      BY <1>1, ModFacts DEF Slots
    <3>4. QED BY <1>7, <3>2, <3>3
  <2>2. ASSUME NEW k \in 1 .. n - 1 PROVE c2[k] = c[k + 1]
    <3> DEFINE s  == IF i - n + k >= 0 THEN i - n + k ELSE i - n + k + N
               s2 == IF i2 - n2 + k - 1 >= 0 THEN i2 - n2 + k - 1
                     ELSE i2 - n2 + k - 1 + N
    <3>1. s2 = s /\ s \in Slots /\ s # i
      BY <1>1, <1>2, <1>9, ModFacts DEF Slots
    <3>2. c2[k] = b2[s2]
      BY <1>2, <1>6, <1>9, ModFacts
    <3>3. k + 1 \in 1 .. n /\ i - n + (k + 1) - 1 = i - n + k
      BY <1>9, ModFacts DEF Slots
    <3>4. c[k + 1] = b[s]
      BY <1>5, <3>3
    <3>5. QED BY <1>7, <3>1, <3>2, <3>4
  <2>3. /\ Tail(c) \in Seq(Entries) /\ Len(Tail(c)) = n - 1
        /\ \A k \in 1 .. n - 1 : Tail(c)[k] = c[k + 1]
    BY <1>4, <1>9, ModFacts
  <2>4. c2 = Append(Tail(c), e)
    BY <1>2, <1>4, <1>9, <2>1, <2>2, <2>3, ModFacts
  <2>5. ~(n < N)
    BY <1>9, ModFacts
  <2>6. QED BY <2>4, <2>5 DEF b2, i2, n2, c, c2
<1>10. n < N \/ n = N
  BY ModFacts
<1>11. QED BY <1>8, <1>9, <1>10

\* Taking the oldest event leaves the others.
LEMMA PopFacts ==
  ASSUME NEW b \in [Slots -> Entries], NEW i \in Slots, NEW n \in 1 .. N
  PROVE  /\ Contents(b, i, n - 1) = Tail(Contents(b, i, n))
         /\ Head(Contents(b, i, n)) = b[Oldest(i, n)]
<1>1. n - 1 \in 0 .. N /\ n \in 0 .. N /\ n \in Nat
  BY ModFacts
<1> DEFINE c == Contents(b, i, n)
           d == Contents(b, i, n - 1)
<1>2. /\ c \in Seq(Entries) /\ Len(c) = n
      /\ d \in Seq(Entries) /\ Len(d) = n - 1
  BY <1>1, ContentsType
<1>3. ASSUME NEW k \in 1 .. n - 1 PROVE d[k] = c[k + 1]
  <2>1. k + 1 \in 1 .. n
    BY <1>1
  <2>2. (Oldest(i, n - 1) + k - 1) % N = (Oldest(i, n) + (k + 1) - 1) % N
    <3>1. k \in 1 .. n - 1 /\ i - (n - 1) + k - 1 = i - n + (k + 1) - 1
      BY <1>1, ModFacts DEF Slots
    <3>2. (Oldest(i, n - 1) + k - 1) % N =
            IF i - (n - 1) + k - 1 >= 0 THEN i - (n - 1) + k - 1
            ELSE i - (n - 1) + k - 1 + N
      BY <1>1, <3>1, SlotFacts
    <3>3. (Oldest(i, n) + (k + 1) - 1) % N =
            IF i - n + (k + 1) - 1 >= 0 THEN i - n + (k + 1) - 1
            ELSE i - n + (k + 1) - 1 + N
      BY <1>1, <2>1, SlotFacts
    <3>4. QED BY <3>1, <3>2, <3>3
  <2>3. QED BY <2>1, <2>2 DEF Contents
<1>4. c[1] = b[Oldest(i, n)]
  <2>1. Oldest(i, n) \in Slots
    BY <1>1, ModFacts DEF Oldest, Slots, N
  <2>2. (Oldest(i, n) + 1 - 1) % N = Oldest(i, n)
    BY <2>1, ModFacts DEF Slots
  <2>3. QED BY <1>1, <2>2 DEF Contents
<1> HIDE DEF c, d
<1>5. d = Tail(c)
  BY <1>1, <1>2, <1>3
<1>6. Head(c) = c[1]
  BY <1>1, <1>2
<1>7. QED BY <1>4, <1>5, <1>6 DEF c, d

-----------------------------------------------------------------------------
\* What the decoder hands to the ring buffer is an event with a name.
LEMMA TranslateFacts ==
  ASSUME NEW d, NEW scancode,
         d.is_released \in BOOLEAN,
         Translate(d, scancode).event.keycode \notin {"KEY_NONE", "KEY_UNKNOWN"}
  PROVE  Translate(d, scancode).event \in [keycode : Keycodes, is_released : BOOLEAN]
<1> DEFINE t == Translate(d, scancode)
<1>1. CASE t = Result(AfterKey(d, scancode), KeyEvent(d, scancode))
  <2>1. t.event = KeyEvent(d, scancode)
    BY <1>1 DEF Result
  <2>2. KeyEvent(d, scancode).keycode \in Keycodes
    <3>1. t.event.keycode \notin {"KEY_NONE", "KEY_UNKNOWN"}
      OBVIOUS
    <3>2. QED BY <2>1, <3>1 DEF KeyEvent, Event, TableKey, Keycodes
  <2>3. QED BY <2>1, <2>2 DEF KeyEvent, Event
<1>2. CASE t.event = NoEvent
  BY <1>2 DEF NoEvent, Event
<1>3. CASE t.event \in [keycode : {"KEY_PRINT_SCREEN", "KEY_PLAY_PAUSE"},
                        is_released : BOOLEAN]
  BY <1>3 DEF Keycodes
<1>4. QED
  BY <1>1, <1>2, <1>3
     DEF Translate, Result, TranslatePrintScreen, TranslatePause, Event

DecoderOk ==
  /\ wire \in Seq(Scancodes)
  /\ decoder \in [is_extended : BOOLEAN, is_released : BOOLEAN,
                  pause_sequence_idx : 0 .. Len(pause_sequence) - 1,
                  pressed_pending : BOOLEAN, released_pending : BOOLEAN]

IInv == RingOk /\ DecoderOk

LEMMA TranslateKeepsDecoder ==
  ASSUME NEW scancode, DecoderOk
  PROVE  Translate(decoder, scancode).decoder \in
           [is_extended : BOOLEAN, is_released : BOOLEAN,
            pause_sequence_idx : 0 .. Len(pause_sequence) - 1,
            pressed_pending : BOOLEAN, released_pending : BOOLEAN]
<1>1. Len(pause_sequence) = 8
  BY DEF pause_sequence
<1> DEFINE D == [is_extended : BOOLEAN, is_released : BOOLEAN,
                 pause_sequence_idx : 0 .. 7,
                 pressed_pending : BOOLEAN, released_pending : BOOLEAN]
<1>2. decoder \in D
  BY <1>1 DEF DecoderOk
<1>3. /\ [decoder EXCEPT !.is_extended = TRUE] \in D
      /\ [decoder EXCEPT !.is_released = TRUE] \in D
  BY <1>2
<1>4. TranslatePrintScreen(decoder, scancode).decoder \in D
  BY <1>2 DEF TranslatePrintScreen, Result
<1>5. TranslatePause(decoder).decoder \in D
  <2>1. decoder.pause_sequence_idx + 1 # 8 =>
          [decoder EXCEPT !.pause_sequence_idx = @ + 1] \in D
    BY <1>2
  <2>2. [decoder EXCEPT !.pause_sequence_idx = 0,
                        !.is_extended = FALSE, !.is_released = FALSE] \in D
    <3> DEFINE d == [decoder EXCEPT !.pause_sequence_idx = 0]
               f == [d EXCEPT !.is_extended = FALSE]
    <3>1. d \in D
      BY <1>2
    <3> HIDE DEF d
    <3>2. f \in D
      BY <3>1
    <3> HIDE DEF f
    <3>3. [f EXCEPT !.is_released = FALSE] \in D
      BY <3>2
    <3>4. QED BY <3>3 DEF d, f
  <2> HIDE DEF D
  <2>3. QED BY <1>1, <2>1, <2>2 DEF TranslatePause, Result
<1>6. AfterKey(decoder, scancode) \in D
  <2>1. (scancode = \h12) \in BOOLEAN /\ (scancode = \h7C) \in BOOLEAN
    OBVIOUS
  <2>2. QED BY <1>2, <2>1 DEF AfterKey
<1> HIDE DEF D
<1>7. Translate(decoder, scancode).decoder \in D
  BY <1>3, <1>4, <1>5, <1>6 DEF Translate, Result
<1>8. QED BY <1>1, <1>7 DEF D

LEMMA InitEstablishes == Init => IInv
<1> SUFFICES ASSUME Init PROVE IInv
  OBVIOUS
<1>1. RingOk
  <2>1. NoEvent \in Entries
    BY DEF NoEvent, Event, Entries
  <2>2. keyboard_event_buff = [i \in Slots |-> NoEvent]
    BY DEF Init, Slots, N
  <2>3. 0 \in Slots /\ 0 \in 0 .. N
    BY ModFacts DEF Slots
  <2>4. QED BY <2>1, <2>2, <2>3 DEF Init, RingOk
<1>2. DecoderOk
  BY DEF Init, DecoderOk, pause_sequence
<1>3. QED BY <1>1, <1>2 DEF IInv

\* An event has been put into the buffer, and taken out if there is a callback.
LEMMA IrqEventFacts ==
  ASSUME IInv, IrqEvent
  PROVE  \E e \in [keycode : Keycodes, is_released : BOOLEAN] :
           LET n == CountAfterPush(event_count) IN
           /\ keyboard_event_buff' = [keyboard_event_buff EXCEPT ![event_buff_idx] = e]
           /\ event_buff_idx' = (event_buff_idx + 1) % N
           /\ event_buff_idx' \in Slots
           /\ n \in 1 .. N
           /\ e \in Entries
           /\ keyboard_event_buff' \in [Slots -> Entries]
           /\ \/ /\ keyboard_callback
                 /\ event_count' = n - 1
                 /\ delivered' =
                      Append(delivered, keyboard_event_buff'[Oldest(event_buff_idx', n)])
              \/ /\ ~keyboard_callback
                 /\ event_count' = n
                 /\ delivered' = delivered
           /\ keyboard_callback' = keyboard_callback
<1> DEFINE e == Translate(decoder, Head(wire)).event
<1>1. e \in [keycode : Keycodes, is_released : BOOLEAN]
  BY TranslateFacts DEF IrqEvent, IInv, DecoderOk
<1>2. e \in Entries
  BY <1>1 DEF Entries
<1> HIDE DEF e
<1>3. /\ keyboard_event_buff' = [keyboard_event_buff EXCEPT ![event_buff_idx] = e]
      /\ event_buff_idx' = (event_buff_idx + 1) % N
      /\ keyboard_callback' = keyboard_callback
  BY DEF IrqEvent, e, N
<1>4. CountAfterPush(event_count) \in 1 .. N
  BY ModFacts DEF IInv, RingOk, CountAfterPush, N
<1>5. keyboard_event_buff' \in [Slots -> Entries]
  BY <1>2, <1>3 DEF IInv, RingOk
<1>6. event_buff_idx' \in Slots
  BY <1>3, ModFacts DEF IInv, RingOk, Slots
<1>7. \/ /\ keyboard_callback
         /\ event_count' = CountAfterPush(event_count) - 1
         /\ delivered' = Append(delivered,
              keyboard_event_buff'[Oldest(event_buff_idx', CountAfterPush(event_count))])
      \/ /\ ~keyboard_callback
         /\ event_count' = CountAfterPush(event_count)
         /\ delivered' = delivered
  BY DEF IrqEvent
<1>8. QED BY <1>1, <1>2, <1>3, <1>4, <1>5, <1>6, <1>7

LEMMA StepPreserves == IInv /\ [Next]_vars => IInv'
<1> SUFFICES ASSUME IInv, [Next]_vars PROVE IInv'
  OBVIOUS
<1>1. CASE IrqNoEvent
  <2>1. RingOk'
    BY <1>1 DEF IInv, RingOk, IrqNoEvent, ring
  <2>2. DecoderOk'
    BY <1>1, TranslateKeepsDecoder DEF IInv, DecoderOk, IrqNoEvent
  <2>3. QED BY <2>1, <2>2 DEF IInv
<1>2. CASE IrqEvent
  <2>1. RingOk'
    BY <1>2, IrqEventFacts, ModFacts DEF IInv, RingOk
  <2>2. DecoderOk'
    BY <1>2, TranslateKeepsDecoder DEF IInv, DecoderOk, IrqEvent
  <2>3. QED BY <2>1, <2>2 DEF IInv
<1>3. CASE InstallEventCallback
  BY <1>3 DEF InstallEventCallback, IInv, RingOk, DecoderOk, ring
<1>4. CASE \E k \in Keys : Press(k) \/ Release(k)
  BY <1>4, KeyboardAssumption DEF Press, Release, IInv, RingOk, DecoderOk, ring
<1>5. CASE UNCHANGED vars
  BY <1>5 DEF vars, ring, IInv, RingOk, DecoderOk
<1>6. QED BY <1>1, <1>2, <1>3, <1>4, <1>5 DEF Next

LEMMA IInvHolds == Spec => []IInv
<1>1. QED BY InitEstablishes, StepPreserves, PTL DEF Spec

(***************************************************************************)
(* The decoder's state and the ring buffer keep their types: no byte, and  *)
(* no number of events before the callback is installed or after it, takes *)
(* the index or the count out of the buffer (keyboard.c:557-614).          *)
(***************************************************************************)
THEOREM TypeCorrect == Spec => []TypeOK
<1>1. IInv => TypeOK
  BY ModFacts DEF IInv, RingOk, DecoderOk, TypeOK, Slots, N
<1>2. QED BY <1>1, IInvHolds, PTL

-----------------------------------------------------------------------------
LEMMA ContentsIsRing ==
  RingContents = Contents(keyboard_event_buff, event_buff_idx, event_count)
BY DEF RingContents, Contents, N

LEMMA StepRefines ==
  ASSUME IInv, IInv', [Next]_vars
  PROVE  [Q!Next]_Q!vars
<1>1. CASE UNCHANGED <<ring, delivered>> /\ UNCHANGED keyboard_callback
  <2>1. RingContents' = RingContents
    BY <1>1 DEF ring, RingContents
  <2>2. QED BY <1>1, <2>1 DEF Q!vars
<1>2. CASE InstallEventCallback
  <2>1. RingContents' = RingContents
    BY <1>2 DEF InstallEventCallback, ring, RingContents
  <2>2. Q!Listen
    BY <1>2, <2>1 DEF InstallEventCallback, Q!Listen
  <2>3. QED BY <2>2 DEF Q!Next
<1>3. CASE IrqEvent
  <2> DEFINE n == CountAfterPush(event_count)
  <2>1. PICK e \in [keycode : Keycodes, is_released : BOOLEAN] :
           /\ keyboard_event_buff' = [keyboard_event_buff EXCEPT ![event_buff_idx] = e]
           /\ event_buff_idx' = (event_buff_idx + 1) % N
           /\ event_buff_idx' \in Slots
           /\ n \in 1 .. N
           /\ e \in Entries
           /\ keyboard_event_buff' \in [Slots -> Entries]
           /\ \/ /\ keyboard_callback
                 /\ event_count' = n - 1
                 /\ delivered' =
                      Append(delivered, keyboard_event_buff'[Oldest(event_buff_idx', n)])
              \/ /\ ~keyboard_callback
                 /\ event_count' = n
                 /\ delivered' = delivered
           /\ keyboard_callback' = keyboard_callback
    BY <1>3, IrqEventFacts
  <2> HIDE DEF n
  <2>2. Contents(keyboard_event_buff', event_buff_idx', n) = Q!With(e)
    <3>1. Len(RingContents) = event_count
      BY ContentsIsRing, ContentsType DEF IInv, RingOk
    <3>2. Contents(keyboard_event_buff', event_buff_idx', n) =
            IF event_count < N THEN Append(RingContents, e)
            ELSE Append(Tail(RingContents), e)
      <4>1. Contents([keyboard_event_buff EXCEPT ![event_buff_idx] = e],
                     (event_buff_idx + 1) % N, CountAfterPush(event_count)) =
              IF event_count < N
              THEN Append(Contents(keyboard_event_buff, event_buff_idx, event_count), e)
              ELSE Append(Tail(Contents(keyboard_event_buff, event_buff_idx,
                                        event_count)), e)
        <5>1. /\ keyboard_event_buff \in [Slots -> Entries]
              /\ event_buff_idx \in Slots /\ event_count \in 0 .. N
              /\ e \in Entries
          BY <2>1 DEF IInv, RingOk
        <5>2. QED BY <5>1, PushFacts
      <4>2. QED BY <2>1, <4>1, ContentsIsRing DEF n
    <3>3. QED BY <3>1, <3>2 DEF Q!With, N
  <2>3. RingContents' = Contents(keyboard_event_buff', event_buff_idx', event_count')
    BY DEF RingContents, Contents, Oldest, N
  <2>4. CASE keyboard_callback
    <3>1. /\ RingContents' = Tail(Q!With(e))
          /\ keyboard_event_buff'[Oldest(event_buff_idx', n)] = Head(Q!With(e))
      <4>1. /\ Contents(keyboard_event_buff', event_buff_idx', n - 1) =
                 Tail(Contents(keyboard_event_buff', event_buff_idx', n))
            /\ Head(Contents(keyboard_event_buff', event_buff_idx', n)) =
                 keyboard_event_buff'[Oldest(event_buff_idx', n)]
        BY <2>1, PopFacts
      <4>2. QED BY <2>1, <2>2, <2>3, <2>4, <4>1
    <3>2. Q!Hand(e)
      BY <2>1, <2>4, <3>1 DEF Q!Hand
    <3>3. QED BY <3>2 DEF Q!Next
  <2>5. CASE ~keyboard_callback
    <3>1. Q!Wait(e)
      BY <2>1, <2>2, <2>3, <2>5 DEF Q!Wait
    <3>2. QED BY <3>1 DEF Q!Next
  <2>6. QED BY <2>4, <2>5
<1>4. CASE IrqNoEvent
  BY <1>1, <1>4 DEF IrqNoEvent
<1>5. CASE \E k \in Keys : Press(k) \/ Release(k)
  BY <1>1, <1>5 DEF Press, Release
<1>6. CASE UNCHANGED vars
  BY <1>1, <1>6 DEF vars
<1>7. QED BY <1>2, <1>3, <1>4, <1>5, <1>6 DEF Next

(***************************************************************************)
(* The ring buffer implements EventQueue for every size of the buffer and  *)
(* every stream of bytes (keyboard.c:565-572 and 609-614): the remainders  *)
(* of the index arithmetic never name another event than the oldest.       *)
(***************************************************************************)
THEOREM RingImplementsEventQueue == Spec => ImplementsEventQueue
<1>1. Init => Q!Init
  BY DEF Init, Q!Init, RingContents
<1>2. IInv /\ IInv' /\ [Next]_vars => [Q!Next]_Q!vars
  BY StepRefines
<1>3. QED BY <1>1, <1>2, IInvHolds, PTL DEF Spec, Q!Spec, ImplementsEventQueue

-----------------------------------------------------------------------------
(***************************************************************************)
(* The decoder                                                             *)
(***************************************************************************)

PrefixBytes == {\hE0, \hE1, \hF0}
NoCode == {"KEY_NONE", "KEY_UNKNOWN"}
Decoders ==
  [is_extended : BOOLEAN, is_released : BOOLEAN,
   pause_sequence_idx : 0 .. Len(pause_sequence) - 1,
   pressed_pending : BOOLEAN, released_pending : BOOLEAN]

\* What a byte does to the flags and to the place in the sequence of Pause.
LEMMA PrefixFacts ==
  ASSUME NEW d \in Decoders
  PROVE  /\ Translate(d, \hE0).event = NoEvent
         /\ Translate(d, \hE0).decoder = [d EXCEPT !.is_extended = TRUE]
         /\ Translate(d, \hF0).event = NoEvent
         /\ Translate(d, \hF0).decoder = [d EXCEPT !.is_released = TRUE]
BY DEF Translate, Result

LEMMA KeyFacts ==
  ASSUME NEW d \in Decoders, NEW s, s \notin PrefixBytes,
         ~PrintScreen(d, s), ~InPauseSequence(d, s)
  PROVE  /\ Translate(d, s).event = KeyEvent(d, s)
         /\ Translate(d, s).decoder = AfterKey(d, s)
BY DEF Translate, Result, PrefixBytes

\* Only E1 begins the sequence of Pause.
LEMMA IdleFacts ==
  ASSUME NEW d \in Decoders, d.pause_sequence_idx = 0, NEW s, s # \hE1
  PROVE  /\ ~InPauseSequence(d, s)
         /\ Translate(d, s).decoder.pause_sequence_idx = 0
<1>1. ~InPauseSequence(d, s)
  BY DEF InPauseSequence, pause_sequence
<1>2. TranslatePrintScreen(d, s).decoder.pause_sequence_idx = 0
  BY DEF TranslatePrintScreen, Result, Decoders
<1>3. AfterKey(d, s).pause_sequence_idx = 0
  BY DEF AfterKey
<1>4. /\ [d EXCEPT !.is_extended = TRUE].pause_sequence_idx = 0
      /\ [d EXCEPT !.is_released = TRUE].pause_sequence_idx = 0
  BY DEF Decoders
<1> QED BY <1>1, <1>2, <1>3, <1>4 DEF Translate, Result

\* A byte read from the wire.
LEMMA ByteStep ==
  ASSUME IInv, IrqNoEvent \/ IrqEvent
  PROVE  /\ wire # <<>> /\ wire' = Tail(wire)
         /\ decoder \in Decoders /\ decoder' \in Decoders
         /\ decoder' = Translate(decoder, Head(wire)).decoder
         /\ typed' = typed
         /\ decoded' = IF Translate(decoder, Head(wire)).event.keycode \in NoCode
                       THEN decoded
                       ELSE Append(decoded, Translate(decoder, Head(wire)).event)
<1>1. decoder \in Decoders
  BY DEF IInv, DecoderOk, Decoders
<1>2. Translate(decoder, Head(wire)).decoder \in Decoders
  BY TranslateKeepsDecoder DEF IInv, Decoders
<1>3. CASE IrqNoEvent
  BY <1>1, <1>2, <1>3 DEF IrqNoEvent, NoCode
<1>4. CASE IrqEvent
  BY <1>1, <1>2, <1>4 DEF IrqEvent, NoCode
<1> QED BY <1>3, <1>4

-----------------------------------------------------------------------------
(***************************************************************************)
(* Where the decoder is in the sequence of Pause: nowhere, or as far as    *)
(* the bytes of Pause that have been read took it.  Its first F0 is read   *)
(* as the prefix of a release, and the byte behind it ends the match.      *)
(***************************************************************************)

NoPauseByte(w) == \A i \in 1 .. Len(w) : w[i] # \hE1

PauseOk ==
  \/ decoder.pause_sequence_idx = 0 /\ NoPauseByte(wire)
  \/ decoder.pause_sequence_idx = 0 /\ wire = pause_sequence
  \/ /\ decoder.pause_sequence_idx = 1
     /\ wire = <<\h14, \h77, \hE1, \hF0, \h14, \hF0, \h77>>
  \/ /\ decoder.pause_sequence_idx = 2
     /\ wire = <<\h77, \hE1, \hF0, \h14, \hF0, \h77>>
  \/ /\ decoder.pause_sequence_idx = 3
     /\ wire = <<\hE1, \hF0, \h14, \hF0, \h77>>
  \/ /\ decoder.pause_sequence_idx = 4
     /\ wire = <<\hF0, \h14, \hF0, \h77>>
  \/ /\ decoder.pause_sequence_idx = 4
     /\ wire = <<\h14, \hF0, \h77>>

LEMMA PauseByte ==
  ASSUME NEW d \in Decoders, NEW s, s \notin {\hE0, \hF0, \h12, \h7C},
         InPauseSequence(d, s), d.pause_sequence_idx < 7
  PROVE  Translate(d, s).decoder.pause_sequence_idx = d.pause_sequence_idx + 1
<1>1. ~PrintScreen(d, s)
  BY DEF PrintScreen
<1>2. Translate(d, s) = TranslatePause(d)
  BY <1>1 DEF Translate
<1>3. d.pause_sequence_idx + 1 # Len(pause_sequence)
  BY DEF pause_sequence, Decoders
<1> QED BY <1>2, <1>3 DEF TranslatePause, Result, Decoders

LEMMA PauseByteStep ==
  ASSUME IInv, PauseOk, IrqNoEvent \/ IrqEvent
  PROVE  PauseOk'
<1> DEFINE s == Head(wire)
           i == decoder.pause_sequence_idx
<1>1. /\ wire # <<>> /\ wire' = Tail(wire) /\ wire \in Seq(Scancodes)
      /\ decoder \in Decoders
      /\ decoder'.pause_sequence_idx = Translate(decoder, s).decoder.pause_sequence_idx
  BY ByteStep DEF IInv, DecoderOk
<1> HIDE DEF s
<1>2. CASE i = 0 /\ NoPauseByte(wire)
  <2>1. s # \hE1
    BY <1>1, <1>2 DEF NoPauseByte, s
  <2>2. decoder'.pause_sequence_idx = 0
    BY <1>1, <1>2, <2>1, IdleFacts
  <2>3. NoPauseByte(wire)'
    BY <1>1, <1>2 DEF NoPauseByte
  <2> QED BY <2>2, <2>3 DEF PauseOk
<1>3. ASSUME i < 4, s \notin {\hE0, \hF0, \h12, \h7C}, s = pause_sequence[i + 1]
      PROVE  decoder'.pause_sequence_idx = i + 1
  <2>1. InPauseSequence(decoder, s)
    BY <1>3 DEF InPauseSequence
  <2>2. decoder.pause_sequence_idx < 7
    BY <1>1, <1>3 DEF Decoders, pause_sequence
  <2>3. Translate(decoder, s).decoder.pause_sequence_idx = i + 1
    BY <1>1, <1>3, <2>1, <2>2, PauseByte
  <2> QED BY <1>1, <2>3
<1>4. CASE i = 0 /\ wire = pause_sequence
  <2>1. s = \hE1 /\ wire' = <<\h14, \h77, \hE1, \hF0, \h14, \hF0, \h77>>
    BY <1>1, <1>4 DEF pause_sequence, s
  <2>2. decoder'.pause_sequence_idx = 1
    BY <1>3, <1>4, <2>1 DEF pause_sequence
  <2> QED BY <2>1, <2>2 DEF PauseOk
<1>5. CASE i = 1 /\ wire = <<\h14, \h77, \hE1, \hF0, \h14, \hF0, \h77>>
  <2>1. s = \h14 /\ wire' = <<\h77, \hE1, \hF0, \h14, \hF0, \h77>>
    BY <1>1, <1>5 DEF s
  <2>2. decoder'.pause_sequence_idx = 2
    BY <1>3, <1>5, <2>1 DEF pause_sequence
  <2> QED BY <2>1, <2>2 DEF PauseOk
<1>6. CASE i = 2 /\ wire = <<\h77, \hE1, \hF0, \h14, \hF0, \h77>>
  <2>1. s = \h77 /\ wire' = <<\hE1, \hF0, \h14, \hF0, \h77>>
    BY <1>1, <1>6 DEF s
  <2>2. decoder'.pause_sequence_idx = 3
    BY <1>3, <1>6, <2>1 DEF pause_sequence
  <2> QED BY <2>1, <2>2 DEF PauseOk
<1>7. CASE i = 3 /\ wire = <<\hE1, \hF0, \h14, \hF0, \h77>>
  <2>1. s = \hE1 /\ wire' = <<\hF0, \h14, \hF0, \h77>>
    BY <1>1, <1>7 DEF s
  <2>2. decoder'.pause_sequence_idx = 4
    BY <1>3, <1>7, <2>1 DEF pause_sequence
  <2> QED BY <2>1, <2>2 DEF PauseOk
<1>8. CASE i = 4 /\ wire = <<\hF0, \h14, \hF0, \h77>>
  <2>1. s = \hF0 /\ wire' = <<\h14, \hF0, \h77>>
    BY <1>1, <1>8 DEF s
  <2>2. decoder'.pause_sequence_idx = 4
    <3>1. Translate(decoder, \hF0).decoder = [decoder EXCEPT !.is_released = TRUE]
      BY <1>1, PrefixFacts
    <3>2. [decoder EXCEPT !.is_released = TRUE].pause_sequence_idx = decoder.pause_sequence_idx
      BY <1>1 DEF Decoders
    <3> QED BY <1>1, <1>8, <2>1, <3>1, <3>2
  <2> QED BY <2>1, <2>2 DEF PauseOk
<1>9. CASE i = 4 /\ wire = <<\h14, \hF0, \h77>>
  <2>1. s = \h14 /\ wire' = <<\hF0, \h77>>
    BY <1>1, <1>9 DEF s
  <2>2. ~InPauseSequence(decoder, s)
    BY <1>9, <2>1 DEF InPauseSequence, pause_sequence
  <2>3. ~PrintScreen(decoder, s) /\ s \notin PrefixBytes
    BY <2>1 DEF PrintScreen, PrefixBytes
  <2>4. decoder'.pause_sequence_idx = 0
    <3>1. Translate(decoder, s).decoder = AfterKey(decoder, s)
      BY <1>1, <2>2, <2>3, KeyFacts
    <3>2. AfterKey(decoder, s).pause_sequence_idx = 0
      BY DEF AfterKey
    <3> QED BY <1>1, <3>1, <3>2
  <2>5. NoPauseByte(wire)'
    BY <2>1 DEF NoPauseByte
  <2> QED BY <2>4, <2>5 DEF PauseOk
<1> QED BY <1>2, <1>4, <1>5, <1>6, <1>7, <1>8, <1>9 DEF PauseOk

\* What a key puts on the wire has no byte E1, or is the sequence of Pause.
LEMMA KeyBytes ==
  ASSUME NEW k \in Keys
  PROVE  /\ NoPauseByte(Make[k]) \/ Make[k] = pause_sequence
         /\ NoPauseByte(Break[k])
<1>0. Make[k] \in Seq(Scancodes) /\ Break[k] \in Seq(Scancodes)
  BY KeyboardAssumption
<1>1. CASE \E s \in Scancodes \ PrefixBytes :
             \/ Make[k] = <<s>> /\ Break[k] = <<\hF0, s>>
             \/ Make[k] = <<\hE0, s>> /\ Break[k] = <<\hE0, \hF0, s>>
  BY <1>1 DEF NoPauseByte, PrefixBytes
<1>2. CASE Make[k] = pause_sequence /\ Break[k] = <<>>
  BY <1>2 DEF NoPauseByte
<1>3. CASE \hE1 \notin Range(Make[k]) \cup Range(Break[k])
  BY <1>0, <1>3 DEF NoPauseByte, Range
<1> QED BY <1>1, <1>2, <1>3, ScancodesAssumption DEF PrefixBytes

LEMMA PauseStep == IInv /\ PauseOk /\ [Next]_vars => PauseOk'
<1> SUFFICES ASSUME IInv, PauseOk, [Next]_vars PROVE PauseOk'
  OBVIOUS
<1>1. CASE IrqNoEvent \/ IrqEvent
  BY <1>1, PauseByteStep
<1>2. CASE InstallEventCallback \/ UNCHANGED vars
  BY <1>2 DEF InstallEventCallback, vars, PauseOk
<1>3. ASSUME NEW k \in Keys, Press(k) \/ Release(k) PROVE PauseOk'
  <2>1. wire = <<>> /\ decoder' = decoder /\ wire' \in {Make[k], Break[k]}
    BY <1>3 DEF Press, Release
  <2>2. decoder.pause_sequence_idx = 0
    BY <2>1 DEF PauseOk, pause_sequence
  <2>3. NoPauseByte(wire') \/ wire' = pause_sequence
    BY <2>1, KeyBytes
  <2> QED BY <2>1, <2>2, <2>3 DEF PauseOk
<1> QED BY <1>1, <1>2, <1>3 DEF Next

LEMMA PauseInit == Init => PauseOk
BY DEF Init, PauseOk, NoPauseByte

-----------------------------------------------------------------------------
(***************************************************************************)
(* What a plain key sends, and how far it has been read                    *)
(***************************************************************************)

KeyIs(k, s, extended) ==
  /\ Code[k] \notin NoCode
  /\ Code[k] = TableKey(IF extended THEN ExtendedKeys ELSE NormalKeys, s)
  /\ extended => s \notin {\h12, \h7C}
  /\ Make[k] = IF extended THEN <<\hE0, s>> ELSE <<s>>
  /\ Break[k] = IF extended THEN <<\hE0, \hF0, s>> ELSE <<\hF0, s>>

LEMMA PlainKeyIs ==
  ASSUME NEW k \in PlainKeys
  PROVE  \E s \in Scancodes \ PrefixBytes, extended \in BOOLEAN : KeyIs(k, s, extended)
<1>1. k \in Keys /\ ~(Len(Make[k]) > 2)
  <2>1. Len(Make[k]) \in Nat /\ Len(Make[k]) <= 2
    BY KeyboardAssumption DEF PlainKeys
  <2> QED BY <2>1 DEF PlainKeys
<1>2. PICK s \in Scancodes \ PrefixBytes :
        /\ Code[k] \notin NoCode
        /\ \/ /\ Make[k] = <<s>> /\ Break[k] = <<\hF0, s>>
              /\ Code[k] = TableKey(NormalKeys, s)
           \/ /\ Make[k] = <<\hE0, s>> /\ Break[k] = <<\hE0, \hF0, s>>
              /\ Code[k] = TableKey(ExtendedKeys, s) /\ s \notin {\h12, \h7C}
  BY <1>1, ScancodesAssumption DEF PrefixBytes, NoCode
<1>3. KeyIs(k, s, FALSE) \/ KeyIs(k, s, TRUE)
  BY <1>2 DEF KeyIs
<1> QED BY <1>3

\* The bytes of a plain key that are still on the wire.
Underway(s) == wire \in {<<s>>, <<\hF0, s>>, <<\hE0, s>>, <<\hE0, \hF0, s>>}

LEMMA UnderwayByte ==
  ASSUME IInv, IrqNoEvent \/ IrqEvent, NEW s \in Scancodes \ PrefixBytes, Underway(s)
  PROVE  \/ wire = <<s>> /\ Head(wire) = s /\ wire' = <<>>
         \/ wire # <<s>> /\ Head(wire) \in {\hE0, \hF0} /\ Underway(s)'
<1>1. wire' = Tail(wire)
  BY ByteStep
<1>2. CASE wire = <<s>>
  BY <1>1, <1>2
<1>3. ASSUME NEW b \in {\hE0, \hF0}, wire = <<b, s>>
      PROVE  Head(wire) \in {\hE0, \hF0} /\ Underway(s)' /\ wire # <<s>>
  <2>1. wire' = <<s>> /\ Head(wire) = b
    BY <1>1, <1>3
  <2>2. Len(wire) = 2 /\ Len(<<s>>) = 1
    BY <1>3
  <2> QED BY <2>1, <2>2 DEF Underway
<1>4. CASE wire = <<\hE0, \hF0, s>>
  <2>1. wire' = <<\hF0, s>> /\ Head(wire) = \hE0 /\ wire # <<s>>
    BY <1>1, <1>4
  <2> QED BY <2>1 DEF Underway
<1> QED BY <1>2, <1>3, <1>4 DEF Underway

-----------------------------------------------------------------------------
(***************************************************************************)
(* What is left of a plain key, and the flags of the prefixes read         *)
(***************************************************************************)

Reading(s, extended, released) ==
  \/ /\ wire = <<s>>
     /\ decoder.is_extended = extended /\ decoder.is_released = released
  \/ /\ wire = <<\hF0, s>> /\ released = TRUE
     /\ decoder.is_extended = extended /\ decoder.is_released = FALSE
  \/ /\ wire = IF released THEN <<\hE0, \hF0, s>> ELSE <<\hE0, s>>
     /\ extended = TRUE
     /\ decoder.is_extended = FALSE /\ decoder.is_released = FALSE

SamePending ==
  /\ decoder'.pressed_pending = decoder.pressed_pending
  /\ decoder'.released_pending = decoder.released_pending

\* The next byte is the last of the key, or raises the flag of a prefix.
LEMMA ReadingByte ==
  ASSUME IInv, IrqNoEvent \/ IrqEvent, decoder.pause_sequence_idx = 0,
         NEW s \in Scancodes \ PrefixBytes, NEW extended \in BOOLEAN,
         NEW released \in BOOLEAN, Reading(s, extended, released)
  PROVE  \/ /\ wire = <<s>> /\ Head(wire) = s /\ wire' = <<>>
            /\ decoder.is_extended = extended /\ decoder.is_released = released
         \/ /\ decoded' = decoded /\ SamePending
            /\ decoder'.pause_sequence_idx = 0
            /\ Reading(s, extended, released)'
<1>1. /\ decoder \in Decoders
      /\ wire # <<>> /\ wire' = Tail(wire)
      /\ decoder' = Translate(decoder, Head(wire)).decoder
      /\ decoded' = IF Translate(decoder, Head(wire)).event.keycode \in NoCode
                    THEN decoded
                    ELSE Append(decoded, Translate(decoder, Head(wire)).event)
  BY ByteStep
<1>2. NoEvent.keycode \in NoCode
  BY DEF NoEvent, Event, NoCode
<1>3. CASE /\ wire = <<s>>
           /\ decoder.is_extended = extended /\ decoder.is_released = released
  BY <1>1, <1>3
<1>4. CASE /\ wire = <<\hF0, s>> /\ released = TRUE
           /\ decoder.is_extended = extended /\ decoder.is_released = FALSE
  <2>1. Head(wire) = \hF0 /\ wire' = <<s>>
    BY <1>1, <1>4
  <2>2. decoder' = [decoder EXCEPT !.is_released = TRUE] /\ decoded' = decoded
    <3>1. /\ Translate(decoder, \hF0).decoder = [decoder EXCEPT !.is_released = TRUE]
          /\ Translate(decoder, \hF0).event = NoEvent
      BY <1>1, PrefixFacts
    <3> QED BY <1>1, <1>2, <2>1, <3>1
  <2>3. /\ decoder'.is_released = TRUE /\ decoder'.is_extended = decoder.is_extended
        /\ SamePending
        /\ decoder'.pause_sequence_idx = decoder.pause_sequence_idx
    BY <1>1, <2>2 DEF Decoders, SamePending
  <2> QED BY <1>4, <2>1, <2>2, <2>3 DEF Reading
<1>5. CASE /\ wire = IF released THEN <<\hE0, \hF0, s>> ELSE <<\hE0, s>>
           /\ extended = TRUE
           /\ decoder.is_extended = FALSE /\ decoder.is_released = FALSE
  <2>1. Head(wire) = \hE0 /\ wire' = IF released THEN <<\hF0, s>> ELSE <<s>>
    BY <1>1, <1>5
  <2>2. decoder' = [decoder EXCEPT !.is_extended = TRUE] /\ decoded' = decoded
    <3>1. /\ Translate(decoder, \hE0).decoder = [decoder EXCEPT !.is_extended = TRUE]
          /\ Translate(decoder, \hE0).event = NoEvent
      BY DEF Translate, Result
    <3> QED BY <1>1, <1>2, <2>1, <3>1
  <2>3. /\ decoder'.is_extended = TRUE /\ decoder'.is_released = decoder.is_released
        /\ SamePending
        /\ decoder'.pause_sequence_idx = decoder.pause_sequence_idx
    BY <1>1, <2>2 DEF Decoders, SamePending
  <2>4. Reading(s, extended, released)'
    <3>1. CASE released = TRUE
      BY <1>5, <2>1, <2>3, <3>1 DEF Reading
    <3>2. CASE released = FALSE
      BY <1>5, <2>1, <2>3, <3>2 DEF Reading
    <3> QED BY <3>1, <3>2
  <2> QED BY <2>2, <2>3, <2>4
<1> QED BY <1>3, <1>4, <1>5 DEF Reading

\* What is on the wire after a plain key, if the flags are down.
LEMMA ReadingKey ==
  ASSUME NEW k, NEW s, NEW extended \in BOOLEAN, NEW released \in BOOLEAN,
         KeyIs(k, s, extended), wire' = IF released THEN Break[k] ELSE Make[k],
         decoder' = decoder, ~decoder.is_extended, ~decoder.is_released,
         decoder.is_extended \in BOOLEAN, decoder.is_released \in BOOLEAN
  PROVE  Reading(s, extended, released)'
<1>1. CASE extended = FALSE /\ released = FALSE
  <2>1. wire' = <<s>>
    BY <1>1 DEF KeyIs
  <2> QED BY <1>1, <2>1 DEF Reading
<1>2. CASE extended = FALSE /\ released = TRUE
  <2>1. wire' = <<\hF0, s>>
    BY <1>2 DEF KeyIs
  <2> QED BY <1>2, <2>1 DEF Reading
<1>3. CASE extended = TRUE
  <2>1. wire' = IF released THEN <<\hE0, \hF0, s>> ELSE <<\hE0, s>>
    BY <1>3 DEF KeyIs
  <2> QED BY <1>3, <2>1 DEF Reading
<1> QED BY <1>1, <1>2, <1>3

-----------------------------------------------------------------------------
(***************************************************************************)
(* After the last byte of a plain key the flags are down, whatever they    *)
(* were before                                                             *)
(***************************************************************************)

Down ==
  /\ decoder.is_extended = FALSE /\ decoder.is_released = FALSE
  /\ decoder.pause_sequence_idx = 0

ResyncOk ==
  typed # <<>> /\ Unambiguous(Last(typed)) =>
    \/ wire = <<>> /\ Down
    \/ /\ decoder.pause_sequence_idx = 0
       /\ \E s \in Scancodes \ (PrefixBytes \cup {\h12, \h7C}) : Underway(s)

TypedOk == typed \in Seq([keycode : {Code[k] : k \in Keys}, is_released : BOOLEAN])

\* A key is pressed or released, between two bytes of no other.
LEMMA KeyStep ==
  ASSUME TypedOk, PauseOk, NEW k \in Keys, Press(k) \/ Release(k)
  PROVE  \E released \in BOOLEAN :
           /\ typed' = Append(typed, Event(Code[k], released))
           /\ TypedOk'
           /\ typed' # <<>> /\ Last(typed') = Event(Code[k], released)
           /\ \A i \in DOMAIN typed : i \in DOMAIN typed' /\ typed'[i] = typed[i]
           /\ Len(typed') \in DOMAIN typed'
           /\ wire' = IF released THEN Break[k] ELSE Make[k]
           /\ wire = <<>> /\ decoder' = decoder /\ decoded' = decoded
           /\ decoder.pause_sequence_idx = 0
<1>1. PICK released \in BOOLEAN :
        /\ typed' = Append(typed, Event(Code[k], released))
        /\ wire' = IF released THEN Break[k] ELSE Make[k]
        /\ wire = <<>> /\ decoder' = decoder /\ decoded' = decoded
  <2>1. CASE Press(k)
    BY <2>1 DEF Press
  <2>2. CASE Release(k)
    BY <2>2 DEF Release
  <2> QED BY <2>1, <2>2
<1> DEFINE E == [keycode : {Code[m] : m \in Keys}, is_released : BOOLEAN]
           e == Event(Code[k], released)
<1>2. e \in E
  BY DEF Event
<1>3. typed \in Seq(E)
  BY DEF TypedOk
<1> HIDE DEF E, e
<1>4. /\ Append(typed, e) \in Seq(E) /\ Append(typed, e) # <<>>
      /\ Len(Append(typed, e)) = Len(typed) + 1
      /\ Append(typed, e)[Len(typed) + 1] = e
      /\ \A i \in 1 .. Len(typed) : Append(typed, e)[i] = typed[i]
  BY <1>2, <1>3
<1>5. /\ DOMAIN typed = 1 .. Len(typed) /\ Len(typed) \in Nat
      /\ DOMAIN Append(typed, e) = 1 .. Len(typed) + 1
  BY <1>3, <1>4
<1>6. Last(Append(typed, e)) = e
  BY <1>4 DEF Last
<1>7. typed' = Append(typed, e)
  BY <1>1 DEF e
<1>8. decoder.pause_sequence_idx = 0
  BY <1>1 DEF PauseOk, pause_sequence
<1>9. TypedOk'
  BY <1>4, <1>7 DEF TypedOk, E
<1>10. \A i \in DOMAIN typed : i \in DOMAIN typed' /\ typed'[i] = typed[i]
  BY <1>4, <1>5, <1>7
<1>11. Len(typed') \in DOMAIN typed'
  BY <1>4, <1>5, <1>7
<1> QED BY <1>1, <1>4, <1>6, <1>7, <1>8, <1>9, <1>10, <1>11 DEF e

LEMMA ResyncKey ==
  ASSUME TypedOk, PauseOk, NEW k \in Keys, Press(k) \/ Release(k)
  PROVE  ResyncOk'
<1>1. PICK released \in BOOLEAN :
        /\ Last(typed') = Event(Code[k], released)
        /\ wire' = IF released THEN Break[k] ELSE Make[k]
        /\ decoder' = decoder /\ decoder.pause_sequence_idx = 0
  BY KeyStep
<1> SUFFICES ASSUME Unambiguous(Event(Code[k], released))
             PROVE  \E s \in Scancodes \ (PrefixBytes \cup {\h12, \h7C}) : Underway(s)'
  BY <1>1 DEF ResyncOk, Unambiguous
<1>2. k \in PlainKeys /\ Last(Make[k]) \notin {\h12, \h7C}
  BY DEF Unambiguous, Event
<1>3. PICK s \in Scancodes \ PrefixBytes, extended \in BOOLEAN : KeyIs(k, s, extended)
  BY <1>2, PlainKeyIs
<1>4. Last(Make[k]) = s
  BY <1>3 DEF KeyIs, Last
<1>5. Underway(s)'
  BY <1>1, <1>3 DEF KeyIs, Underway
<1> QED BY <1>2, <1>4, <1>5

LEMMA ResyncByte ==
  ASSUME IInv, ResyncOk, IrqNoEvent \/ IrqEvent
  PROVE  ResyncOk'
<1>1. /\ typed' = typed /\ decoder \in Decoders /\ wire # <<>>
      /\ decoder' = Translate(decoder, Head(wire)).decoder
  BY ByteStep
<1> SUFFICES ASSUME typed # <<>>, Unambiguous(Last(typed))
             PROVE  \/ (wire = <<>> /\ Down)'
                    \/ /\ decoder'.pause_sequence_idx = 0
                       /\ \E s \in Scancodes \ (PrefixBytes \cup {\h12, \h7C}) : Underway(s)'
  BY <1>1 DEF ResyncOk, Unambiguous
<1>2. PICK s \in Scancodes \ (PrefixBytes \cup {\h12, \h7C}) : Underway(s)
  BY <1>1 DEF ResyncOk
<1>3. decoder.pause_sequence_idx = 0
  BY <1>1 DEF ResyncOk
<1>4. CASE wire = <<s>> /\ Head(wire) = s /\ wire' = <<>>
  <2>1. ~PrintScreen(decoder, s) /\ s \notin PrefixBytes /\ s # \hE1
    BY DEF PrintScreen, PrefixBytes
  <2>2. decoder' = AfterKey(decoder, s)
    BY <1>1, <1>3, <1>4, <2>1, IdleFacts, KeyFacts
  <2>3. Down'
    BY <2>2 DEF AfterKey, Down
  <2> QED BY <1>4, <2>3
<1>5. CASE Head(wire) \in {\hE0, \hF0} /\ Underway(s)'
  <2>1. decoder'.pause_sequence_idx = 0
    BY <1>1, <1>3, <1>5, IdleFacts
  <2> QED BY <1>5, <2>1
<1> QED BY <1>2, <1>4, <1>5, UnderwayByte

-----------------------------------------------------------------------------
(***************************************************************************)
(* The plain key after one that is no half of Print Screen: it is being    *)
(* read with the flags that its own prefixes have raised, or is reported   *)
(***************************************************************************)

DecodedIsSeq == decoded \in Seq([keycode : Keycodes, is_released : BOOLEAN])

Reported ==
  /\ decoded # <<>>
  /\ \/ Last(decoded) = Last(typed)
     \/ ~Unambiguous(Last(typed)) /\ Last(decoded).keycode = "KEY_PRINT_SCREEN"

BeingRead(k, s, extended, released) ==
  /\ KeyIs(k, s, extended) /\ Last(typed) = Event(Code[k], released)
  /\ Reading(s, extended, released)

AfterUnambiguous ==
  Len(typed) >= 2 /\ Unambiguous(typed[Len(typed) - 1]) /\ IsPlain(Last(typed))

SecondOk ==
  AfterUnambiguous =>
    /\ decoder.pause_sequence_idx = 0
    /\ \/ wire = <<>> /\ Reported
       \/ \E k \in Keys, s \in Scancodes \ PrefixBytes, extended, released \in BOOLEAN :
            BeingRead(k, s, extended, released)

LEMMA DecodedSeqByte ==
  ASSUME IInv, DecodedIsSeq, IrqNoEvent \/ IrqEvent
  PROVE  DecodedIsSeq'
<1> DEFINE e == Translate(decoder, Head(wire)).event
           E == [keycode : Keycodes, is_released : BOOLEAN]
<1>1. /\ decoder \in Decoders
      /\ decoded' = IF e.keycode \in NoCode THEN decoded ELSE Append(decoded, e)
  BY ByteStep
<1>2. e.keycode \notin NoCode => e \in E
  <2>1. decoder.is_released \in BOOLEAN
    BY <1>1 DEF Decoders
  <2> QED BY <2>1, TranslateFacts DEF NoCode
<1>3. decoded \in Seq(E)
  BY DEF DecodedIsSeq
<1> HIDE DEF e, E
<1>4. decoded' \in Seq(E)
  BY <1>1, <1>2, <1>3
<1> QED BY <1>4 DEF DecodedIsSeq, E

LEMMA SecondKey ==
  ASSUME IInv, TypedOk, PauseOk, ResyncOk, NEW k \in Keys, Press(k) \/ Release(k)
  PROVE  SecondOk'
<1>1. PICK released \in BOOLEAN :
        /\ typed' = Append(typed, Event(Code[k], released))
        /\ Last(typed') = Event(Code[k], released)
        /\ wire' = IF released THEN Break[k] ELSE Make[k]
        /\ wire = <<>> /\ decoder' = decoder
        /\ decoder.pause_sequence_idx = 0
  BY KeyStep
<1> SUFFICES ASSUME AfterUnambiguous'
             PROVE  \E s \in Scancodes \ PrefixBytes, extended \in BOOLEAN :
                      BeingRead(k, s, extended, released)'
  BY <1>1 DEF SecondOk
<1>2. Unambiguous(typed'[Len(typed') - 1]) /\ IsPlain(Last(typed')) /\ Len(typed') >= 2
  BY DEF AfterUnambiguous, Unambiguous, IsPlain
<1>3. typed # <<>> /\ typed'[Len(typed') - 1] = Last(typed)
  <2> DEFINE E == [keycode : {Code[m] : m \in Keys}, is_released : BOOLEAN]
             e == Event(Code[k], released)
  <2>1. e \in E /\ typed \in Seq(E)
    BY DEF Event, TypedOk
  <2> HIDE DEF E
  <2>2. typed' = Append(typed, e)
    BY <1>1
  <2> HIDE DEF e
  <2>3. Len(typed') = Len(typed) + 1 /\ Len(typed) \in Nat
    BY <2>1, <2>2
  <2>4. Len(typed) >= 1 /\ Len(typed') - 1 = Len(typed)
    BY <1>2, <2>3
  <2>5. typed'[Len(typed)] = typed[Len(typed)]
    BY <2>1, <2>2, <2>4
  <2>6. typed # <<>>
    BY <2>4
  <2> QED BY <2>4, <2>5, <2>6 DEF Last
<1>4. Down
  <2>1. \A s \in Scancodes : ~Underway(s)
    BY <1>1 DEF Underway
  <2> QED BY <1>2, <1>3, <2>1 DEF ResyncOk
<1>5. k \in PlainKeys
  <2>1. IsPlain(Event(Code[k], released))
    BY <1>1, <1>2
  <2> QED BY <2>1 DEF IsPlain, Event
<1>6. PICK s \in Scancodes \ PrefixBytes, extended \in BOOLEAN : KeyIs(k, s, extended)
  BY <1>5, PlainKeyIs
<1>7. Reading(s, extended, released)'
  BY <1>1, <1>4, <1>6, ReadingKey DEF Down
<1> QED BY <1>1, <1>6, <1>7 DEF BeingRead, KeyIs

LEMMA SecondByte ==
  ASSUME IInv, DecodedIsSeq, SecondOk, IrqNoEvent \/ IrqEvent
  PROVE  SecondOk'
<1>1. /\ typed' = typed /\ decoder \in Decoders /\ wire # <<>>
      /\ decoder' = Translate(decoder, Head(wire)).decoder
      /\ decoded' = IF Translate(decoder, Head(wire)).event.keycode \in NoCode
                    THEN decoded
                    ELSE Append(decoded, Translate(decoder, Head(wire)).event)
  BY ByteStep
<1>2. AfterUnambiguous' = AfterUnambiguous
  BY <1>1 DEF AfterUnambiguous, Unambiguous, IsPlain
<1> SUFFICES ASSUME AfterUnambiguous PROVE SecondOk'
  BY <1>2 DEF SecondOk
<1>3. decoder.pause_sequence_idx = 0
  BY DEF SecondOk
<1>4. PICK k \in Keys, s \in Scancodes \ PrefixBytes, extended \in BOOLEAN,
           released \in BOOLEAN : BeingRead(k, s, extended, released)
  BY <1>1 DEF SecondOk
<1>5. KeyIs(k, s, extended) /\ Last(typed) = Event(Code[k], released)
      /\ Reading(s, extended, released)
  BY <1>4 DEF BeingRead
<1>6. CASE /\ wire = <<s>> /\ Head(wire) = s /\ wire' = <<>>
           /\ decoder.is_extended = extended /\ decoder.is_released = released
  <2> DEFINE e == Translate(decoder, s).event
  <2>1. decoder'.pause_sequence_idx = 0
    BY <1>1, <1>3, <1>6, IdleFacts DEF PrefixBytes
  <2>2. ASSUME e.keycode \notin NoCode PROVE decoded' # <<>> /\ Last(decoded') = e
    <3> DEFINE E == [keycode : Keycodes, is_released : BOOLEAN]
    <3>1. e \in E
      <4>1. decoder.is_released \in BOOLEAN
        BY <1>6
      <4> QED BY <2>2, <4>1, TranslateFacts DEF NoCode
    <3>2. decoded \in Seq(E)
      BY DEF DecodedIsSeq
    <3>3. decoded' = Append(decoded, e)
      BY <1>1, <1>6, <2>2
    <3> HIDE DEF e, E
    <3>4. Len(Append(decoded, e)) = Len(decoded) + 1
          /\ Append(decoded, e)[Len(decoded) + 1] = e /\ Append(decoded, e) # <<>>
      BY <3>1, <3>2
    <3> QED BY <3>3, <3>4 DEF Last
  <2>3. CASE PrintScreen(decoder, s)
    <3>1. s \in {\h12, \h7C}
      BY <2>3 DEF PrintScreen
    <3>2. e.keycode = "KEY_PRINT_SCREEN"
      BY <2>3 DEF Translate, TranslatePrintScreen, Result, Event, PrefixBytes
    <3>3. ~Unambiguous(Last(typed))
      <4>1. Last(Make[k]) = s /\ Code[k] = Last(typed).keycode
        BY <1>5 DEF KeyIs, Last, Event
      <4> QED BY <3>1, <4>1 DEF Unambiguous
    <3>4. Reported'
      <4>1. ~Unambiguous(Last(typed'))
        BY <1>1, <3>3
      <4>2. decoded' # <<>> /\ Last(decoded').keycode = "KEY_PRINT_SCREEN"
        BY <2>2, <3>2 DEF NoCode
      <4> QED BY <4>1, <4>2 DEF Reported, Unambiguous
    <3> QED BY <1>6, <2>1, <3>4 DEF SecondOk
  <2>4. CASE ~PrintScreen(decoder, s)
    <3>1. e = KeyEvent(decoder, s)
      BY <1>1, <1>3, <2>4, IdleFacts, KeyFacts DEF PrefixBytes
    <3>2. KeyEvent(decoder, s) = Event(Code[k], released)
      BY <1>5, <1>6 DEF KeyEvent, KeyIs
    <3>3. e = Last(typed) /\ e.keycode \notin NoCode
      BY <1>5, <3>1, <3>2 DEF KeyIs, Event
    <3>4. Reported'
      BY <1>1, <2>2, <3>3 DEF Reported
    <3> QED BY <1>6, <2>1, <3>4 DEF SecondOk
  <2> QED BY <2>3, <2>4
<1>7. CASE /\ decoder'.pause_sequence_idx = 0
           /\ Reading(s, extended, released)'
  <2>1. BeingRead(k, s, extended, released)'
    BY <1>1, <1>5, <1>7 DEF BeingRead, KeyIs
  <2> QED BY <1>7, <2>1 DEF SecondOk
<1> QED BY <1>3, <1>5, <1>6, <1>7, ReadingByte

-----------------------------------------------------------------------------
(***************************************************************************)
(* While plain keys are used, the flags are those of the prefixes read     *)
(***************************************************************************)

\* One key is being read; the others are decoded.
OneKeyLeft(k, s, extended, released) ==
  /\ KeyIs(k, s, extended)
  /\ typed = Append(decoded, Event(Code[k], released))
  /\ Reading(s, extended, released)

AllPlain == \A i \in DOMAIN typed : IsPlain(typed[i])

DecodedOk ==
  AllPlain =>
    /\ ~decoder.pressed_pending /\ ~decoder.released_pending
    /\ decoder.pause_sequence_idx = 0
    /\ \/ wire = <<>> /\ Down /\ decoded = typed
       \/ \E k \in Keys, s \in Scancodes \ PrefixBytes, extended, released \in BOOLEAN :
            OneKeyLeft(k, s, extended, released)

LEMMA DecodedKey ==
  ASSUME TypedOk, PauseOk, DecodedOk, NEW k \in Keys, Press(k) \/ Release(k)
  PROVE  DecodedOk'
<1>1. PICK released \in BOOLEAN :
        /\ typed' = Append(typed, Event(Code[k], released))
        /\ typed' # <<>> /\ Last(typed') = Event(Code[k], released)
        /\ \A i \in DOMAIN typed : i \in DOMAIN typed' /\ typed'[i] = typed[i]
        /\ Len(typed') \in DOMAIN typed'
        /\ wire' = IF released THEN Break[k] ELSE Make[k]
        /\ wire = <<>> /\ decoder' = decoder /\ decoded' = decoded
  BY KeyStep
<1> SUFFICES ASSUME AllPlain'
             PROVE  /\ ~decoder'.pressed_pending /\ ~decoder'.released_pending
                    /\ decoder'.pause_sequence_idx = 0
                    /\ \E s \in Scancodes \ PrefixBytes, extended \in BOOLEAN :
                         OneKeyLeft(k, s, extended, released)'
  BY DEF DecodedOk
<1>2. \A i \in DOMAIN typed' : IsPlain(typed'[i])
  BY DEF AllPlain, IsPlain
<1>3. AllPlain
  BY <1>1, <1>2 DEF AllPlain
<1>4. k \in PlainKeys
  <2>1. IsPlain(Event(Code[k], released))
    BY <1>1, <1>2 DEF Last
  <2> QED BY <2>1 DEF IsPlain, Event
<1>5. PICK s \in Scancodes \ PrefixBytes, extended \in BOOLEAN : KeyIs(k, s, extended)
  BY <1>4, PlainKeyIs
<1>6. Down /\ decoded = typed
      /\ ~decoder.pressed_pending /\ ~decoder.released_pending
  BY <1>1, <1>3 DEF DecodedOk, OneKeyLeft, Reading
<1>7. Reading(s, extended, released)'
  BY <1>1, <1>5, <1>6, ReadingKey DEF Down
<1>8. OneKeyLeft(k, s, extended, released)'
  BY <1>1, <1>5, <1>6, <1>7 DEF OneKeyLeft, KeyIs
<1> QED BY <1>1, <1>6, <1>8 DEF Down

LEMMA DecodedByte ==
  ASSUME IInv, DecodedOk, IrqNoEvent \/ IrqEvent
  PROVE  DecodedOk'
<1>1. /\ typed' = typed /\ decoder \in Decoders
      /\ wire # <<>> /\ wire' = Tail(wire)
      /\ decoder' = Translate(decoder, Head(wire)).decoder
      /\ decoded' = IF Translate(decoder, Head(wire)).event.keycode \in NoCode
                    THEN decoded
                    ELSE Append(decoded, Translate(decoder, Head(wire)).event)
  BY ByteStep
<1>2. AllPlain' = AllPlain
  BY <1>1 DEF AllPlain, IsPlain
<1> SUFFICES ASSUME AllPlain PROVE DecodedOk'
  BY <1>2 DEF DecodedOk
<1>3. PICK k \in Keys, s \in Scancodes \ PrefixBytes, extended \in BOOLEAN,
           released \in BOOLEAN :
        /\ KeyIs(k, s, extended)
        /\ typed = Append(decoded, Event(Code[k], released))
        /\ Reading(s, extended, released)
  BY <1>1 DEF DecodedOk, OneKeyLeft
<1>4. /\ ~decoder.pressed_pending /\ ~decoder.released_pending
      /\ decoder.pause_sequence_idx = 0
  BY DEF DecodedOk
<1>5. CASE /\ wire = <<s>> /\ Head(wire) = s /\ wire' = <<>>
           /\ decoder.is_extended = extended /\ decoder.is_released = released
  <2>1. ~PrintScreen(decoder, s) /\ s # \hE1
    BY <1>4 DEF PrintScreen, PrefixBytes
  <2>2. Translate(decoder, s).event = KeyEvent(decoder, s)
        /\ decoder' = AfterKey(decoder, s)
    BY <1>1, <1>4, <1>5, <2>1, IdleFacts, KeyFacts
  <2>3. KeyEvent(decoder, s) = Event(Code[k], released)
    BY <1>3, <1>5 DEF KeyEvent, KeyIs
  <2>4. decoded' = Append(decoded, Event(Code[k], released))
    <3>1. Event(Code[k], released).keycode \notin NoCode
      BY <1>3 DEF KeyIs, Event
    <3> QED BY <1>1, <1>5, <2>2, <2>3, <3>1
  <2>5. decoded' = typed'
    BY <1>1, <1>3, <2>4
  <2>6. /\ Down' /\ ~decoder'.pressed_pending /\ ~decoder'.released_pending
        /\ decoder'.pause_sequence_idx = 0
    BY <1>3, <1>4, <1>5, <2>2 DEF AfterKey, Down, KeyIs
  <2> QED BY <1>5, <2>5, <2>6 DEF DecodedOk
<1>6. CASE /\ decoded' = decoded /\ SamePending
           /\ decoder'.pause_sequence_idx = 0
           /\ Reading(s, extended, released)'
  <2>1. OneKeyLeft(k, s, extended, released)'
    BY <1>1, <1>3, <1>6 DEF OneKeyLeft, KeyIs
  <2> QED BY <1>4, <1>6, <2>1 DEF DecodedOk, SamePending
<1> QED BY <1>3, <1>4, <1>5, <1>6, ReadingByte

DecoderInv ==
  PauseOk /\ TypedOk /\ DecodedIsSeq /\ ResyncOk /\ SecondOk /\ DecodedOk

LEMMA DecoderInit == Init => DecoderInv
<1> SUFFICES ASSUME Init PROVE DecoderInv
  OBVIOUS
<1>1. typed = <<>> /\ decoded = <<>> /\ wire = <<>> /\ Down
      /\ ~decoder.pressed_pending /\ ~decoder.released_pending
  BY DEF Init, Down
<1>2. TypedOk
  BY <1>1 DEF TypedOk
<1>3. DecodedIsSeq
  BY <1>1 DEF DecodedIsSeq
<1>4. SecondOk
  <2>1. Len(typed) = 0
    BY <1>1
  <2> QED BY <2>1 DEF SecondOk, AfterUnambiguous
<1> QED BY <1>1, <1>2, <1>3, <1>4, PauseInit DEF DecoderInv, ResyncOk, DecodedOk, Down

LEMMA DecoderStep == IInv /\ DecoderInv /\ [Next]_vars => DecoderInv'
<1> SUFFICES ASSUME IInv, DecoderInv, [Next]_vars PROVE DecoderInv'
  OBVIOUS
<1>1. PauseOk'
  BY PauseStep DEF DecoderInv
<1>2. CASE IrqNoEvent \/ IrqEvent
  <2>1. TypedOk'
    BY <1>2, ByteStep DEF DecoderInv, TypedOk
  <2>2. DecodedIsSeq' /\ SecondOk'
    BY <1>2, DecodedSeqByte, SecondByte DEF DecoderInv
  <2> QED BY <1>1, <1>2, <2>1, <2>2, ResyncByte, DecodedByte DEF DecoderInv
<1>3. CASE InstallEventCallback \/ UNCHANGED vars
  <2>1. UNCHANGED <<wire, decoder, typed, decoded>>
    BY <1>3 DEF InstallEventCallback, vars
  <2>2. TypedOk'
    BY <2>1 DEF DecoderInv, TypedOk
  <2>3. ResyncOk'
    BY <2>1 DEF DecoderInv, ResyncOk, Down, Underway, Unambiguous
  <2>4. AllPlain' = AllPlain
    BY <2>1 DEF AllPlain, IsPlain
  <2>5. ASSUME NEW k \in Keys, NEW s \in Scancodes \ PrefixBytes,
               NEW extended \in BOOLEAN, NEW released \in BOOLEAN,
               OneKeyLeft(k, s, extended, released)
        PROVE  OneKeyLeft(k, s, extended, released)'
    BY <2>1, <2>5 DEF OneKeyLeft, KeyIs, Reading
  <2>6. DecodedOk'
    BY <2>1, <2>4, <2>5 DEF DecoderInv, DecodedOk, Down
  <2>7. DecodedIsSeq'
    BY <2>1 DEF DecoderInv, DecodedIsSeq
  <2>8. ASSUME NEW k \in Keys, NEW s \in Scancodes \ PrefixBytes,
               NEW extended \in BOOLEAN, NEW released \in BOOLEAN,
               BeingRead(k, s, extended, released)
        PROVE  BeingRead(k, s, extended, released)'
    BY <2>1, <2>8 DEF BeingRead, KeyIs, Reading
  <2>9. AfterUnambiguous' = AfterUnambiguous /\ Reported' = Reported
    BY <2>1 DEF AfterUnambiguous, Reported, Unambiguous, IsPlain
  <2>10. SecondOk'
    BY <2>1, <2>8, <2>9 DEF DecoderInv, SecondOk
  <2> QED BY <1>1, <2>2, <2>3, <2>6, <2>7, <2>10 DEF DecoderInv
<1>4. ASSUME NEW k \in Keys, Press(k) \/ Release(k) PROVE DecoderInv'
  <2>1. TypedOk'
    BY <1>4, KeyStep DEF DecoderInv
  <2>2. DecodedIsSeq'
    BY <1>4 DEF Press, Release, DecoderInv, DecodedIsSeq
  <2>3. SecondOk'
    BY <1>4, SecondKey DEF DecoderInv
  <2> QED BY <1>1, <1>4, <2>1, <2>2, <2>3, ResyncKey, DecodedKey DEF DecoderInv
<1> QED BY <1>2, <1>3, <1>4 DEF Next

LEMMA DecoderHolds == Spec => []DecoderInv
<1> QED BY DecoderInit, DecoderStep, IInvHolds, PTL DEF Spec

(***************************************************************************)
(* As long as plain keys are used, what is decoded is what was typed, for  *)
(* every set of keys whose codes are those of the tables                   *)
(* (keyboard.c:97-553).                                                    *)
(***************************************************************************)
THEOREM PlainKeysAreDecoded == Spec => []DecodedAsTyped
<1>1. ASSUME DecoderInv PROVE DecodedAsTyped
  <2> SUFFICES ASSUME wire = <<>>, AllPlain PROVE decoded = typed
    BY DEF DecodedAsTyped, AllPlain
  <2> QED BY <1>1 DEF DecoderInv, DecodedOk, OneKeyLeft, Reading
<1> QED BY <1>1, DecoderHolds, PTL

(***************************************************************************)
(* Whatever keys, Print Screen, Pause and fake shifts among them, were     *)
(* used before: after a plain key that is no half of Print Screen the next *)
(* plain key is reported as it was typed, or, if it passes for a half, may *)
(* be as Print Screen (keyboard.c:113-152), for every set of keys.         *)
(***************************************************************************)
THEOREM DecoderResynchronises == Spec => []PlainKeyResynchronises
<1>1. ASSUME DecoderInv PROVE PlainKeyResynchronises
  <2> SUFFICES ASSUME wire = <<>>, AfterUnambiguous PROVE Reported
    BY DEF PlainKeyResynchronises, AfterUnambiguous, Reported
  <2> QED BY <1>1 DEF DecoderInv, SecondOk, BeingRead, Reading
<1> QED BY <1>1, DecoderHolds, PTL
=============================================================================
