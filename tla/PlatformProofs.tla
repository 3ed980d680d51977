------------------------- MODULE PlatformProofs -------------------------
(***************************************************************************)
(* Proofs about Timebase and Platform for every timeout, every delay,      *)
(* every width of systick and any timing of the interrupt, the pin and the *)
(* button.                                                                 *)
(*                                                                         *)
(* The clock: press times are exact and delays are kept, also where        *)
(* systick goes round.  systick, btn_press_start and start are words, the  *)
(* lengths in question are numbers: the invariant says that the one is the *)
(* other as long as a press (Pressing) or a wait (Waiting) lasts.  It is   *)
(* kept under all functions of Platform too; from it follows that resets   *)
(* and timeouts are kept.                                                  *)
(*                                                                         *)
(* ReadsWhenReady: no data is transferred unless the module holds its pin  *)
(* up.  That the loop of platform_bmlite_receive may go on to transfer     *)
(* only if it has just seen the pin rests on its looking at the clock only *)
(* if there is a timeout, so that the code behind it tells the two ways    *)
(* out of the loop apart; and on no reset taking the pin down while a call *)
(* is running.                                                             *)
(***************************************************************************)
EXTENDS Platform, TLAPS

-----------------------------------------------------------------------------
(* The clock *)

\* While the button is known to be down, held is its time.
Pressing ==
  /\ btn_pressed = 1 => held < MaxHold /\ systick = Word(btn_press_start + held)
  /\ btn_pressed = 0 => held = 0

\* While a delay is waited for, elapsed is the time so far, at most lag ticks behind
\* the last look at the clock, which found it early.
Waiting ==
  pc = "wait" =>
    /\ delay > 0 /\ delay + 1 + MaxLag < W
    /\ delay_internal = delay + 1
    /\ systick = Word(start + elapsed)
    /\ elapsed <= delay + lag

\* The inductive invariant.
TbInv == TbTypeOK /\ PressTimeExact /\ Pressing /\ Waiting

-----------------------------------------------------------------------------
(* Arithmetic of words *)

\* The constants, without the delays.
LEMMA Widths ==
  /\ W \in Nat /\ W > 1
  /\ MaxLag \in Nat /\ MaxLag > 0
  /\ MaxHold \in Nat /\ MaxHold > 0 /\ MaxHold < W
<1>1. W \in Nat /\ MaxHold \in Nat /\ MaxHold > 0 /\ MaxHold < W
  BY TimebaseAssumption
<1> QED  BY <1>1, TimebaseAssumption

\* A tick is itself, none later.
LEMMA WordZero ==
  ASSUME NEW s \in 0..(W - 1)
  PROVE  s = Word(s + 0)
BY Widths DEF Word

\* n ticks behind s the difference to s is n, wherever systick has gone round.
LEMMA MinusWord ==
  ASSUME NEW s \in 0..(W - 1), NEW n \in 0..(W - 1)
  PROVE  /\ Word(s + n) \in 0..(W - 1)
         /\ Minus(Word(s + n), s) = n
BY Widths DEF Word, Minus

\* check_buttons computes it in another way.
LEMMA PressTimeWord ==
  ASSUME NEW s \in 0..(W - 1), NEW n \in 1..(W - 1)
  PROVE  PressTime(s, Word(s + n)) = n
BY Widths DEF Word, Not, PressTime

\* The next tick.
LEMMA NextWord ==
  ASSUME NEW s \in 0..(W - 1), NEW n \in 0..(W - 2)
  PROVE  Word(Word(s + n) + 1) = Word(s + (n + 1))
BY Widths DEF Word

-----------------------------------------------------------------------------
(* The invariant holds initially, and every action preserves it *)

\* systick starts anywhere, nothing is pressed or waited for.
LEMMA TbStart == TbInit => TbInv
<1> SUFFICES ASSUME TbInit PROVE TbInv  OBVIOUS
<1>1. button \in BOOLEAN /\ unread \in BOOLEAN  BY DEF TbInit
<1>2. TbTypeOK  BY <1>1, Widths DEF TbInit, TbTypeOK
<1> QED  BY <1>2, Widths DEF TbInit, TbInv, PressTimeExact, Pressing, Waiting

\* A tick lengthens the press and the wait; check_buttons begins or ends a press.
LEMMA TickStep ==
  ASSUME TbInv, Tick
  PROVE  TbInv'
<1>1. systick' \in 0..(W - 1)
  BY Widths DEF TbInv, TbTypeOK, Tick, Word
<1>2. lag' \in 0..MaxLag /\ lag' = lag + 1
  BY Widths DEF TbInv, TbTypeOK, Tick
<1>3. Waiting' /\ elapsed' \in 0..W
  <2>1. CASE pc = "wait"
    <3>1. elapsed \in 0..(W - 2)
      BY <2>1, Widths DEF TbInv, TbTypeOK, Waiting, Tick
    <3>2. elapsed' = elapsed + 1
      BY <2>1, <3>1, Widths DEF Tick, CountTick
    <3>3. systick' = Word(start + (elapsed + 1))
      BY <2>1, <3>1, NextWord DEF TbInv, TbTypeOK, Waiting, Tick
    <3>4. UNCHANGED <<pc, delay, delay_internal, start>>  BY DEF Tick, mainVars
    <3> QED
      BY <1>2, <2>1, <3>1, <3>2, <3>3, <3>4, Widths
      DEF TbInv, TbTypeOK, Waiting
  <2>2. CASE pc # "wait"
    BY <2>2, Widths DEF Tick, mainVars, Waiting
  <2> QED  BY <2>1, <2>2
<1>4. /\ Pressing' /\ PressTimeExact'
      /\ button_pressed_time' \in 0..(W - 1)
      /\ btn_press_start' \in 0..(W - 1)
      /\ btn_pressed' \in {0, 1}
      /\ held' \in 0..MaxHold /\ lastPress' \in 0..MaxHold
      /\ unread' \in BOOLEAN /\ button' \in BOOLEAN
  <2>1. button' \in BOOLEAN  BY DEF Tick, TbInv, TbTypeOK
  <2>2. CASE button' /\ btn_pressed = 0
    <3>1. /\ btn_press_start' = systick' /\ btn_pressed' = 1 /\ held' = 0
          /\ UNCHANGED <<button_pressed_time, lastPress, unread>>
      BY <2>2 DEF Tick, CheckButtons
    <3>2. systick' = Word(systick' + 0)  BY <1>1, WordZero
    <3> QED
      BY <1>1, <2>1, <3>1, <3>2, Widths
      DEF TbInv, TbTypeOK, PressTimeExact, Pressing
  <2>3. CASE button' /\ btn_pressed = 1
    <3>1. held + 1 < MaxHold /\ held \in 0..(W - 2)
      <4>1. held + 1 # MaxHold  BY <2>3, Zenon DEF Tick
      <4> QED  BY <2>3, <4>1, Widths DEF TbInv, TbTypeOK, Pressing
    <3>2. /\ held' = held + 1
          /\ UNCHANGED <<btn_press_start, btn_pressed, button_pressed_time,
                         lastPress, unread>>
      BY <2>3 DEF Tick, CheckButtons, isrVars
    <3>3. systick' = Word(btn_press_start + (held + 1))
      <4>1. systick' = Word(systick + 1)  BY DEF Tick
      <4> QED  BY <2>3, <3>1, <4>1, NextWord DEF TbInv, TbTypeOK, Pressing
    <3> QED
      BY <2>1, <2>3, <3>1, <3>2, <3>3, Widths
      DEF TbInv, TbTypeOK, PressTimeExact, Pressing
  <2>4. CASE ~button' /\ btn_pressed = 1
    <3>1. held \in 0..(W - 2) /\ held + 1 \in 1..(W - 1) /\ held + 1 <= MaxHold
      BY <2>4, Widths DEF TbInv, TbTypeOK, Pressing
    <3>2. systick' = Word(btn_press_start + (held + 1))
      BY <2>4, <3>1, NextWord DEF Tick, TbInv, TbTypeOK, Pressing
    <3>3. PressTime(btn_press_start, systick') = held + 1
      BY <3>1, <3>2, PressTimeWord DEF TbInv, TbTypeOK
    <3>4. /\ button_pressed_time' = held + 1 /\ lastPress' = held + 1
          /\ btn_pressed' = 0 /\ held' = 0 /\ unread' = TRUE
          /\ UNCHANGED btn_press_start
      BY <2>4, <3>3 DEF Tick, CheckButtons
    <3> QED
      BY <2>1, <3>1, <3>4, Widths
      DEF TbInv, TbTypeOK, PressTimeExact, Pressing
  <2>5. CASE ~button' /\ btn_pressed = 0
    <3>1. UNCHANGED <<btn_press_start, btn_pressed, button_pressed_time, held,
                      lastPress, unread>>
      BY <2>5 DEF Tick, CheckButtons, isrVars
    <3> QED
      BY <2>1, <2>5, <3>1 DEF TbInv, TbTypeOK, PressTimeExact, Pressing
  <2> QED  BY <2>1, <2>2, <2>3, <2>4, <2>5 DEF TbInv, TbTypeOK
<1>5. UNCHANGED <<pc, delay, delay_internal, start, time>>  BY DEF Tick, mainVars
<1> QED  BY <1>1, <1>2, <1>3, <1>4, <1>5 DEF TbInv, TbTypeOK

\* The button is noticed by the next tick only.
LEMMA ButtonStep ==
  ASSUME TbInv, ButtonMoves
  PROVE  TbInv'
BY DEF ButtonMoves, isrVars, mainVars, TbInv, TbTypeOK, PressTimeExact, Pressing, Waiting

\* The two halves of hal_get_button_press_time leave the press alone.
LEMMA GetReadStep ==
  ASSUME TbInv, GetRead
  PROVE  TbInv'
<1>1. unread' \in BOOLEAN /\ button' \in BOOLEAN  BY DEF GetRead, TbInv, TbTypeOK
<1>2. TbTypeOK'  BY <1>1, Widths DEF GetRead, isrVars, TbInv, TbTypeOK
<1> QED
  BY <1>2 DEF GetRead, isrVars, TbInv, PressTimeExact, Pressing, Waiting

LEMMA GetClearStep ==
  ASSUME TbInv, GetClear
  PROVE  TbInv'
BY Widths
DEF GetClear, isrVars, TbInv, TbTypeOK, PressTimeExact, Pressing, Waiting

\* Of any delay that is short enough, for platform_bmlite_reset has one of its own.
LEMMA WaitStartStep ==
  ASSUME TbInv, NEW d \in Nat, d + 1 + MaxLag < W, WaitStart(d)
  PROVE  TbInv'
<1>1. TbTypeOK'
  BY Widths DEF WaitStart, DelayTicks, isrVars, TbInv, TbTypeOK
<1>2. PressTimeExact' /\ Pressing'
  BY DEF WaitStart, isrVars, TbInv, PressTimeExact, Pressing
<1>3. Waiting'
  <2>1. systick = Word(systick + 0)  BY WordZero DEF TbInv, TbTypeOK
  <2> QED  BY <2>1, Widths DEF WaitStart, DelayTicks, Waiting
<1> QED  BY <1>1, <1>2, <1>3 DEF TbInv

\* What the loop of hal_timebase_busy_wait compares is the time waited.
LEMMA WaitedTime ==
  ASSUME TbInv, pc = "wait"
  PROVE  /\ elapsed \in 0..(W - 1) /\ elapsed <= delay + MaxLag
         /\ Minus(systick, start) = elapsed
<1>1. elapsed \in 0..(W - 1) /\ elapsed <= delay + MaxLag
  BY Widths DEF TbInv, TbTypeOK, Waiting
<1> QED  BY <1>1, MinusWord DEF TbInv, TbTypeOK, Waiting

\* The loop goes on while the wait is early, or is over.
LEMMA WaitCheckStep ==
  ASSUME TbInv, WaitCheck
  PROVE  TbInv'
<1>1. PressTimeExact' /\ Pressing'
  BY DEF WaitCheck, isrVars, TbInv, PressTimeExact, Pressing
<1>2. CASE StillEarly(start, systick, delay_internal)
                /\ UNCHANGED <<pc, delay, delay_internal, start, elapsed>>
  <2>1. elapsed <= delay
    BY <1>2, WaitedTime DEF WaitCheck, StillEarly, TbInv, TbTypeOK, Waiting
  <2> QED
    BY <1>1, <1>2, <2>1, Widths
    DEF WaitCheck, isrVars, TbInv, TbTypeOK, Waiting
<1>3. CASE pc' = "idle" /\ delay' = 0 /\ delay_internal' = 0 /\ start' = 0
                /\ elapsed' = 0
  BY <1>1, <1>3, Widths DEF WaitCheck, isrVars, TbInv, TbTypeOK, Waiting
<1> QED  BY <1>2, <1>3 DEF WaitCheck

\* The rest of the main program leaves the clock alone.
LEMMA ElsewhereStep ==
  ASSUME TbInv, Elsewhere
  PROVE  TbInv'
BY Widths
DEF Elsewhere, isrVars, mainVars, TbInv, TbTypeOK, PressTimeExact, Pressing, Waiting

LEMMA TbStutter ==
  ASSUME TbInv, UNCHANGED tbVars
  PROVE  TbInv'
BY DEF tbVars, isrVars, mainVars, TbInv, TbTypeOK, PressTimeExact, Pressing, Waiting

\* So do all steps of the main program.
LEMMA MainPreserves ==
  ASSUME TbInv, Main
  PROVE  TbInv'
<1>1. ASSUME NEW d \in Delays, WaitStart(d) PROVE TbInv'
  BY <1>1, WaitStartStep, TimebaseAssumption
<1> QED
  BY <1>1, GetReadStep, GetClearStep, WaitCheckStep, ElsewhereStep DEF Main

\* No step breaks the invariant.
LEMMA TbStep == TbInv /\ [TbNext]_tbVars => TbInv'
BY TickStep, ButtonStep, MainPreserves, TbStutter DEF TbNext

\* The inductive invariant of the clock and the button.
THEOREM TimebaseInvariant == TbSpec => []TbInv
<1> QED  BY TbStart, TbStep, PTL DEF TbSpec

-----------------------------------------------------------------------------
(* What a reader asked for *)

\* The words never leave their range, whatever the interrupt and the delays are
\* (hal_timebase.c).
THEOREM TimebaseTypeCorrect == TbSpec => []TbTypeOK
<1>1. TbInv => TbTypeOK  BY DEF TbInv
<1> QED  BY <1>1, TimebaseInvariant, PTL

\* check_buttons reports the length of the last press for every width of systick
\* and every press shorter than its period.
THEOREM PressTimesExact == TbSpec => []PressTimeExact
<1>1. TbInv => PressTimeExact  BY DEF TbInv
<1> QED  BY <1>1, TimebaseInvariant, PTL

\* A step that ends a wait ends it in time.
LEMMA DelayStep ==
  ASSUME TbInv, WaitCheck, pc' = "idle"
  PROVE  elapsed - 1 >= delay /\ elapsed <= delay + MaxLag
<1>1. pc = "wait"  BY DEF WaitCheck
<1>2. ~StillEarly(start, systick, delay_internal)  BY <1>1 DEF WaitCheck
<1> QED
  BY <1>1, <1>2, WaitedTime DEF StillEarly, TbInv, TbTypeOK, Waiting

\* hal_timebase_busy_wait keeps every delay, early or late by no more than a look at
\* the clock.
THEOREM DelaysKept == TbSpec => DelayKept
<1>1. TbInv /\ [TbNext]_tbVars =>
        [pc = "wait" /\ pc' = "idle" =>
           elapsed - 1 >= delay /\ elapsed <= delay + MaxLag]_tbVars
  <2> SUFFICES ASSUME TbInv, TbNext, pc = "wait", pc' = "idle"
               PROVE  elapsed - 1 >= delay /\ elapsed <= delay + MaxLag
    OBVIOUS
  <2>1. WaitCheck
    BY DEF TbNext, Main, Tick, ButtonMoves, GetRead, GetClear, WaitStart, Elsewhere,
           mainVars
  <2> QED  BY <2>1, DelayStep
<1> QED  BY <1>1, TimebaseInvariant, PTL DEF TbSpec, DelayKept

\* A press that ends is recorded with the length it had, which is not 0.
LEMMA ReleaseRecorded ==
  ASSUME TbInv, Tick, ~button', btn_pressed = 1
  PROVE  button_pressed_time' = held + 1 /\ lastPress' = held + 1
<1>1. held \in 0..(W - 2) /\ held + 1 \in 1..(W - 1)
  BY Widths DEF TbInv, TbTypeOK, Pressing
<1>2. systick' = Word(btn_press_start + (held + 1))
  BY <1>1, NextWord DEF Tick, TbInv, TbTypeOK, Pressing
<1>3. PressTime(btn_press_start, systick') = held + 1
  BY <1>1, <1>2, PressTimeWord DEF TbInv, TbTypeOK
<1> QED  BY <1>3 DEF Tick, CheckButtons

\* What holds of presses though PressKept does not: no step but the clear of
\* hal_get_button_press_time (hal_timebase.c 124) takes a press off the record; the
\* interrupt replaces it by a later one only, of its true length wherever systick has gone
\* round.
THEOREM PressesLostByClearOnly ==
  TbSpec => [][PressKept /\ ~GetClear => PressKept']_tbVars
<1>1. TbInv /\ [TbNext]_tbVars => [PressKept /\ ~GetClear => PressKept']_tbVars
  <2> SUFFICES ASSUME TbInv, TbNext, PressKept, ~GetClear PROVE PressKept'  OBVIOUS
  <2>1. CASE Tick /\ ~button' /\ btn_pressed = 1
    BY <2>1, ReleaseRecorded DEF PressKept
  <2>2. CASE Tick /\ ~(~button' /\ btn_pressed = 1)
    <3>1. btn_pressed \in {0, 1}  BY DEF TbInv, TbTypeOK
    <3>2. UNCHANGED <<button_pressed_time, lastPress, unread>>
      BY <2>2, <3>1 DEF Tick, CheckButtons
    <3> QED  BY <3>2 DEF PressKept
  <2>3. CASE GetRead  BY <2>3 DEF GetRead, PressKept
  <2>4. CASE ButtonMoves \/ (\E d \in Delays : WaitStart(d)) \/ WaitCheck \/ Elsewhere
    BY <2>4 DEF ButtonMoves, WaitStart, WaitCheck, Elsewhere, PressKept
  <2> QED  BY <2>1, <2>2, <2>3, <2>4 DEF TbNext, Main
<1> QED  BY <1>1, TimebaseInvariant, PTL DEF TbSpec

-----------------------------------------------------------------------------
(* No data without the pin *)

\* The inductive invariant.
ReadInv ==
  /\ ReadOnlyWhenReady
  /\ rx = "tick" => timeout # 0
  /\ op # "ready" => rx = "none"

\* It holds before platform_init,
LEMMA ReadInit == PrInit => ReadInv
BY DEF PrInit, ReadInv, ReadOnlyWhenReady

\* through the functions that bring up the board and reset the module,
LEMMA BegunStep ==
  ASSUME ReadInv, Begun \/ ResetLow
  PROVE  ReadInv'
<1>1. CASE BoardInit  BY <1>1 DEF BoardInit, rxVars, ReadInv, ReadOnlyWhenReady
<1>2. CASE TimebaseInit  BY <1>2 DEF TimebaseInit, rxVars, ReadInv, ReadOnlyWhenReady
<1>3. CASE ResetLow  BY <1>3 DEF ResetLow, rxVars, ReadInv, ReadOnlyWhenReady
<1>4. CASE ResetHigh  BY <1>4 DEF ResetHigh, rxVars, ReadInv, ReadOnlyWhenReady
<1>5. CASE ResetReturn  BY <1>5 DEF ResetReturn, rxVars, ReadInv, ReadOnlyWhenReady
<1> QED  BY <1>1, <1>2, <1>3, <1>4, <1>5 DEF Begun

\* and through every turn of the loop of platform_bmlite_receive.
LEMMA LoopStep ==
  ASSUME ReadInv, Loop
  PROVE  ReadInv'
<1>1. CASE PollIrq
  <2>1. CASE irq /\ LeaveLoop(curr_time)
    BY <1>1, <2>1
    DEF PollIrq, LeaveLoop, Return, initVars, ReadInv, ReadOnlyWhenReady
  <2>2. CASE ~irq
    BY <1>1, <2>2 DEF PollIrq, initVars, ReadInv, ReadOnlyWhenReady
  <2> QED  BY <1>1, <2>1, <2>2 DEF PollIrq
<1>2. CASE PollTick
  <2>1. CASE InTime(start_time, systick)
    BY <1>2, <2>1 DEF PollTick, initVars, ReadInv, ReadOnlyWhenReady
  <2>2. CASE ~InTime(start_time, systick) /\ LeaveLoop(systick)
    <3>1. timeout # 0  BY <1>2 DEF PollTick, ReadInv
    <3>2. Return("TIMEOUT", FALSE)  BY <2>2, <3>1 DEF LeaveLoop
    <3> QED  BY <1>2, <3>2 DEF PollTick, Return, initVars, ReadInv, ReadOnlyWhenReady
  <2> QED  BY <1>2, <2>1, <2>2 DEF PollTick
<1>3. CASE PollButton
  BY <1>3 DEF PollButton, Return, initVars, ReadInv, ReadOnlyWhenReady
<1>4. CASE ReadDone
  BY <1>4 DEF ReadDone, Return, initVars, ReadInv, ReadOnlyWhenReady
<1>5. CASE WriteDone
  BY <1>5 DEF WriteDone, Return, initVars, ReadInv, ReadOnlyWhenReady
<1> QED  BY <1>1, <1>2, <1>3, <1>4, <1>5 DEF Loop

\* No step breaks it.
LEMMA ReadStep == ReadInv /\ [PrNext]_prVars => ReadInv'
<1> SUFFICES ASSUME ReadInv, [PrNext]_prVars PROVE ReadInv'  OBVIOUS
<1>1. CASE Interrupt  BY <1>1 DEF Interrupt, rxVars, ReadInv, ReadOnlyWhenReady
<1>2. CASE UNCHANGED <<rxVars, initVars, irq, waited>>
  BY <1>2 DEF rxVars, initVars, ReadInv, ReadOnlyWhenReady
<1>3. CASE Begun \/ ResetLow  BY <1>3, BegunStep
<1>4. ASSUME NEW t \in Timeouts, Receive(t) PROVE ReadInv'
  BY <1>4 DEF Receive, initVars, ReadInv, ReadOnlyWhenReady
<1>5. CASE Send  BY <1>5 DEF Send, initVars, ReadInv, ReadOnlyWhenReady
<1>6. CASE Loop  BY <1>6, LoopStep
<1>7. CASE IrqRises  BY <1>7 DEF IrqRises, rxVars, initVars, ReadInv, ReadOnlyWhenReady
<1>8. CASE UNCHANGED prVars
  BY <1>8 DEF prVars, rxVars, initVars, ReadInv, ReadOnlyWhenReady
<1> QED  BY <1>1, <1>2, <1>3, <1>4, <1>5, <1>6, <1>7, <1>8 DEF PrNext

\* platform_bmlite_receive transfers data only while the module holds IRQ up, however
\* the clock, the button and the pin race the loop (platform.c 63-74).
THEOREM ReadsWhenReady == PrSpec => []ReadOnlyWhenReady
<1>1. ReadInv => ReadOnlyWhenReady  BY DEF ReadInv
<1> QED  BY ReadInit, ReadStep, <1>1, PTL DEF PrSpec

-----------------------------------------------------------------------------
(* The clock under the platform functions *)

\* A step that does not wait leaves the clock alone.
LEMMA MainStepKeeps ==
  ASSUME TbInv, MainStep
  PROVE  TbInv'
<1>1. pc = "idle" /\ pc' = "idle" /\ lag' = 0  BY DEF MainStep, mainVars
<1>2. TbTypeOK'
  BY <1>1, Widths DEF MainStep, isrVars, mainVars, TbInv, TbTypeOK
<1>3. PressTimeExact' /\ Pressing'
  BY DEF MainStep, isrVars, TbInv, PressTimeExact, Pressing
<1> QED  BY <1>1, <1>2, <1>3 DEF TbInv, Waiting

\* The waits of a reset are short enough for the clock.
LEMMA ResetWaitKeeps ==
  ASSUME TbInv, WaitStart(RESET_TIME)
  PROVE  TbInv'
<1>1. RESET_TIME \in Nat /\ RESET_TIME + 1 + MaxLag < W  BY PlatformAssumption
<1> QED  BY <1>1, WaitStartStep

\* What a step of Platform does to the clock.
LEMMA ClockSteps ==
  ASSUME [PrNext]_prVars
  PROVE  \/ Tick /\ Interrupt
         \/ ButtonMoves
         \/ Main
         \/ MainStep
         \/ WaitStart(RESET_TIME) /\ (ResetLow \/ ResetHigh)
         \/ UNCHANGED tbVars
<1>1. CASE Interrupt  BY <1>1 DEF Interrupt
<1>2. CASE Clock  BY <1>2 DEF Clock, Main
<1>3. CASE Begun \/ ResetLow
  BY <1>3 DEF Begun, BoardInit, TimebaseInit, ResetLow, ResetHigh, ResetReturn
<1>4. ASSUME NEW t \in Timeouts, Receive(t) PROVE MainStep  BY <1>4 DEF Receive
<1>5. CASE Send  BY <1>5 DEF Send
<1>6. CASE Loop
  BY <1>6 DEF Loop, PollIrq, PollTick, PollButton, ReadDone, WriteDone
<1>7. CASE IrqRises  BY <1>7 DEF IrqRises
<1>8. CASE UNCHANGED prVars  BY <1>8 DEF prVars
<1> QED  BY <1>1, <1>2, <1>3, <1>4, <1>5, <1>6, <1>7, <1>8 DEF PrNext

\* Each of these keeps the invariant of the clock.
LEMMA ClockStep == TbInv /\ [PrNext]_prVars => TbInv'
<1> SUFFICES ASSUME TbInv, [PrNext]_prVars PROVE TbInv'  OBVIOUS
<1> QED
  BY ClockSteps, TickStep, ButtonStep, MainPreserves, MainStepKeeps,
     ResetWaitKeeps, TbStutter

\* The invariant of the clock also holds when the platform functions use it.
THEOREM ClockInvariant == PrSpec => []TbInv
<1>1. PrInit => TbInv  BY TbStart DEF PrInit
<1> QED  BY <1>1, ClockStep, PTL DEF PrSpec

\* So its types are right,
THEOREM ClockTypeCorrect == PrSpec => []TbTypeOK
<1>1. TbInv => TbTypeOK  BY DEF TbInv
<1> QED  BY <1>1, ClockInvariant, PTL

\* the press times main.c acts on are exact,
THEOREM ClockPressTimesExact == PrSpec => []PressTimeExact
<1>1. TbInv => PressTimeExact  BY DEF TbInv
<1> QED  BY <1>1, ClockInvariant, PTL

\* and delays are kept, those of a reset included.
THEOREM ClockDelaysKept == PrSpec => DelayKept
<1>1. TbInv /\ [PrNext]_prVars =>
        [pc = "wait" /\ pc' = "idle" =>
           elapsed - 1 >= delay /\ elapsed <= delay + MaxLag]_tbVars
  <2> SUFFICES ASSUME TbInv, [PrNext]_prVars, pc = "wait", pc' = "idle"
               PROVE  elapsed - 1 >= delay /\ elapsed <= delay + MaxLag
    OBVIOUS
  <2>1. WaitCheck
    BY ClockSteps
    DEF Main, Tick, ButtonMoves, MainStep, GetRead, GetClear, WaitStart, Elsewhere,
        tbVars, mainVars
  <2> QED  BY <2>1, DelayStep
<1> QED  BY <1>1, ClockInvariant, PTL DEF PrSpec, DelayKept

-----------------------------------------------------------------------------
(* Resets *)

\* steady counts the ticks of the wait of a reset, until there are enough.
Steadied ==
  IF pc = "wait" THEN delay = RESET_TIME /\ (steady > RESET_TIME \/ steady = elapsed)
                 ELSE pc = "idle" /\ steady > RESET_TIME

ResetInv ==
  /\ op \in {"board", "timer", "reset", "low", "high", "ready"}
  /\ steady \in Nat
  /\ op \in {"board", "timer", "reset"} => rstn /\ pc = "idle"
  /\ op \in {"low", "high"} => Steadied
  /\ op = "high" => rstn
  /\ op = "ready" => rstn /\ steady > RESET_TIME

\* The RESET pin is up before platform_init, and nothing waits.
LEMMA ResetStart == PrInit => ResetInv
BY DEF PrInit, TbInit, ResetInv

\* The wait of a reset is not empty.
LEMMA ResetConstant == RESET_TIME \in Nat /\ RESET_TIME > 0
BY PlatformAssumption

\* The step of a function that begins or goes on with a wait.
LEMMA ResetWaits ==
  ASSUME ResetInv, TbInv, ResetLow \/ ResetHigh
  PROVE  ResetInv'
<1>1. /\ pc' = "wait" /\ delay' = RESET_TIME /\ elapsed' = 0 /\ steady' = 0
      /\ op' \in {"low", "high"}
  BY DEF ResetLow, ResetHigh, WaitStart
<1>2. op' = "high" => rstn'  BY DEF ResetLow, ResetHigh
<1> QED  BY <1>1, <1>2 DEF ResetInv, Steadied

\* The other steps of platform_init, and the end of a reset.
LEMMA ResetGoesOn ==
  ASSUME ResetInv, BoardInit \/ TimebaseInit \/ ResetReturn
  PROVE  ResetInv'
<1>1. pc = "idle" /\ pc' = "idle"
  BY DEF BoardInit, TimebaseInit, ResetReturn, MainStep, mainVars
<1>2. UNCHANGED <<rstn, steady>>  BY DEF BoardInit, TimebaseInit, ResetReturn
<1>3. CASE BoardInit  BY <1>1, <1>2, <1>3 DEF BoardInit, ResetInv
<1>4. CASE TimebaseInit  BY <1>1, <1>2, <1>4 DEF TimebaseInit, ResetInv
<1>5. CASE ResetReturn  BY <1>1, <1>2, <1>5 DEF ResetReturn, ResetInv, Steadied
<1> QED  BY <1>3, <1>4, <1>5

\* A tick in the middle of a wait counts for both.
LEMMA ResetTick ==
  ASSUME ResetInv, TbInv, Interrupt
  PROVE  ResetInv'
<1>1. UNCHANGED <<op, rstn, pc, delay>>  BY DEF Interrupt, Tick, mainVars
<1>2. steady' \in Nat /\ (steady > RESET_TIME => steady' > RESET_TIME)
  BY ResetConstant DEF Interrupt, ResetInv
<1>3. pc = "wait" => elapsed' = elapsed + 1
  <2> HAVE pc = "wait"
  <2>1. elapsed \in 0..(W - 1) /\ elapsed < W  BY WaitedTime, Widths
  <2> QED  BY <2>1 DEF Interrupt, Tick, CountTick
<1>4. steady <= RESET_TIME => steady' = steady + 1  BY DEF Interrupt
<1>5. Steadied => Steadied'
  BY <1>1, <1>2, <1>3, <1>4, ResetConstant DEF Steadied, ResetInv
<1> QED  BY <1>1, <1>2, <1>5 DEF ResetInv

\* The end of a wait comes when the pin has not moved for long enough.
LEMMA ResetClock ==
  ASSUME ResetInv, TbInv, Clock, UNCHANGED initVars
  PROVE  ResetInv'
<1>1. UNCHANGED <<op, rstn, steady>>  BY DEF initVars
<1>2. CASE op = "ready"  BY <1>1, <1>2 DEF ResetInv
<1>3. CASE op # "ready" /\ Elsewhere
  <2>1. pc = "idle" /\ pc' = "idle"  BY <1>3 DEF Elsewhere, mainVars
  <2> QED  BY <1>1, <1>3, <2>1 DEF ResetInv, Steadied
<1>4. CASE op # "ready" /\ WaitCheck
  <2>1. pc = "wait"  BY <1>4 DEF WaitCheck
  <2>2. op \in {"low", "high"} /\ Steadied  BY <1>4, <2>1 DEF ResetInv
  <2>3. CASE UNCHANGED <<pc, delay, elapsed>>
    BY <1>1, <2>2, <2>3 DEF ResetInv, Steadied
  <2>4. CASE pc' = "idle"
    <3>1. elapsed - 1 >= delay  BY <1>4, <2>4, DelayStep
    <3>2. elapsed \in Nat  BY WaitedTime, <2>1
    <3>3. steady > RESET_TIME
      BY <2>1, <2>2, <3>1, <3>2, ResetConstant DEF Steadied, ResetInv
    <3> QED  BY <1>1, <2>2, <2>4, <3>3 DEF ResetInv, Steadied
  <2> QED  BY <1>4, <2>3, <2>4 DEF WaitCheck
<1> QED  BY <1>2, <1>3, <1>4 DEF Clock

\* No step breaks it; the calls find the module ready.
LEMMA ResetStep == ResetInv /\ TbInv /\ ReadInv /\ [PrNext]_prVars => ResetInv'
<1> SUFFICES ASSUME ResetInv, TbInv, ReadInv, [PrNext]_prVars PROVE ResetInv'
  OBVIOUS
<1>1. CASE Interrupt  BY <1>1, ResetTick
<1>2. CASE ButtonMoves /\ UNCHANGED initVars
  BY <1>2 DEF ButtonMoves, mainVars, initVars, ResetInv, Steadied
<1>3. CASE Clock /\ UNCHANGED initVars  BY <1>3, ResetClock
<1>4. CASE Begun \/ ResetLow
  BY <1>4, ResetWaits, ResetGoesOn DEF Begun
<1>5. CASE op = "ready" /\ UNCHANGED initVars
  BY <1>5 DEF initVars, ResetInv
<1>6. ASSUME NEW t \in Timeouts, Receive(t) PROVE ResetInv'
  BY <1>6, <1>5 DEF Receive
<1>7. CASE Send  BY <1>7, <1>5 DEF Send
<1>8. CASE Loop
  <2>1. rx # "none" /\ UNCHANGED initVars
    BY <1>8 DEF Loop, PollIrq, PollTick, PollButton, ReadDone, WriteDone
  <2> QED  BY <1>5, <2>1 DEF ReadInv
<1>9. CASE UNCHANGED tbVars /\ UNCHANGED initVars
  BY <1>9 DEF tbVars, mainVars, initVars, ResetInv, Steadied
<1> QED
  BY <1>1, <1>2, <1>3, <1>4, <1>6, <1>7, <1>8, <1>9 DEF PrNext, IrqRises, prVars

\* At every place of platform_init and platform_bmlite_reset the waits so far were long
\* enough: while one runs, steady counts with the delay of the clock (platform.c 34-47).
THEOREM ResetInvariant == PrSpec => [](TbInv /\ ReadInv /\ ResetInv)
<1>1. PrInit => TbInv /\ ReadInv /\ ResetInv
  BY TbStart, ReadInit, ResetStart DEF PrInit
<1> QED  BY <1>1, ClockStep, ReadStep, ResetStep, PTL DEF PrSpec

\* The RESET pin stays down for as long as platform_bmlite_reset is to wait, and the
\* module gets as long before the first call, whatever the delay and the width of
\* systick (platform.c 41-47).
THEOREM ResetsKept == PrSpec => ResetKept
<1>1. ReadInv /\ ResetInv /\ [PrNext]_prVars =>
        [(~rstn /\ rstn') \/ (rx = "none" /\ rx' # "none") =>
           steady > RESET_TIME /\ (rx' # "none" => rstn)]_prVars
  <2> SUFFICES ASSUME ReadInv, ResetInv, PrNext,
                      (~rstn /\ rstn') \/ (rx = "none" /\ rx' # "none")
               PROVE  steady > RESET_TIME /\ (rx' # "none" => rstn)
    OBVIOUS
  <2>1. CASE op = "ready"  BY <2>1 DEF ResetInv
  <2>2. CASE op # "ready"
    <3>1. rx = "none"  BY <2>2 DEF ReadInv
    <3>2. UNCHANGED rx
      BY <2>2, <3>1
      DEF PrNext, Interrupt, Begun, BoardInit, TimebaseInit, ResetLow, ResetHigh,
          ResetReturn, Receive, Send, Loop, PollIrq, PollTick, PollButton, ReadDone,
          WriteDone, IrqRises, rxVars
    <3>3. ~rstn /\ rstn'  BY <3>1, <3>2
    <3>4. ResetHigh
      BY <2>2, <3>1, <3>3
      DEF PrNext, Interrupt, Begun, BoardInit, TimebaseInit, ResetLow,
          ResetReturn, Receive, Send, Loop, PollIrq, PollTick, PollButton, ReadDone,
          WriteDone, IrqRises, initVars
    <3>5. Steadied /\ pc = "idle"  BY <3>4 DEF ResetHigh, ResetInv
    <3> QED  BY <3>1, <3>2, <3>5 DEF Steadied
  <2> QED  BY <2>1, <2>2
<1> QED  BY <1>1, ResetInvariant, PTL DEF PrSpec, ResetKept

-----------------------------------------------------------------------------
(* Timeouts *)

\* The polls since the last look at the clock.
Polls == CASE rx = "button" -> 0 [] rx = "irq" -> 1 [] OTHER -> 2

\* waited is the time the loop measures; its last look at the clock found it early.
CallInv ==
  /\ rx \in {"none", "irq", "tick", "button", "read", "write"}
  /\ timeout \in Timeouts \cup {0}
  /\ start_time \in 0..(W - 1)
  /\ rx # "none" => outcome = "NONE" /\ pc = "idle"
  /\ rx \in {"irq", "tick", "button"} /\ timeout # 0 =>
       /\ waited \in Nat
       /\ systick = Word(start_time + waited)
       /\ InTime(start_time, curr_time)
       /\ waited < timeout + Polls * MaxLag + lag

\* A timeout and a turn of the loop end before systick has gone round.
LEMMA TimeoutBound ==
  ASSUME NEW t \in Timeouts
  PROVE  t \in Nat /\ t + 3 * MaxLag < W
BY PlatformAssumption

\* No call runs at the start.
LEMMA CallStart == PrInit => CallInv
BY Widths DEF PrInit, TbInit, CallInv

\* While the loop runs the two words it compares are as far apart as it has waited.
LEMMA CallTime ==
  ASSUME CallInv, TbInv, rx \in {"irq", "tick", "button"}, timeout # 0
  PROVE  /\ timeout \in Nat /\ waited \in 0..(W - 1)
         /\ waited < timeout + 3 * MaxLag
         /\ Minus(systick, start_time) = waited
<1>1. timeout \in Nat /\ timeout + 3 * MaxLag < W
  BY TimeoutBound DEF CallInv
<1>2. lag \in 0..MaxLag  BY DEF TbInv, TbTypeOK
<1>3. Polls \in {0, 1, 2}  BY DEF Polls
<1>4. Polls * MaxLag + lag <= 3 * MaxLag  BY <1>2, <1>3, Widths
<1>5. waited \in Nat /\ waited < timeout + 3 * MaxLag
  <2>1. Polls * MaxLag \in Nat  BY <1>3, Widths
  <2> QED  BY <1>1, <1>2, <1>4, <2>1, Widths DEF CallInv
<1>6. waited \in 0..(W - 1)  BY <1>1, <1>5, Widths
<1> QED  BY <1>1, <1>5, <1>6, MinusWord DEF CallInv

\* A call begins with a look at the clock,
LEMMA CallBegins ==
  ASSUME CallInv, TbInv, NEW t \in Timeouts, Receive(t)
  PROVE  CallInv'
<1>1. /\ rx' = "irq" /\ timeout' = t /\ start_time' = systick
      /\ curr_time' = systick /\ outcome' = "NONE" /\ waited' = 0
      /\ lag' = 0 /\ systick' = systick /\ pc' = "idle"
  BY DEF Receive, MainStep, mainVars
<1>2. systick \in 0..(W - 1)  BY DEF TbInv, TbTypeOK
<1>3. t \in Nat  BY TimeoutBound
<1>4. systick = Word(systick + 0) /\ Minus(systick, systick) = 0
  BY <1>2, WordZero, Widths DEF Minus
<1>5. t # 0 => InTime(start_time, curr_time)'
  BY <1>1, <1>3, <1>4 DEF InTime
<1>6. Polls' = 1  BY <1>1 DEF Polls
<1>7. t # 0 => 0 < t + 1 * MaxLag + 0  BY <1>3, Widths
<1> QED  BY <1>1, <1>2, <1>4, <1>5, <1>6, <1>7 DEF CallInv

\* the time goes on,
LEMMA CallTick ==
  ASSUME CallInv, TbInv, Interrupt
  PROVE  CallInv'
<1>1. UNCHANGED <<rx, timeout, start_time, curr_time, outcome, pc>>
  BY DEF Interrupt, rxVars, Tick, mainVars
<1>2. CASE rx \in {"irq", "tick", "button"} /\ timeout # 0
  <2>1. /\ timeout \in Nat /\ waited \in 0..(W - 1) /\ waited < timeout + 3 * MaxLag
        /\ timeout + 3 * MaxLag < W
    BY <1>2, CallTime, TimeoutBound DEF CallInv
  <2>2. waited + 1 <= timeout + 3 * MaxLag /\ waited \in 0..(W - 2)
    BY <2>1, Widths
  <2>3. waited' = waited + 1
    <3>1. rx # "none" /\ waited < W  BY <1>2, <2>1, Widths
    <3>2. waited' = CountTick(waited)  BY <1>2, <3>1 DEF Interrupt
    <3> QED  BY <3>1, <3>2, <2>1, Widths DEF CountTick
  <2>4. systick' = Word(start_time + waited')
    <3>1. systick' = Word(systick + 1)  BY DEF Interrupt, Tick
    <3> QED  BY <1>2, <2>2, <2>3, <3>1, NextWord DEF CallInv
  <2>5. lag' = lag + 1 /\ lag \in Nat
    BY Widths DEF Interrupt, Tick, TbInv, TbTypeOK
  <2>6. UNCHANGED Polls /\ Polls \in {0, 1, 2}  BY <1>1 DEF Polls
  <2>7. waited' < timeout + Polls * MaxLag + lag'
    <3>1. Polls * MaxLag \in Nat  BY <2>6, Widths
    <3> QED  BY <1>2, <2>1, <2>3, <2>5, <3>1 DEF CallInv
  <2> QED
    BY <1>1, <1>2, <2>1, <2>3, <2>4, <2>6, <2>7 DEF CallInv, InTime
<1>3. CASE ~(rx \in {"irq", "tick", "button"} /\ timeout # 0)
  BY <1>1, <1>3 DEF CallInv
<1> QED  BY <1>2, <1>3

\* a poll moves on,
LEMMA CallPolls ==
  ASSUME CallInv, TbInv, MainStep, UNCHANGED <<timeout, start_time, outcome, waited>>,
         rx \in {"irq", "tick", "button"}, rx' \in {"irq", "tick", "button"},
         timeout # 0 => InTime(start_time, curr_time)',
         timeout # 0 => waited < timeout + Polls' * MaxLag
  PROVE  CallInv'
<1>1. UNCHANGED <<systick, pc>> /\ lag' = 0  BY DEF MainStep, mainVars
<1>2. ASSUME timeout # 0 PROVE waited' < timeout' + Polls' * MaxLag + lag'
  <2>1. timeout \in Nat /\ waited \in Nat  BY <1>2, CallTime
  <2>2. Polls' * MaxLag \in Nat  BY Widths DEF Polls
  <2> QED  BY <1>1, <1>2, <2>1, <2>2
<1> QED  BY <1>1, <1>2 DEF CallInv

\* or the call returns.
LEMMA CallReturns ==
  ASSUME CallInv, NEW r, NEW b, Return(r, b)
  PROVE  CallInv'
BY Widths DEF Return, CallInv

\* What the loop has measured is of no use once the data is transferred.
LEMMA CallLeaves ==
  ASSUME CallInv, TbInv, MainStep, rx # "none", rx' \in {"read", "write"},
         UNCHANGED <<timeout, start_time, outcome>>
  PROVE  CallInv'
BY DEF MainStep, mainVars, CallInv

\* A look at the pin,
LEMMA PollIrqStep ==
  ASSUME CallInv, TbInv, PollIrq
  PROVE  CallInv' /\ outcome' # "TIMEOUT"
<1>1. MainStep /\ UNCHANGED waited /\ rx = "irq" /\ outcome = "NONE"
  BY DEF PollIrq, CallInv
<1>2. CASE irq /\ LeaveLoop(curr_time)
  <2>1. timeout # 0 => InTime(start_time, curr_time)  BY <1>1 DEF CallInv
  <2>2. rx' = "read" /\ UNCHANGED <<timeout, start_time, outcome>>
    BY <1>2, <2>1 DEF LeaveLoop
  <2> QED  BY <1>1, <2>2, CallLeaves
<1>3. CASE ~irq
  <2>1. /\ rx' = IF timeout = 0 THEN "button" ELSE "tick"
        /\ UNCHANGED <<timeout, start_time, curr_time, outcome>>
    BY <1>3 DEF PollIrq
  <2>2. timeout # 0 => InTime(start_time, curr_time)'
    BY <1>1, <2>1 DEF CallInv, InTime
  <2>3. ASSUME timeout # 0 PROVE waited < timeout + Polls' * MaxLag
    <3>1. Polls = 1 /\ Polls' = 2  BY <1>1, <2>1, <2>3 DEF Polls
    <3>2. timeout \in Nat /\ waited \in Nat  BY <1>1, <2>3, CallTime
    <3>3. waited < timeout + 1 * MaxLag + lag  BY <1>1, <2>3, <3>1 DEF CallInv
    <3>4. lag \in 0..MaxLag  BY DEF TbInv, TbTypeOK
    <3> QED  BY <3>1, <3>2, <3>3, <3>4, Widths
  <2> QED  BY <1>1, <2>1, <2>2, <2>3, CallPolls
<1> QED  BY <1>2, <1>3 DEF PollIrq

\* at the clock, which finds the timeout over as soon as it is,
LEMMA PollTickStep ==
  ASSUME CallInv, ReadInv, TbInv, PollTick
  PROVE  /\ CallInv'
         /\ outcome' = "TIMEOUT" => waited >= timeout /\ waited < timeout + 3 * MaxLag
<1>1. MainStep /\ UNCHANGED waited /\ rx = "tick" /\ timeout # 0 /\ outcome = "NONE"
  BY DEF PollTick, CallInv, ReadInv
<1>2. /\ timeout \in Nat /\ waited \in Nat /\ waited < timeout + 3 * MaxLag
      /\ InTime(start_time, systick) <=> waited < timeout
  BY <1>1, CallTime DEF InTime
<1>3. CASE InTime(start_time, systick)
  <2>1. rx' = "button" /\ curr_time' = systick /\ UNCHANGED <<timeout, start_time, outcome>>
    BY <1>3 DEF PollTick
  <2>2. InTime(start_time, curr_time)'  BY <1>3, <2>1 DEF InTime
  <2>3. waited < timeout + Polls' * MaxLag
    <3>1. Polls' = 0  BY <2>1 DEF Polls
    <3> QED  BY <1>2, <1>3, <3>1, Widths
  <2> QED  BY <1>1, <2>1, <2>2, <2>3, CallPolls
<1>4. CASE ~InTime(start_time, systick) /\ LeaveLoop(systick)
  <2>1. Return("TIMEOUT", FALSE)  BY <1>1, <1>4 DEF LeaveLoop
  <2>2. CallInv'  BY <2>1, CallReturns
  <2>3. waited >= timeout  BY <1>2, <1>4
  <2> QED  BY <1>2, <2>2, <2>3
<1> QED  BY <1>3, <1>4 DEF PollTick

\* at the button,
LEMMA PollButtonStep ==
  ASSUME CallInv, TbInv, PollButton
  PROVE  CallInv' /\ (outcome' = "TIMEOUT" => broken')
<1>1. MainStep /\ UNCHANGED waited /\ rx = "button" /\ outcome = "NONE"
  BY DEF PollButton, CallInv
<1>2. CASE Return("TIMEOUT", TRUE)
  BY <1>2, CallReturns DEF Return
<1>3. CASE rx' = "irq" /\ UNCHANGED <<timeout, start_time, curr_time, outcome>>
  <2>1. timeout # 0 => InTime(start_time, curr_time)'
    BY <1>1, <1>3 DEF CallInv, InTime
  <2>2. ASSUME timeout # 0 PROVE waited < timeout + Polls' * MaxLag
    <3>1. Polls = 0 /\ Polls' = 1  BY <1>1, <1>3 DEF Polls
    <3>2. timeout \in Nat /\ waited \in Nat  BY <1>1, <2>2, CallTime
    <3>3. waited < timeout + 0 * MaxLag + lag  BY <1>1, <2>2, <3>1 DEF CallInv
    <3>4. lag \in 0..MaxLag  BY DEF TbInv, TbTypeOK
    <3> QED  BY <3>1, <3>2, <3>3, <3>4, Widths
  <2> QED  BY <1>1, <1>3, <2>1, <2>2, CallPolls
<1> QED  BY <1>2, <1>3 DEF PollButton

\* and the end of a transfer.
LEMMA DoneStep ==
  ASSUME CallInv, ReadDone \/ WriteDone
  PROVE  CallInv' /\ outcome' = "OK"
<1>1. Return("OK", FALSE)  BY DEF ReadDone, WriteDone
<1> QED  BY <1>1, CallReturns DEF Return

\* Steps that are no part of a call.
LEMMA CallElse ==
  ASSUME CallInv, rx = "none", rx' = "none", UNCHANGED <<timeout, start_time>>
  PROVE  CallInv'
BY DEF CallInv

\* No step breaks it.
LEMMA CallStep == CallInv /\ TbInv /\ ReadInv /\ [PrNext]_prVars => CallInv'
<1> SUFFICES ASSUME CallInv, TbInv, ReadInv, [PrNext]_prVars PROVE CallInv'
  OBVIOUS
<1>1. CASE Interrupt  BY <1>1, CallTick
<1>2. CASE ButtonMoves /\ UNCHANGED <<rxVars, waited>>
  BY <1>2 DEF ButtonMoves, mainVars, rxVars, CallInv, Polls, InTime
<1>3. CASE Clock /\ UNCHANGED rxVars
  <2>1. rx = "none"  BY <1>3 DEF Clock, ReadInv
  <2> QED  BY <1>3, <2>1, CallElse DEF rxVars
<1>4. CASE Begun \/ ResetLow
  <2>1. rx = "none" /\ UNCHANGED rxVars
    BY <1>4
    DEF ReadInv, Begun, BoardInit, TimebaseInit, ResetLow, ResetHigh, ResetReturn
  <2> QED  BY <2>1, CallElse DEF rxVars
<1>5. ASSUME NEW t \in Timeouts, Receive(t) PROVE CallInv'  BY <1>5, CallBegins
<1>6. CASE Send  BY <1>6 DEF Send, MainStep, mainVars, CallInv
<1>7. CASE Loop
  BY <1>7, PollIrqStep, PollTickStep, PollButtonStep, DoneStep DEF Loop
<1>8. CASE UNCHANGED <<tbVars, rxVars, waited>>
  BY <1>8 DEF tbVars, mainVars, rxVars, CallInv, Polls, InTime
<1> QED
  BY <1>1, <1>2, <1>3, <1>4, <1>5, <1>6, <1>7, <1>8 DEF PrNext, IrqRises, prVars

\* The loop of platform_bmlite_receive measures the time it waits, and its last look at
\* the clock was early (platform.c 61-68).
THEOREM CallInvariant == PrSpec => [](TbInv /\ ReadInv /\ CallInv)
<1>1. PrInit => TbInv /\ ReadInv /\ CallInv
  BY TbStart, ReadInit, CallStart DEF PrInit
<1> QED  BY <1>1, ClockStep, ReadStep, CallStep, PTL DEF PrSpec

\* platform_bmlite_receive returns TIMEOUT for a press, or when its timeout has passed
\* and no later than one turn of its loop after that, wherever systick goes round
\* (platform.c 57-75).
THEOREM TimeoutsKept == PrSpec => TimeoutKept
<1>1. CallInv /\ TbInv /\ ReadInv /\ [PrNext]_prVars =>
        [rx # "none" /\ outcome' = "TIMEOUT" =>
           broken' \/ (waited >= timeout /\ waited < timeout + 3 * MaxLag)]_prVars
  <2> SUFFICES ASSUME CallInv, TbInv, ReadInv, PrNext,
                      rx # "none", outcome' = "TIMEOUT"
               PROVE  broken' \/ (waited >= timeout /\ waited < timeout + 3 * MaxLag)
    OBVIOUS
  <2>1. outcome # outcome'  BY DEF CallInv
  <2>2. Loop
    BY <2>1
    DEF PrNext, Interrupt, Begun, BoardInit, TimebaseInit, ResetLow, ResetHigh,
        ResetReturn, Receive, Send, IrqRises, rxVars
  <2> QED
    BY <2>2, PollIrqStep, PollTickStep, PollButtonStep, DoneStep DEF Loop
<1> QED  BY <1>1, CallInvariant, PTL DEF PrSpec, TimeoutKept

=============================================================================
