------------------------------ MODULE Timebase ------------------------------
(***************************************************************************)
(* The clock and the UI button of the board (HAL_Driver/src/               *)
(* hal_timebase.c): a timer interrupt counts milliseconds and watches the  *)
(* button, while the main program waits for a delay to pass                *)
(* (hal_timebase_busy_wait) or asks how long the button was pressed        *)
(* (hal_get_button_press_time).                                            *)
(*                                                                         *)
(* The interrupt runs to its end whenever it comes, so it is one action.   *)
(* The main program is cut at every access to a variable they share.       *)
(***************************************************************************)
EXTENDS Integers

CONSTANTS
  W,        \* number of values of systick; 2^32
  Delays,   \* delays the program waits for
  MaxHold,  \* bound on the ticks the button is held; less than 49 days
  MaxLag    \* ticks that may come between two steps of the main program

\* The program looks at the clock often enough not to miss it going round: a turn
\* of a waiting loop takes microseconds, going round takes 49 days.
ASSUME TimebaseAssumption ==
  /\ W \in Nat
  /\ MaxLag \in Nat /\ MaxLag > 0
  /\ MaxHold \in Nat /\ MaxHold > 0 /\ MaxHold < W
  /\ Delays \subseteq Nat
  /\ \A d \in Delays : d + 1 + MaxLag < W

VARIABLES
  \* shared between the interrupt and the main program
  systick,
  button_pressed_time,
  \* the interrupt's own
  btn_press_start,
  btn_pressed,
  \* the main program
  pc,              \* "idle", "get" or "wait"
  delay,           \* of hal_timebase_busy_wait
  delay_internal,
  start,
  time,            \* of hal_get_button_press_time
  \* the world
  button,          \* the button is down
  held,            \* ticks since the interrupt noticed it went down
  lastPress,       \* length of the last press
  unread,          \* nobody has asked for it
  elapsed,         \* ticks since the running wait began
  lag              \* ticks since the main program's last step

isrVars  == <<btn_press_start, btn_pressed>>
mainVars == <<pc, delay, delay_internal, start, time>>
tbVars   == <<systick, button_pressed_time, isrVars, mainVars, button, held,
              lastPress, unread, elapsed, lag>>

-----------------------------------------------------------------------------
(* uint32_t arithmetic *)

Word(a)     == IF a >= W THEN a - W ELSE a     \* a sum of two words
Minus(a, b) == IF a >= b THEN a - b ELSE a - b + W
Not(a)      == W - 1 - a

-----------------------------------------------------------------------------
(* The two computations of times.  Beside them variants with a mistake, not    *)
(* used by the specification, that show which property would notice.           *)

\* What check_buttons makes of a press from tick s to tick now.
PressTimeNoWrap(s, now) == now - s
PressTimeShort(s, now) == IF now > s THEN now - s ELSE Word(now + Not(s))
PressTime(s, now) == IF now > s THEN now - s ELSE Word(now + Not(s) + 1)

\* delay_internal: one more for the tick that is already under way.
DelayTicksBare(d) == d
DelayTicks(d) == d + 1

\* The loop of hal_timebase_busy_wait goes on.
StillEarlySigned(s, now, d) == now < s + d
StillEarly(s, now, d) == Minus(now, s) < d

-----------------------------------------------------------------------------
(* The interrupt *)

\* check_buttons at the tick now, the button being down or not.
CheckButtons(now, down) ==
  \/ /\ down /\ btn_pressed = 0
     /\ btn_press_start' = now
     /\ btn_pressed' = 1
     /\ held' = 0
     /\ UNCHANGED <<button_pressed_time, lastPress, unread>>
  \/ /\ down /\ btn_pressed = 1
     /\ held' = held + 1
     /\ UNCHANGED <<isrVars, button_pressed_time, lastPress, unread>>
  \/ /\ ~down /\ btn_pressed = 1
     /\ button_pressed_time' = PressTime(btn_press_start, now)
     /\ btn_pressed' = 0
     /\ held' = 0
     /\ lastPress' = held + 1
     /\ unread' = TRUE
     /\ UNCHANGED btn_press_start
  \/ /\ ~down /\ btn_pressed = 0
     /\ UNCHANGED <<isrVars, button_pressed_time, held, lastPress, unread>>

\* A count of ticks that stops at W, more than any wait takes.
CountTick(n) == IF n < W THEN n + 1 ELSE n

\* timer_event_handler.  The user lets go of the button before MaxHold.
Tick ==
  /\ lag < MaxLag
  /\ lag' = lag + 1
  /\ systick' = Word(systick + 1)
  /\ elapsed' = IF pc = "wait" THEN CountTick(elapsed) ELSE 0
  /\ button' = (button /\ ~(btn_pressed = 1 /\ held + 1 = MaxHold))
  /\ CheckButtons(systick', button')
  /\ UNCHANGED mainVars

\* The user.
ButtonMoves ==
  /\ button' = ~button
  /\ UNCHANGED <<systick, button_pressed_time, isrVars, mainVars, held,
                 lastPress, unread, elapsed, lag>>

-----------------------------------------------------------------------------
(* The main program.  The locals of a function that returns go back to 0. *)

\* hal_get_button_press_time reads the time and, a step later, clears it.
GetRead ==
  /\ pc = "idle"
  /\ time' = button_pressed_time
  /\ unread' = FALSE
  /\ pc' = "get"
  /\ lag' = 0
  /\ UNCHANGED <<systick, button_pressed_time, isrVars, delay, delay_internal,
                 start, button, held, lastPress, elapsed>>

GetClear ==
  /\ pc = "get"
  /\ button_pressed_time' = 0
  /\ time' = 0
  /\ pc' = "idle"
  /\ lag' = 0
  /\ UNCHANGED <<systick, isrVars, delay, delay_internal, start, button, held,
                 lastPress, unread, elapsed>>

\* hal_timebase_busy_wait.  A delay of 0 is skipped.
WaitStart(d) ==
  /\ pc = "idle"
  /\ d > 0
  /\ delay' = d
  /\ delay_internal' = DelayTicks(d)
  /\ start' = systick
  /\ elapsed' = 0
  /\ pc' = "wait"
  /\ lag' = 0
  /\ UNCHANGED <<systick, button_pressed_time, isrVars, time, button, held,
                 lastPress, unread>>

WaitCheck ==
  /\ pc = "wait"
  /\ \/ /\ StillEarly(start, systick, delay_internal)
        /\ UNCHANGED <<pc, delay, delay_internal, start, elapsed>>
     \/ /\ ~StillEarly(start, systick, delay_internal)
        /\ pc' = "idle"
        /\ delay' = 0 /\ delay_internal' = 0 /\ start' = 0 /\ elapsed' = 0
  /\ lag' = 0
  /\ UNCHANGED <<systick, button_pressed_time, isrVars, time, button, held,
                 lastPress, unread>>

\* The main program does something else that takes time.
Elsewhere ==
  /\ pc = "idle"
  /\ lag > 0
  /\ lag' = 0
  /\ UNCHANGED <<systick, button_pressed_time, isrVars, mainVars, button, held,
                 lastPress, unread, elapsed>>

-----------------------------------------------------------------------------

\* systick is zero at power-up; any value is reached later, so any is a start.
TbInit ==
  /\ systick \in 0..(W - 1)
  /\ button_pressed_time = 0
  /\ btn_press_start = 0
  /\ btn_pressed = 0
  /\ pc = "idle"
  /\ delay = 0
  /\ delay_internal = 0
  /\ start = 0
  /\ time = 0
  /\ button = FALSE
  /\ held = 0
  /\ lastPress = 0
  /\ unread = FALSE
  /\ elapsed = 0
  /\ lag = 0

Main == \/ GetRead \/ GetClear
        \/ (\E d \in Delays : WaitStart(d)) \/ WaitCheck
        \/ Elsewhere

TbNext == Tick \/ ButtonMoves \/ Main

TbSpec == TbInit /\ [][TbNext]_tbVars

\* The timer is never disabled and the processor runs on.
TbFairness == WF_tbVars(Tick) /\ WF_tbVars(WaitCheck) /\ WF_tbVars(Elsewhere)

TbFairSpec == TbSpec /\ TbFairness

-----------------------------------------------------------------------------
(* Properties *)

\* The types; systick and the times derived from it stay below W.
TbTypeOK ==
  /\ systick \in 0..(W - 1)
  /\ button_pressed_time \in 0..(W - 1)
  /\ btn_press_start \in 0..(W - 1)
  /\ btn_pressed \in {0, 1}
  /\ pc \in {"idle", "get", "wait"}
  /\ delay \in 0..(W - 1)
  /\ start \in 0..(W - 1)
  /\ delay_internal \in 0..(W - 1)
  /\ time \in 0..(W - 1)
  /\ button \in BOOLEAN
  /\ held \in 0..MaxHold
  /\ lastPress \in 0..MaxHold
  /\ unread \in BOOLEAN
  /\ elapsed \in 0..W
  /\ lag \in 0..MaxLag

\* A reported press time is the length of the last press in ticks, also when
\* systick has gone round while the button was down (check_buttons 110-115).
PressTimeExact == button_pressed_time \in {0, lastPress}

\* hal_timebase_busy_wait(delay) takes at least delay milliseconds, of which the
\* first tick may have been any part, as bmlite_hal.h says ("1 => wait at least
\* 1ms"), and ends at the first look at the clock after that, also across a wrap
\* of systick.
DelayKept ==
  [][pc = "wait" /\ pc' = "idle" =>
       elapsed - 1 >= delay /\ elapsed <= delay + MaxLag]_tbVars

\* Every delay ends.
DelayEnds == pc = "wait" ~> pc = "idle"

\* A press stays on record until hal_get_button_press_time has returned its length
\* ("How long UI button was pressed last time. Also it should reset button pressed
\* time counter").
PressKept == unread => button_pressed_time = lastPress

=============================================================================
