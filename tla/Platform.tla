------------------------------- MODULE Platform -------------------------------
(***************************************************************************)
(* The platform functions (BMLite_sdk/src/platform.c): platform_init and   *)
(* platform_bmlite_reset bring the BM-Lite module into its initial state,  *)
(* platform_bmlite_send and platform_bmlite_receive transfer data.  Every  *)
(* read of HCP waits in the latter for the module to raise its IRQ pin,    *)
(* which a timeout or a press of the UI button breaks off.  They are       *)
(* composed with Timebase, whose interrupt moves the clock and notices the *)
(* button while the loops look at them in turn.                            *)
(*                                                                         *)
(* HcpTransport takes each read to be one step that either finds a unit or *)
(* times out; this module is about what happens inside that step.          *)
(***************************************************************************)
EXTENDS Timebase

CONSTANTS
  Timeouts,    \* timeouts the callers ask for; 0 waits for ever
  RESET_TIME   \* of platform_bmlite_reset, twice; 100

\* As in TimebaseAssumption, with three polls to a turn of the loop.
ASSUME PlatformAssumption ==
  /\ RESET_TIME \in Nat /\ RESET_TIME > 0
  /\ RESET_TIME + 1 + MaxLag < W
  /\ Timeouts \subseteq Nat
  /\ \A t \in Timeouts : t + 3 * MaxLag < W

VARIABLES
  op,          \* where platform_init or platform_bmlite_reset is: "board",
               \* "timer", "reset", "low", "high"; "ready" when none runs
  timer,       \* the timer interrupt is enabled
  rstn,        \* the RESET pin; FALSE holds the module in reset
  rx,          \* "none", or what the loop polls next: "irq", "tick", "button";
               \* "read" or "write" while SPI transfers the data
  timeout,
  start_time,
  curr_time,
  outcome,     \* what the last call returned, "NONE" before and during it
  irq,         \* the IRQ pin
  broken,      \* history: the last call was broken off by the button
  waited,      \* history: ticks since the running call began
  steady       \* history: ticks since the RESET pin moved

rxVars == <<rx, timeout, start_time, curr_time, outcome, broken>>
initVars == <<op, timer, rstn, steady>>
prVars == <<tbVars, rxVars, initVars, irq, waited>>

\* The rest of Timebase during a step of a function that does not wait in it.
MainStep ==
  /\ pc = "idle"
  /\ lag' = 0
  /\ UNCHANGED <<systick, button_pressed_time, isrVars, mainVars, button, held,
                 lastPress, unread, elapsed>>

-----------------------------------------------------------------------------
(* platform_init, platform_bmlite_reset *)

\* hal_board_init drives the RESET pin high.  What it returns is OK.
BoardInit ==
  /\ op = "board"
  /\ MainStep
  /\ op' = "timer"
  /\ UNCHANGED <<timer, rstn, steady, rxVars, irq, waited>>

\* hal_timebase_init.  (The first would wait for a clock that stands still.)
TimebaseInitLate ==
  /\ op = "timer"
  /\ MainStep
  /\ op' = "reset"
  /\ UNCHANGED <<timer, rstn, steady, rxVars, irq, waited>>

TimebaseInit ==
  /\ op = "timer"
  /\ MainStep
  /\ timer' = TRUE
  /\ op' = "reset"
  /\ UNCHANGED <<rstn, steady, rxVars, irq, waited>>

\* hal_bmlite_reset and the wait behind it, for platform_init or the application.
ResetLow ==
  /\ op = "reset" \/ (op = "ready" /\ rx = "none")
  /\ rstn' = FALSE
  /\ irq' = FALSE
  /\ steady' = 0
  /\ WaitStart(RESET_TIME)
  /\ op' = "low"
  /\ UNCHANGED <<timer, rxVars, waited>>

\* (The first does not give the module time to start.)
ResetHighUnwaited ==
  /\ op = "low" /\ pc = "idle"
  /\ rstn' = TRUE
  /\ steady' = 0
  /\ MainStep
  /\ op' = "high"
  /\ UNCHANGED <<timer, rxVars, irq, waited>>

ResetHigh ==
  /\ op = "low" /\ pc = "idle"
  /\ rstn' = TRUE
  /\ steady' = 0
  /\ WaitStart(RESET_TIME)
  /\ op' = "high"
  /\ UNCHANGED <<timer, rxVars, irq, waited>>

ResetReturn ==
  /\ op = "high" /\ pc = "idle"
  /\ MainStep
  /\ op' = "ready"
  /\ UNCHANGED <<timer, rstn, steady, rxVars, irq, waited>>

-----------------------------------------------------------------------------
(* platform_bmlite_receive, platform_bmlite_send *)

\* The time is not up at tick now.  (The first two compare with a sum that goes
\* past the end of the word, or round it.)
InTimeNoWrap(s, now) == now < s + timeout
InTimeDeadline(s, now) == now < Word(s + timeout)
InTime(s, now) == Minus(now, s) < timeout

Return(result, byButton) ==
  /\ rx' = "none"
  /\ outcome' = result
  /\ broken' = byButton
  /\ timeout' = 0 /\ start_time' = 0 /\ curr_time' = 0

\* The code behind the loop, with the time of the last look at the clock.  (The
\* first takes the end of the loop to mean that the pin is up.)
LeaveLoopUnchecked(now) ==
  /\ rx' = "read"
  /\ UNCHANGED <<timeout, start_time, curr_time, outcome, broken>>

LeaveLoop(now) ==
  \/ /\ timeout # 0 /\ ~InTime(start_time, now)
     /\ Return("TIMEOUT", FALSE)
  \/ /\ timeout = 0 \/ InTime(start_time, now)
     /\ rx' = "read"
     /\ UNCHANGED <<timeout, start_time, curr_time, outcome, broken>>

Receive(t) ==
  /\ op = "ready" /\ rx = "none"
  /\ MainStep
  /\ rx' = "irq"
  /\ timeout' = t
  /\ start_time' = systick
  /\ curr_time' = systick
  /\ outcome' = "NONE"
  /\ broken' = FALSE
  /\ waited' = 0
  /\ UNCHANGED <<initVars, irq>>

\* The condition of the loop: first the pin, then the clock unless timeout is 0.
PollIrq ==
  /\ rx = "irq"
  /\ MainStep
  /\ \/ /\ irq
        /\ LeaveLoop(curr_time)
     \/ /\ ~irq
        /\ rx' = IF timeout = 0 THEN "button" ELSE "tick"
        /\ UNCHANGED <<timeout, start_time, curr_time, outcome, broken>>
  /\ UNCHANGED <<initVars, irq, waited>>

PollTick ==
  /\ rx = "tick"
  /\ MainStep
  /\ \/ /\ InTime(start_time, systick)
        /\ curr_time' = systick
        /\ rx' = "button"
        /\ UNCHANGED <<timeout, start_time, outcome, broken>>
     \/ /\ ~InTime(start_time, systick)
        /\ LeaveLoop(systick)
  /\ UNCHANGED <<initVars, irq, waited>>

\* hal_check_button_pressed, in the body of the loop.  (The first looks for a
\* press only when there is a timeout to cut short.)
PressedIfTimed == timeout # 0 /\ button_pressed_time # 0
Pressed == button_pressed_time # 0

PollButton ==
  /\ rx = "button"
  /\ MainStep
  /\ \/ /\ Pressed
        /\ Return("TIMEOUT", TRUE)
     \/ /\ ~Pressed
        /\ rx' = "irq"
        /\ UNCHANGED <<timeout, start_time, curr_time, outcome, broken>>
  /\ UNCHANGED <<initVars, irq, waited>>

\* hal_bmlite_spi_write_read has transferred the data; the module lowers the pin,
\* or keeps it up if it has more.
ReadDone ==
  /\ rx = "read"
  /\ MainStep
  /\ Return("OK", FALSE)
  /\ irq' \in BOOLEAN
  /\ UNCHANGED <<initVars, waited>>

\* A write does not wait for the pin; its timeout is not used.
Send ==
  /\ op = "ready" /\ rx = "none"
  /\ MainStep
  /\ rx' = "write"
  /\ outcome' = "NONE"
  /\ broken' = FALSE
  /\ UNCHANGED <<timeout, start_time, curr_time, initVars, irq, waited>>

WriteDone ==
  /\ rx = "write"
  /\ MainStep
  /\ Return("OK", FALSE)
  /\ UNCHANGED <<initVars, irq, waited>>

\* The module has something to send.
IrqRises ==
  /\ ~irq /\ rstn
  /\ irq' = TRUE
  /\ UNCHANGED <<tbVars, rxVars, initVars, waited>>

-----------------------------------------------------------------------------

PrInit ==
  /\ TbInit
  /\ op = "board"
  /\ timer = FALSE
  /\ rstn = TRUE
  /\ rx = "none"
  /\ timeout = 0
  /\ start_time = 0
  /\ curr_time = 0
  /\ outcome = "NONE"
  /\ irq = FALSE
  /\ broken = FALSE
  /\ waited = 0
  /\ steady = 0

\* The interrupt goes on in the middle of a call; the other functions do not.
\* steady need not go past what a reset waits for.
Interrupt ==
  /\ timer
  /\ Tick
  /\ waited' = IF rx = "none" \/ timeout = 0 THEN 0 ELSE CountTick(waited)
  /\ steady' = IF steady <= RESET_TIME THEN steady + 1 ELSE steady
  /\ UNCHANGED <<op, timer, rstn, rxVars, irq>>

Loop == PollIrq \/ PollTick \/ PollButton \/ ReadDone \/ WriteDone

Begun == BoardInit \/ TimebaseInit \/ (op # "ready" /\ ResetLow) \/ ResetHigh
         \/ ResetReturn

\* Other functions of hal_timebase.c, or the wait of a reset.
Clock == \/ op = "ready" /\ rx = "none" /\ Main
         \/ op # "ready" /\ (WaitCheck \/ Elsewhere)

PrNext ==
  \/ Interrupt
  \/ ButtonMoves /\ UNCHANGED <<rxVars, initVars, irq, waited>>
  \/ Clock /\ UNCHANGED <<rxVars, initVars, irq, waited>>
  \/ Begun
  \/ op = "ready" /\ ResetLow
  \/ \E t \in Timeouts : Receive(t)
  \/ Send
  \/ Loop
  \/ IrqRises

PrSpec == PrInit /\ [][PrNext]_prVars

\* As TbFairness; what has begun goes on.  The module and the callers owe nothing.
PrFairness ==
  /\ WF_prVars(Interrupt)
  /\ WF_prVars(Loop)
  /\ WF_prVars(Begun)
  /\ WF_prVars((op # "ready" \/ rx = "none") /\ (GetClear \/ WaitCheck \/ Elsewhere)
               /\ UNCHANGED <<rxVars, initVars, irq, waited>>)

PrFairSpec == PrSpec /\ PrFairness

-----------------------------------------------------------------------------
(* Properties *)

\* Data is transferred only while the module holds its pin up: never after a
\* timeout, a press or on a stale look at the clock (platform.c 63-74).
ReadOnlyWhenReady == rx = "read" => irq

\* The RESET pin is down for RESET_TIME before it goes up, and up for as long before
\* anything is asked of the module, the part of a tick aside (platform.c 41-47,
\* with hal_timebase_busy_wait under it).
ResetKept ==
  [][(~rstn /\ rstn') \/ (rx = "none" /\ rx' # "none") =>
       steady > RESET_TIME /\ (rx' # "none" => rstn)]_prVars

\* platform_init and platform_bmlite_reset return: the clock they wait for runs.
ResetReturns == op # "ready" ~> op = "ready"

\* TIMEOUT means that the button was pressed or that timeout ticks have passed,
\* and a call does not outlast its timeout by more than one turn of its loop,
\* wherever systick goes round in between.
TimeoutKept ==
  [][rx # "none" /\ outcome' = "TIMEOUT" =>
       broken' \/ (waited >= timeout /\ waited < timeout + 3 * MaxLag)]_prVars

\* A call with a timeout returns.
ReceiveReturns == (rx # "none" /\ timeout # 0) ~> rx = "none"

\* Also a call without a timeout returns once the pin is up or a press is on
\* record ("The waiting loop will be breaked if hal_check_button_pressed() returns
\* non-zero value").
ReceiveBreaks == (rx # "none" /\ (irq \/ button_pressed_time # 0)) ~> rx = "none"

=============================================================================
