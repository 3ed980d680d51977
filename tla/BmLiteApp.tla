------------------------------ MODULE BmLiteApp ------------------------------
(***************************************************************************)
(* The example application (BMLite_example/src/main.c) with the functions  *)
(* of the command layer it calls (BMLite_sdk/src/bmlite_if.c): each turn   *)
(* of the main loop looks at the button, enrolls a finger or erases all    *)
(* templates if it was pressed, then identifies a finger and waits for it  *)
(* to be lifted.                                                           *)
(*                                                                         *)
(* One call of bmlite_tranceive is one step, the step in which it returns. *)
(* How it can end is what HcpTransport and Platform show: it is            *)
(* broken off while a press is on record, times out only when it has a     *)
(* timeout, and otherwise brings an answer of the module, which says in    *)
(* bep_result whether the command was carried out.  IO_ERROR stands for    *)
(* every error but TIMEOUT: nothing here tells them apart.                 *)
(***************************************************************************)
EXTENDS Integers, FiniteSets

CONSTANTS
  MAX_CAPTURE_ATTEMPTS,         \* of bep_enroll_finger; 15
  MAX_SINGLE_CAPTURE_ATTEMPTS,  \* of bep_capture; 3
  IDS,                          \* number of template ids; 2^16
  Disturbed                     \* the bus may be disturbed

ASSUME AppAssumption ==
  /\ MAX_CAPTURE_ATTEMPTS \in Nat /\ MAX_CAPTURE_ATTEMPTS > 0
  /\ MAX_SINGLE_CAPTURE_ATTEMPTS \in Nat /\ MAX_SINGLE_CAPTURE_ATTEMPTS > 0
  /\ IDS \in Nat /\ IDS > 0
  /\ Disturbed \in BOOLEAN

VARIABLES
  pc,              \* the command whose answer is awaited, or what comes next
  phy_rx_timeout,  \* of the chain, in milliseconds; 0 waits for ever
  prev_timeout,    \* of bep_capture and sensor_wait_finger_not_present
  bep_result,      \* chain->bep_result
  attempt,         \* i of bep_capture
  i,               \* of bep_enroll_finger
  enroll_done,
  enrolled,        \* what the last bep_enroll_finger returned
  match,           \* of main
  res,             \* of main: what bep_identify_finger returned
  current_id,
  press,           \* the press on record, by its length
  stored,          \* ids under which the module holds a template, in flash
  confirmed        \* history: what the module has carried out for this function

chain   == <<phy_rx_timeout, prev_timeout, bep_result>>
enroll  == <<i, enroll_done, enrolled>>
ids     == <<current_id, stored>>
appVars == <<pc, chain, attempt, enroll, match, res, ids, press, confirmed>>

Presses == {"none", "short", "enroll", "erase"}
Coms    == {"OK", "IO_ERROR", "TIMEOUT"}
Beps    == {"OK", "FAILED"}

CAPTURE_TIMEOUT == 3000
PHY_RX_TIMEOUT  == 2000

-----------------------------------------------------------------------------
(* Decisions of the code.  Beside each a variant with a mistake, not used by   *)
(* the specification, that shows which property would notice.                  *)

\* exit_if_err: the exchange failed, or the module says the command did.
FailedCom(com, bep) == com # "OK"
Failed(com, bep) == com # "OK" \/ bep # "OK"

\* The number of the next attempt of bep_capture, and whether there is one.
NextAttemptSame == attempt
NextAttempt == attempt + 1

RetryUntilDone(com, bep) == Failed(com, bep)
Retry(com, bep) == Failed(com, bep) /\ NextAttempt < MAX_SINGLE_CAPTURE_ATTEMPTS

\* What bep_enroll_finger returns.
EnrollResultOfFinish(com) == com
EnrollResult(com) == IF enroll_done THEN com ELSE "GENERAL_ERROR"

\* phy_rx_timeout after a capture or a wait that ended with com.
RestoredOnSuccess(com) == IF com = "OK" THEN prev_timeout ELSE phy_rx_timeout
Restored(com) == prev_timeout

-----------------------------------------------------------------------------
(* The exchange and the timeout *)

\* bmlite_tranceive returns com, with bep in chain->bep_result; if no answer came,
\* that is what was there before or what the packet buffer happens to hold.
Tranceive(com, bep) ==
  /\ com = "TIMEOUT" => press # "none" \/ phy_rx_timeout # 0
  /\ com = "IO_ERROR" => press # "none" \/ Disturbed
  /\ bep_result' = bep
  /\ UNCHANGED press

\* The module has carried out cmd.
Confirm(cmd, com, bep) ==
  confirmed' = IF com = "OK" /\ bep = "OK" THEN confirmed \cup {cmd} ELSE confirmed

SetTimeout(ms) ==
  /\ prev_timeout' = phy_rx_timeout
  /\ phy_rx_timeout' = ms

KeepTimeout == UNCHANGED <<phy_rx_timeout, prev_timeout>>

RestoreTimeout(com) ==
  /\ phy_rx_timeout' = Restored(com)
  /\ UNCHANGED prev_timeout

-----------------------------------------------------------------------------
(* bep_capture, sensor_wait_finger_not_present *)

BeginCapture(where, ms) ==
  /\ pc' = where
  /\ attempt' = 0
  /\ SetTimeout(ms)

BeginWait(where) ==
  /\ pc' = where
  /\ SetTimeout(0)

\* One attempt of bep_capture.  bep_enroll_finger looks only at what it returns,
\* bep_identify_finger at chain->bep_result too.
Capture(com, bep) ==
  /\ pc \in {"enroll_capture", "id_capture"}
  /\ Tranceive(com, bep)
  /\ Confirm("capture", com, bep)
  /\ \/ /\ Retry(com, bep)
        /\ attempt' = NextAttempt
        /\ KeepTimeout
        /\ UNCHANGED <<pc, i, res>>
     \/ /\ ~Retry(com, bep)
        /\ RestoreTimeout(com)
        /\ attempt' = 0
        /\ \/ /\ pc = "enroll_capture"
              /\ com = "OK"
              /\ pc' = "enroll_add"
              /\ UNCHANGED <<i, res>>
           \/ /\ pc = "enroll_capture"
              /\ com # "OK"
              /\ pc' = "enroll_next"
              /\ i' = i + 1
              /\ UNCHANGED res
           \/ /\ pc = "id_capture"
              /\ ~Failed(com, bep)
              /\ pc' = "id_extract"
              /\ UNCHANGED <<i, res>>
           \/ /\ pc = "id_capture"
              /\ Failed(com, bep)
              /\ pc' = "identified"
              /\ res' = com
              /\ UNCHANGED i
  /\ UNCHANGED <<enroll_done, enrolled, match, ids>>

\* The wait for the finger to be lifted, whose result is not looked at.
Wait(com, bep) ==
  /\ pc \in {"enroll_wait", "wait_up"}
  /\ Tranceive(com, bep)
  /\ RestoreTimeout(com)
  /\ \/ /\ pc = "enroll_wait"
        /\ pc' = "enroll_next"
        /\ i' = i + 1
     \/ /\ pc = "wait_up"
        /\ pc' = "turn"
        /\ UNCHANGED i
  /\ UNCHANGED <<attempt, enroll_done, enrolled, match, res, ids, confirmed>>

-----------------------------------------------------------------------------
(* bep_enroll_finger *)

EnrollStart(com, bep) ==
  /\ pc = "enroll_start"
  /\ Tranceive(com, bep)
  /\ Confirm("start", com, bep)
  /\ \/ /\ Failed(com, bep)
        /\ enrolled' = EnrollResult(com)
        /\ pc' = "save"
     \/ /\ ~Failed(com, bep)
        /\ pc' = "enroll_next"
        /\ UNCHANGED enrolled
  /\ i' = 0
  /\ KeepTimeout
  /\ UNCHANGED <<attempt, enroll_done, match, res, ids>>

EnrollNext ==
  /\ pc = "enroll_next"
  /\ \/ /\ i < MAX_CAPTURE_ATTEMPTS
        /\ BeginCapture("enroll_capture", CAPTURE_TIMEOUT)
     \/ /\ i = MAX_CAPTURE_ATTEMPTS
        /\ pc' = "enroll_finish"
        /\ UNCHANGED <<attempt, phy_rx_timeout, prev_timeout>>
  /\ UNCHANGED <<bep_result, enroll, match, res, ids, press, confirmed>>

\* ENROLL ADD and the number of samples the module still wants.  An answer that
\* reports a failure has no count; its error code is read instead, and is not 0.
EnrollAdd(com, bep, remaining) ==
  /\ pc = "enroll_add"
  /\ Tranceive(com, bep)
  /\ bep = "FAILED" => remaining # 0
  /\ \/ /\ com # "OK"
        /\ pc' = "enroll_next"
        /\ i' = i + 1
        /\ KeepTimeout
        /\ UNCHANGED <<enroll_done, confirmed>>
     \/ /\ com = "OK"
        /\ remaining = 0
        /\ enroll_done' = TRUE
        /\ confirmed' = confirmed \cup {"complete"}
        /\ pc' = "enroll_finish"
        /\ KeepTimeout
        /\ UNCHANGED i
     \/ /\ com = "OK"
        /\ remaining # 0
        /\ BeginWait("enroll_wait")
        /\ UNCHANGED <<i, enroll_done, confirmed>>
  /\ UNCHANGED <<attempt, enrolled, match, res, ids>>

EnrollFinish(com, bep) ==
  /\ pc = "enroll_finish"
  /\ Tranceive(com, bep)
  /\ Confirm("finish", com, bep)
  /\ enrolled' = EnrollResult(com)
  /\ pc' = "save"
  /\ KeepTimeout
  /\ UNCHANGED <<attempt, i, enroll_done, match, res, ids>>

-----------------------------------------------------------------------------
(* bep_identify_finger *)

Identify ==
  /\ pc = "identify"
  /\ match' = FALSE
  /\ confirmed' = {}
  /\ BeginCapture("id_capture", 0)
  /\ UNCHANGED <<bep_result, enroll, res, ids, press>>

IdentifyExtract(com, bep) ==
  /\ pc = "id_extract"
  /\ Tranceive(com, bep)
  /\ Confirm("extract", com, bep)
  /\ \/ /\ Failed(com, bep)
        /\ pc' = "identified"
        /\ res' = com
     \/ /\ ~Failed(com, bep)
        /\ pc' = "id_identify"
        /\ UNCHANGED res
  /\ KeepTimeout
  /\ UNCHANGED <<attempt, enroll, match, ids>>

\* IDENTIFY, whose answer says whether the finger matches, if it says so at all.
IdentifyMatch(com, bep, answer) ==
  /\ pc = "id_identify"
  /\ Tranceive(com, bep)
  /\ Confirm("identify", com, bep)
  /\ pc' = "identified"
  /\ \/ /\ Failed(com, bep)
        /\ res' = com
        /\ UNCHANGED match
     \/ /\ ~Failed(com, bep)
        /\ answer = "absent"
        /\ res' = "INVALID_ARGUMENT"
        /\ UNCHANGED match
     \/ /\ ~Failed(com, bep)
        /\ answer # "absent"
        /\ res' = "OK"
        /\ match' = (answer = "match")
  /\ KeepTimeout
  /\ UNCHANGED <<attempt, enroll, ids>>

-----------------------------------------------------------------------------
(* main *)

\* bep_version, whose result is not looked at.
Version(com, bep) ==
  /\ pc = "version"
  /\ Tranceive(com, bep)
  /\ pc' = "turn"
  /\ KeepTimeout
  /\ UNCHANGED <<attempt, enroll, match, res, ids, confirmed>>

\* hal_get_button_press_time and what it asks for.
Turn ==
  /\ pc = "turn"
  /\ press' = "none"
  /\ confirmed' = {}
  /\ \/ /\ press \in {"none", "short"}
        /\ pc' = "identify"
        /\ UNCHANGED enroll_done
     \/ /\ press = "enroll"
        /\ pc' = "enroll_start"
        /\ enroll_done' = FALSE
     \/ /\ press = "erase"
        /\ pc' = "erase"
        /\ UNCHANGED enroll_done
  /\ UNCHANGED <<chain, attempt, i, enrolled, match, res, ids>>

\* bep_template_save with the next id, whatever bep_enroll_finger returned.
Save(com, bep) ==
  /\ pc = "save"
  /\ Tranceive(com, bep)
  /\ stored' = IF Failed(com, bep) THEN stored ELSE stored \cup {current_id}
  /\ current_id' = (current_id + 1) % IDS
  /\ pc' = "identify"
  /\ KeepTimeout
  /\ UNCHANGED <<attempt, enroll, match, res, confirmed>>

\* bep_template_remove_all.
Erase(com, bep) ==
  /\ pc = "erase"
  /\ Tranceive(com, bep)
  /\ stored' = IF Failed(com, bep) THEN stored ELSE {}
  /\ current_id' = 0
  /\ pc' = "identify"
  /\ KeepTimeout
  /\ UNCHANGED <<attempt, enroll, match, res, confirmed>>

\* Behind bep_identify_finger: another turn if it failed, but not if it timed out;
\* else the match is shown.  The reset of the module after a timeout is
\* HcpTransport's.
Identified ==
  /\ pc = "identified"
  /\ \/ /\ res \in {"OK", "TIMEOUT"}
        /\ BeginWait("wait_up")
     \/ /\ res \notin {"OK", "TIMEOUT"}
        /\ pc' = "turn"
        /\ UNCHANGED <<phy_rx_timeout, prev_timeout>>
  /\ UNCHANGED <<bep_result, attempt, enroll, match, res, ids, press, confirmed>>

-----------------------------------------------------------------------------
(* The world *)

\* check_buttons puts a press on record.
Press(p) ==
  /\ press' = p
  /\ UNCHANGED <<pc, chain, attempt, enroll, match, res, ids, confirmed>>

\* Power comes back: the host starts again and resets the module, which keeps what
\* is in its flash.
HostRestart ==
  /\ pc' = "version"
  /\ phy_rx_timeout' = PHY_RX_TIMEOUT
  /\ prev_timeout' = 0
  /\ bep_result' = "OK"
  /\ attempt' = 0
  /\ i' = 0
  /\ enroll_done' = FALSE
  /\ enrolled' = "NONE"
  /\ match' = FALSE
  /\ res' = "NONE"
  /\ current_id' = 0
  /\ press' = "none"
  /\ confirmed' = {}
  /\ UNCHANGED stored

-----------------------------------------------------------------------------

AppInit ==
  /\ pc = "version"
  /\ phy_rx_timeout = PHY_RX_TIMEOUT
  /\ prev_timeout = 0
  /\ bep_result = "OK"
  /\ attempt = 0
  /\ i = 0
  /\ enroll_done = FALSE
  /\ enrolled = "NONE"
  /\ match = FALSE
  /\ res = "NONE"
  /\ current_id = 0
  /\ press = "none"
  /\ confirmed = {}
  /\ stored = {}

Answered ==
  \E com \in Coms, bep \in Beps :
     \/ Version(com, bep) \/ Save(com, bep) \/ Erase(com, bep)
     \/ Capture(com, bep) \/ Wait(com, bep)
     \/ EnrollStart(com, bep) \/ EnrollFinish(com, bep)
     \/ (\E remaining \in {0, 1} : EnrollAdd(com, bep, remaining))
     \/ IdentifyExtract(com, bep)
     \/ (\E answer \in {"match", "no_match", "absent"} :
            IdentifyMatch(com, bep, answer))

Between == Turn \/ EnrollNext \/ Identify \/ Identified

AppNext == \/ Answered
           \/ Between
           \/ \E p \in Presses \ {"none"} : Press(p)
           \/ HostRestart

AppSpec == AppInit /\ [][AppNext]_appVars

\* An exchange returns if it has a timeout or a press is on record (TimeoutKept and
\* ReceiveBreaks of Platform, EveryCallReturns of HcpTransport); a wait
\* for a finger need not.
AppFairness ==
  /\ WF_appVars(Between)
  /\ WF_appVars((press # "none" \/ phy_rx_timeout # 0) /\ Answered)

AppFairSpec == AppSpec /\ AppFairness

-----------------------------------------------------------------------------
(* Properties *)

Results == Coms \cup {"NONE", "GENERAL_ERROR", "INVALID_ARGUMENT"}

\* The types; the counters of attempts stay within their limits.
AppTypeOK ==
  /\ pc \in {"version", "turn", "erase", "save", "enroll_start", "enroll_next",
             "enroll_capture", "enroll_add", "enroll_wait", "enroll_finish",
             "identify", "id_capture", "id_extract", "id_identify",
             "identified", "wait_up"}
  /\ phy_rx_timeout \in {0, PHY_RX_TIMEOUT, CAPTURE_TIMEOUT}
  /\ prev_timeout \in {0, PHY_RX_TIMEOUT}
  /\ bep_result \in Beps
  /\ attempt \in 0..(MAX_SINGLE_CAPTURE_ATTEMPTS - 1)
  /\ i \in 0..MAX_CAPTURE_ATTEMPTS
  /\ enroll_done \in BOOLEAN
  /\ enrolled \in Results
  /\ match \in BOOLEAN
  /\ res \in Results
  /\ current_id \in 0..(IDS - 1)
  /\ press \in Presses
  /\ stored \subseteq 0..(IDS - 1)
  /\ confirmed \subseteq {"capture", "extract", "identify", "start", "complete",
                          "finish"}

\* Only a wait for a finger waits for ever; every other command has a timeout,
\* whatever error ended the capture or the wait before it (bmlite_if.c 123-129,
\* 138-144, 150-159).
WaitsBounded ==
  phy_rx_timeout = 0 => pc \in {"id_capture", "enroll_wait", "wait_up"}

\* A match is shown only if the module has captured an image, extracted its
\* features and identified it in this very call (bep_identify_finger 105-115).
MatchHonest ==
  pc \in {"identified", "wait_up"} /\ match =>
    {"capture", "extract", "identify"} \subseteq confirmed

\* bep_enroll_finger returns OK only if the module began an enrolment for it and
\* said that it wants no more samples (52-95).
EnrollHonest ==
  pc = "save" /\ enrolled = "OK" => {"start", "complete"} \subseteq confirmed

\* A press is acted on, whatever the application is doing: the waits are broken
\* off and every loop in between ends ("The waiting loop will be breaked if
\* hal_check_button_pressed() returns non-zero value").
PressActedOn == press # "none" ~> press = "none"

=============================================================================
