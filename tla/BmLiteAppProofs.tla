--------------------------- MODULE BmLiteAppProofs ---------------------------
(***************************************************************************)
(* Theorems about BmLiteApp: its safety invariants hold for every limit of *)
(* attempts and every number of ids, disturbed or not.                     *)
(***************************************************************************)
EXTENDS BmLiteApp, TLAPS

Waits == {"id_capture", "enroll_wait", "wait_up"}

\* The timeout belongs to what is being waited for, and the one to go back to is
\* that of an ordinary command.
Timeouts ==
  /\ pc \in Waits \cup {"enroll_capture"} => prev_timeout = PHY_RX_TIMEOUT
  /\ pc = "enroll_capture" => phy_rx_timeout = CAPTURE_TIMEOUT
  /\ pc \notin Waits \cup {"enroll_capture"} => phy_rx_timeout = PHY_RX_TIMEOUT

\* Inside the body of the loop of bep_enroll_finger.
Attempts ==
  pc \in {"enroll_capture", "enroll_add", "enroll_wait"} => i < MAX_CAPTURE_ATTEMPTS

\* How far bep_identify_finger has got.
MatchEarned ==
  /\ pc \in {"id_capture", "id_extract", "id_identify"} => match = FALSE
  /\ pc \in {"id_extract", "id_identify"} => "capture" \in confirmed
  /\ pc = "id_identify" => "extract" \in confirmed
  /\ MatchHonest

\* How far bep_enroll_finger has got.
EnrollEarned ==
  /\ pc = "enroll_start" => enroll_done = FALSE
  /\ pc \in {"enroll_next", "enroll_capture", "enroll_add", "enroll_wait",
             "enroll_finish"} =>
       /\ "start" \in confirmed
       /\ enroll_done => "complete" \in confirmed
  /\ EnrollHonest

AppInv == AppTypeOK /\ Timeouts /\ Attempts /\ MatchEarned /\ EnrollEarned

-----------------------------------------------------------------------------

\* The invariant holds when the host starts.
LEMMA InitInv == AppInit => AppInv
<1> SUFFICES ASSUME AppInit PROVE AppInv
  OBVIOUS
<1> USE DEF AppInit, Waits
<1>1. AppTypeOK
  <2>1. /\ attempt \in 0..(MAX_SINGLE_CAPTURE_ATTEMPTS - 1)
        /\ i \in 0..MAX_CAPTURE_ATTEMPTS
        /\ current_id \in 0..(IDS - 1)
    BY AppAssumption
  <2>2. press \in Presses /\ bep_result \in Beps /\ res \in Results /\ enrolled \in Results
    BY DEF Presses, Beps, Results
  <2>3. /\ stored \subseteq 0..(IDS - 1)
        /\ confirmed \subseteq {"capture", "extract", "identify", "start", "complete",
                                "finish"}
    OBVIOUS
  <2> QED
    BY <2>1, <2>2, <2>3 DEF AppTypeOK
<1>2. Timeouts
  BY DEF Timeouts, PHY_RX_TIMEOUT
<1>3. Attempts
  BY DEF Attempts
<1>4. MatchEarned
  BY DEF MatchEarned, MatchHonest
<1>5. EnrollEarned
  BY DEF EnrollEarned, EnrollHonest
<1> QED
  BY <1>1, <1>2, <1>3, <1>4, <1>5 DEF AppInv

\* An attempt of bep_capture keeps the invariant: it retries within its limit, or puts
\* the timeout back, and goes on to extract only after a capture the module confirmed.
LEMMA CaptureInv ==
  ASSUME AppInv, NEW com \in Coms, NEW bep \in Beps, Capture(com, bep)
  PROVE  AppInv'
<1> USE DEF AppInv, Capture, Tranceive, Waits
<1>1. AppTypeOK'
  <2> USE DEF AppTypeOK
  <2>1. pc' \in {"enroll_capture", "id_capture", "enroll_add", "enroll_next", "id_extract",
                 "identified"}
    OBVIOUS
  <2>2. attempt' \in 0..(MAX_SINGLE_CAPTURE_ATTEMPTS - 1)
    BY AppAssumption DEF Retry, NextAttempt
  <2>3. i' \in 0..MAX_CAPTURE_ATTEMPTS
    BY AppAssumption DEF Attempts
  <2>4. /\ phy_rx_timeout' \in {0, PHY_RX_TIMEOUT, CAPTURE_TIMEOUT}
        /\ prev_timeout' \in {0, PHY_RX_TIMEOUT}
    BY DEF KeepTimeout, RestoreTimeout, Restored
  <2>5. confirmed' \subseteq {"capture", "extract", "identify", "start", "complete", "finish"}
    BY DEF Confirm
  <2>6. res' \in Results
    BY DEF Coms, Results
  <2>7. /\ enroll_done' \in BOOLEAN
        /\ enrolled' \in Results
        /\ match' \in BOOLEAN
        /\ current_id' \in 0..(IDS - 1)
        /\ stored' \subseteq 0..(IDS - 1)
        /\ bep_result' \in Beps
        /\ press' \in Presses
    BY DEF ids
  <2> QED
    BY <2>1, <2>2, <2>3, <2>4, <2>5, <2>6, <2>7
<1>2. Timeouts'
  BY DEF Timeouts, KeepTimeout, RestoreTimeout, Restored
<1>3. Attempts'
  BY DEF Attempts
<1>4. MatchEarned'
  BY DEF MatchEarned, MatchHonest, Confirm, Failed
<1>5. EnrollEarned'
  BY DEF EnrollEarned, EnrollHonest, Confirm
<1> QED
  BY <1>1, <1>2, <1>3, <1>4, <1>5

\* Waiting for the finger to be lifted puts the timeout back, whatever ends it.
LEMMA WaitInv ==
  ASSUME AppInv, NEW com \in Coms, NEW bep \in Beps, Wait(com, bep)
  PROVE  AppInv'
<1> USE DEF AppInv, Wait, Tranceive, RestoreTimeout, Restored, ids, Waits
<1>1. AppTypeOK'
  BY AppAssumption DEF AppTypeOK, Attempts
<1>2. Timeouts'
  BY DEF Timeouts
<1>3. Attempts'
  BY DEF Attempts
<1>4. MatchEarned'
  BY DEF MatchEarned, MatchHonest
<1>5. EnrollEarned'
  BY DEF EnrollEarned, EnrollHonest
<1> QED
  BY <1>1, <1>2, <1>3, <1>4, <1>5

\* The loop of bep_enroll_finger is entered only if the module began to enroll.
LEMMA EnrollStartInv ==
  ASSUME AppInv, NEW com \in Coms, NEW bep \in Beps, EnrollStart(com, bep)
  PROVE  AppInv'
<1> USE DEF AppInv, EnrollStart, Tranceive, KeepTimeout, ids, Waits
<1>1. AppTypeOK'
  BY AppAssumption DEF AppTypeOK, Confirm, EnrollResult, Results, Coms
<1>2. Timeouts'
  BY DEF Timeouts
<1>3. Attempts'
  BY AppAssumption DEF Attempts
<1>4. MatchEarned'
  BY DEF MatchEarned, MatchHonest
<1>5. EnrollEarned'
  BY DEF EnrollEarned, EnrollHonest, Confirm, EnrollResult, Failed
<1> QED
  BY <1>1, <1>2, <1>3, <1>4, <1>5

\* A turn of the loop of bep_enroll_finger begins within its limit.
LEMMA EnrollNextInv ==
  ASSUME AppInv, EnrollNext
  PROVE  AppInv'
<1> USE DEF AppInv, EnrollNext, BeginCapture, SetTimeout, enroll, ids, Waits
<1>1. AppTypeOK'
  BY AppAssumption DEF AppTypeOK, Timeouts
<1>2. Timeouts'
  BY DEF Timeouts, CAPTURE_TIMEOUT
<1>3. Attempts'
  BY AppAssumption DEF Attempts, AppTypeOK
<1>4. MatchEarned'
  BY DEF MatchEarned, MatchHonest
<1>5. EnrollEarned'
  BY DEF EnrollEarned, EnrollHonest
<1> QED
  BY <1>1, <1>2, <1>3, <1>4, <1>5

\* ENROLL ADD sets enroll_done only if the module wants no more samples.
LEMMA EnrollAddInv ==
  ASSUME AppInv, NEW com \in Coms, NEW bep \in Beps, NEW remaining \in {0, 1}, EnrollAdd(com, bep, remaining)
  PROVE  AppInv'
<1> USE DEF AppInv, EnrollAdd, Tranceive, KeepTimeout, BeginWait, SetTimeout, ids, Waits
<1>1. AppTypeOK'
  <2>1. /\ enroll_done' \in BOOLEAN
        /\ match' \in BOOLEAN
    BY Zenon DEF AppTypeOK
  <2>2. /\ attempt' \in 0..(MAX_SINGLE_CAPTURE_ATTEMPTS - 1)
        /\ i' \in 0..MAX_CAPTURE_ATTEMPTS
        /\ current_id' \in 0..(IDS - 1)
        /\ phy_rx_timeout' \in {0, PHY_RX_TIMEOUT, CAPTURE_TIMEOUT}
        /\ prev_timeout' \in {0, PHY_RX_TIMEOUT}
    BY AppAssumption DEF AppTypeOK, Attempts, Timeouts
  <2>3. /\ pc' \in {"version", "turn", "erase", "save", "enroll_start", "enroll_next",
                     "enroll_capture", "enroll_add", "enroll_wait", "enroll_finish",
                     "identify", "id_capture", "id_extract", "id_identify",
                     "identified", "wait_up"}
        /\ bep_result' \in Beps
        /\ enrolled' \in Results
        /\ res' \in Results
        /\ press' \in Presses
        /\ stored' \subseteq 0..(IDS - 1)
        /\ confirmed' \subseteq {"capture", "extract", "identify", "start", "complete",
                               "finish"}
    BY AppAssumption DEF AppTypeOK, Attempts, Timeouts
  <2> QED
    BY <2>1, <2>2, <2>3 DEF AppTypeOK
<1>2. Timeouts'
  BY DEF Timeouts
<1>3. Attempts'
  BY DEF Attempts
<1>4. MatchEarned'
  BY DEF MatchEarned, MatchHonest
<1>5. EnrollEarned'
  BY DEF EnrollEarned, EnrollHonest
<1> QED
  BY <1>1, <1>2, <1>3, <1>4, <1>5

\* bep_enroll_finger returns OK only with enroll_done.
LEMMA EnrollFinishInv ==
  ASSUME AppInv, NEW com \in Coms, NEW bep \in Beps, EnrollFinish(com, bep)
  PROVE  AppInv'
<1> USE DEF AppInv, EnrollFinish, Tranceive, KeepTimeout, ids, Waits
<1>1. AppTypeOK'
  BY DEF AppTypeOK, Confirm, EnrollResult, Results
<1>2. Timeouts'
  BY DEF Timeouts
<1>3. Attempts'
  BY DEF Attempts
<1>4. MatchEarned'
  BY DEF MatchEarned, MatchHonest
<1>5. EnrollEarned'
  BY DEF EnrollEarned, EnrollHonest, Confirm, EnrollResult
<1> QED
  BY <1>1, <1>2, <1>3, <1>4, <1>5

\* bep_identify_finger begins without a match.
LEMMA IdentifyInv ==
  ASSUME AppInv, Identify
  PROVE  AppInv'
<1> USE DEF AppInv, Identify, BeginCapture, SetTimeout, enroll, ids, Waits
<1>1. AppTypeOK'
  <2>1. /\ enroll_done' \in BOOLEAN
        /\ match' \in BOOLEAN
    BY Zenon DEF AppTypeOK
  <2>2. /\ attempt' \in 0..(MAX_SINGLE_CAPTURE_ATTEMPTS - 1)
        /\ i' \in 0..MAX_CAPTURE_ATTEMPTS
        /\ current_id' \in 0..(IDS - 1)
        /\ phy_rx_timeout' \in {0, PHY_RX_TIMEOUT, CAPTURE_TIMEOUT}
        /\ prev_timeout' \in {0, PHY_RX_TIMEOUT}
    BY AppAssumption DEF AppTypeOK, Timeouts
  <2>3. /\ pc' \in {"version", "turn", "erase", "save", "enroll_start", "enroll_next",
                     "enroll_capture", "enroll_add", "enroll_wait", "enroll_finish",
                     "identify", "id_capture", "id_extract", "id_identify",
                     "identified", "wait_up"}
        /\ bep_result' \in Beps
        /\ enrolled' \in Results
        /\ res' \in Results
        /\ press' \in Presses
        /\ stored' \subseteq 0..(IDS - 1)
        /\ confirmed' \subseteq {"capture", "extract", "identify", "start", "complete",
                               "finish"}
    BY AppAssumption DEF AppTypeOK, Timeouts
  <2> QED
    BY <2>1, <2>2, <2>3 DEF AppTypeOK
<1>2. Timeouts'
  BY DEF Timeouts
<1>3. Attempts'
  BY DEF Attempts
<1>4. MatchEarned'
  BY DEF MatchEarned, MatchHonest
<1>5. EnrollEarned'
  BY DEF EnrollEarned, EnrollHonest
<1> QED
  BY <1>1, <1>2, <1>3, <1>4, <1>5

\* IDENTIFY is sent only after the module extracted the features.
LEMMA IdentifyExtractInv ==
  ASSUME AppInv, NEW com \in Coms, NEW bep \in Beps, IdentifyExtract(com, bep)
  PROVE  AppInv'
<1> USE DEF AppInv, IdentifyExtract, Tranceive, KeepTimeout, enroll, ids, Waits
<1>1. AppTypeOK'
  BY DEF AppTypeOK, Confirm, Results
<1>2. Timeouts'
  BY DEF Timeouts
<1>3. Attempts'
  BY DEF Attempts
<1>4. MatchEarned'
  BY DEF MatchEarned, MatchHonest, Confirm, Failed
<1>5. EnrollEarned'
  BY DEF EnrollEarned, EnrollHonest
<1> QED
  BY <1>1, <1>2, <1>3, <1>4, <1>5

\* A match is reported only behind a capture, an extraction and an identification.
LEMMA IdentifyMatchInv ==
  ASSUME AppInv, NEW com \in Coms, NEW bep \in Beps, NEW answer, IdentifyMatch(com, bep, answer)
  PROVE  AppInv'
<1> USE DEF AppInv, IdentifyMatch, Tranceive, KeepTimeout, enroll, ids, Waits
<1>1. AppTypeOK'
  <2>1. /\ enroll_done' \in BOOLEAN
        /\ match' \in BOOLEAN
    BY Zenon DEF AppTypeOK
  <2>2. /\ attempt' \in 0..(MAX_SINGLE_CAPTURE_ATTEMPTS - 1)
        /\ i' \in 0..MAX_CAPTURE_ATTEMPTS
        /\ current_id' \in 0..(IDS - 1)
        /\ phy_rx_timeout' \in {0, PHY_RX_TIMEOUT, CAPTURE_TIMEOUT}
        /\ prev_timeout' \in {0, PHY_RX_TIMEOUT}
    BY AppAssumption DEF AppTypeOK, Confirm, Results
  <2>3. pc' = "identified"
    BY Zenon
  <2>4. res' \in Results
    <3>1. res' = com \/ res' = "OK" \/ res' = "INVALID_ARGUMENT"
      BY Zenon
    <3>2. "OK" \in Coms
      BY DEF Coms
    <3> QED
      BY <3>1, <3>2, Zenon DEF Results
  <2>5. confirmed' \subseteq {"capture", "extract", "identify", "start", "complete",
                              "finish"}
    <3>1. confirmed' \subseteq confirmed \cup {"identify"}
      BY Zenon DEF Confirm
    <3> QED
      BY <3>1, Zenon DEF AppTypeOK
  <2>6. /\ bep_result' \in Beps
        /\ enrolled' \in Results
        /\ press' \in Presses
        /\ stored' \subseteq 0..(IDS - 1)
    BY Zenon DEF AppTypeOK
  <2> QED
    BY <2>1, <2>2, <2>3, <2>4, <2>5, <2>6 DEF AppTypeOK
<1>2. Timeouts'
  BY DEF Timeouts
<1>3. Attempts'
  BY DEF Attempts
<1>4. MatchEarned'
  BY DEF MatchEarned, MatchHonest, Confirm, Failed
<1>5. EnrollEarned'
  BY DEF EnrollEarned, EnrollHonest
<1> QED
  BY <1>1, <1>2, <1>3, <1>4, <1>5

\* bep_version keeps the invariant.
LEMMA VersionInv ==
  ASSUME AppInv, NEW com \in Coms, NEW bep \in Beps, Version(com, bep)
  PROVE  AppInv'
<1> USE DEF AppInv, Version, Tranceive, KeepTimeout, enroll, ids, Waits
<1>1. AppTypeOK'
  BY DEF AppTypeOK
<1>2. Timeouts'
  BY DEF Timeouts
<1>3. Attempts'
  BY DEF Attempts
<1>4. MatchEarned'
  BY DEF MatchEarned, MatchHonest
<1>5. EnrollEarned'
  BY DEF EnrollEarned, EnrollHonest
<1> QED
  BY <1>1, <1>2, <1>3, <1>4, <1>5

\* The look at the button keeps the invariant.
LEMMA TurnInv ==
  ASSUME AppInv, Turn
  PROVE  AppInv'
<1> USE DEF AppInv, Turn, chain, ids, Waits
<1>1. AppTypeOK'
  BY DEF AppTypeOK, Presses
<1>2. Timeouts'
  BY DEF Timeouts
<1>3. Attempts'
  BY DEF Attempts
<1>4. MatchEarned'
  BY DEF MatchEarned, MatchHonest
<1>5. EnrollEarned'
  BY DEF EnrollEarned, EnrollHonest
<1> QED
  BY <1>1, <1>2, <1>3, <1>4, <1>5

\* bep_template_save keeps the invariant; current_id wraps.
LEMMA SaveInv ==
  ASSUME AppInv, NEW com \in Coms, NEW bep \in Beps, Save(com, bep)
  PROVE  AppInv'
<1> USE DEF AppInv, Save, Tranceive, KeepTimeout, enroll, Waits
<1>1. AppTypeOK'
  BY AppAssumption DEF AppTypeOK
<1>2. Timeouts'
  BY DEF Timeouts
<1>3. Attempts'
  BY DEF Attempts
<1>4. MatchEarned'
  BY DEF MatchEarned, MatchHonest
<1>5. EnrollEarned'
  BY DEF EnrollEarned, EnrollHonest
<1> QED
  BY <1>1, <1>2, <1>3, <1>4, <1>5

\* bep_template_remove_all keeps the invariant.
LEMMA EraseInv ==
  ASSUME AppInv, NEW com \in Coms, NEW bep \in Beps, Erase(com, bep)
  PROVE  AppInv'
<1> USE DEF AppInv, Erase, Tranceive, KeepTimeout, enroll, Waits
<1>1. AppTypeOK'
  BY AppAssumption DEF AppTypeOK
<1>2. Timeouts'
  BY DEF Timeouts
<1>3. Attempts'
  BY DEF Attempts
<1>4. MatchEarned'
  BY DEF MatchEarned, MatchHonest
<1>5. EnrollEarned'
  BY DEF EnrollEarned, EnrollHonest
<1> QED
  BY <1>1, <1>2, <1>3, <1>4, <1>5

\* The end of bep_identify_finger keeps the invariant.
LEMMA IdentifiedInv ==
  ASSUME AppInv, Identified
  PROVE  AppInv'
<1> USE DEF AppInv, Identified, BeginWait, SetTimeout, enroll, ids, Waits
<1>1. AppTypeOK'
  BY DEF AppTypeOK, Timeouts
<1>2. Timeouts'
  BY DEF Timeouts
<1>3. Attempts'
  BY DEF Attempts
<1>4. MatchEarned'
  BY DEF MatchEarned, MatchHonest
<1>5. EnrollEarned'
  BY DEF EnrollEarned, EnrollHonest
<1> QED
  BY <1>1, <1>2, <1>3, <1>4, <1>5

\* A press keeps the invariant.
LEMMA PressInv ==
  ASSUME AppInv, NEW p \in Presses, Press(p)
  PROVE  AppInv'
<1> USE DEF AppInv, Press, chain, enroll, ids, Waits
<1>1. AppTypeOK'
  BY DEF AppTypeOK
<1>2. Timeouts'
  BY DEF Timeouts
<1>3. Attempts'
  BY DEF Attempts
<1>4. MatchEarned'
  BY DEF MatchEarned, MatchHonest
<1>5. EnrollEarned'
  BY DEF EnrollEarned, EnrollHonest
<1> QED
  BY <1>1, <1>2, <1>3, <1>4, <1>5

\* A restart of the host establishes the invariant anew.
LEMMA RestartInv ==
  ASSUME AppInv, HostRestart
  PROVE  AppInv'
<1> USE DEF AppInv, HostRestart, Waits
<1>1. AppTypeOK'
  <2>1. /\ enroll_done' \in BOOLEAN
        /\ match' \in BOOLEAN
    BY Zenon DEF AppTypeOK
  <2>2. /\ attempt' \in 0..(MAX_SINGLE_CAPTURE_ATTEMPTS - 1)
        /\ i' \in 0..MAX_CAPTURE_ATTEMPTS
        /\ current_id' \in 0..(IDS - 1)
        /\ phy_rx_timeout' \in {0, PHY_RX_TIMEOUT, CAPTURE_TIMEOUT}
        /\ prev_timeout' \in {0, PHY_RX_TIMEOUT}
    BY AppAssumption DEF AppTypeOK, Results, Beps, Presses
  <2>3. /\ pc' \in {"version", "turn", "erase", "save", "enroll_start", "enroll_next",
                     "enroll_capture", "enroll_add", "enroll_wait", "enroll_finish",
                     "identify", "id_capture", "id_extract", "id_identify",
                     "identified", "wait_up"}
        /\ bep_result' \in Beps
        /\ enrolled' \in Results
        /\ res' \in Results
        /\ press' \in Presses
        /\ stored' \subseteq 0..(IDS - 1)
        /\ confirmed' \subseteq {"capture", "extract", "identify", "start", "complete",
                               "finish"}
    BY AppAssumption DEF AppTypeOK, Results, Beps, Presses
  <2> QED
    BY <2>1, <2>2, <2>3 DEF AppTypeOK
<1>2. Timeouts'
  BY DEF Timeouts
<1>3. Attempts'
  BY DEF Attempts
<1>4. MatchEarned'
  BY DEF MatchEarned, MatchHonest
<1>5. EnrollEarned'
  BY DEF EnrollEarned, EnrollHonest
<1> QED
  BY <1>1, <1>2, <1>3, <1>4, <1>5

\* A stuttering step keeps the invariant.
LEMMA StutterInv ==
  ASSUME AppInv, UNCHANGED appVars
  PROVE  AppInv'
<1> USE DEF AppInv, appVars, chain, enroll, ids, Waits
<1>1. AppTypeOK'
  BY DEF AppTypeOK
<1>2. Timeouts'
  BY DEF Timeouts
<1>3. Attempts'
  BY DEF Attempts
<1>4. MatchEarned'
  BY DEF MatchEarned, MatchHonest
<1>5. EnrollEarned'
  BY DEF EnrollEarned, EnrollHonest
<1> QED
  BY <1>1, <1>2, <1>3, <1>4, <1>5

\* Every step keeps the invariant.
LEMMA NextInv ==
  ASSUME AppInv, [AppNext]_appVars
  PROVE  AppInv'
<1>1. CASE Answered
  <2> PICK com \in Coms, bep \in Beps :
        \/ Version(com, bep) \/ Save(com, bep) \/ Erase(com, bep)
        \/ Capture(com, bep) \/ Wait(com, bep)
        \/ EnrollStart(com, bep) \/ EnrollFinish(com, bep)
        \/ (\E remaining \in {0, 1} : EnrollAdd(com, bep, remaining))
        \/ IdentifyExtract(com, bep)
        \/ (\E answer \in {"match", "no_match", "absent"} :
               IdentifyMatch(com, bep, answer))
    BY <1>1, Zenon DEF Answered
  <2>1. CASE Version(com, bep)
    BY <2>1, VersionInv
  <2>2. CASE Save(com, bep)
    BY <2>2, SaveInv
  <2>3. CASE Erase(com, bep)
    BY <2>3, EraseInv
  <2>4. CASE Capture(com, bep)
    BY <2>4, CaptureInv
  <2>5. CASE Wait(com, bep)
    BY <2>5, WaitInv
  <2>6. CASE EnrollStart(com, bep)
    BY <2>6, EnrollStartInv
  <2>7. CASE EnrollFinish(com, bep)
    BY <2>7, EnrollFinishInv
  <2>8. CASE \E remaining \in {0, 1} : EnrollAdd(com, bep, remaining)
    BY <2>8, EnrollAddInv
  <2>9. CASE IdentifyExtract(com, bep)
    BY <2>9, IdentifyExtractInv
  <2>10. CASE \E answer \in {"match", "no_match", "absent"} :
                IdentifyMatch(com, bep, answer)
    BY <2>10, IdentifyMatchInv
  <2> QED
    BY <2>1, <2>2, <2>3, <2>4, <2>5, <2>6, <2>7, <2>8, <2>9, <2>10
<1>2. CASE Between
  BY <1>2, TurnInv, EnrollNextInv, IdentifyInv, IdentifiedInv DEF Between
<1>3. CASE \E p \in Presses \ {"none"} : Press(p)
  BY <1>3, PressInv
<1>4. CASE HostRestart
  BY <1>4, RestartInv
<1>5. CASE UNCHANGED appVars
  BY <1>5, StutterInv
<1> QED
  BY <1>1, <1>2, <1>3, <1>4, <1>5 DEF AppNext

\* The invariant holds throughout.
LEMMA Invariant == AppSpec => []AppInv
BY InitInv, NextInv, PTL DEF AppSpec

-----------------------------------------------------------------------------

\* Whatever the limits of the attempts and the number of ids, the types hold: no
\* loop of bmlite_if.c runs past its limit.
THEOREM AppTypeCorrect == AppSpec => []AppTypeOK
<1>1. AppInv => AppTypeOK
  BY DEF AppInv
<1> QED
  BY <1>1, Invariant, PTL

\* Whatever errors end the captures and the waits, an ordinary command is never
\* left without a timeout.
THEOREM AppWaitsBounded == AppSpec => []WaitsBounded
<1>1. AppInv => WaitsBounded
  BY DEF AppInv, Timeouts, WaitsBounded, Waits, PHY_RX_TIMEOUT, CAPTURE_TIMEOUT
<1> QED
  BY <1>1, Invariant, PTL

\* A match that is shown was found by the module in this call of
\* bep_identify_finger.
THEOREM AppMatchHonest == AppSpec => []MatchHonest
<1>1. AppInv => MatchHonest
  BY DEF AppInv, MatchEarned
<1> QED
  BY <1>1, Invariant, PTL

\* bep_enroll_finger reports success only of an enrolment the module began and
\* found complete.
THEOREM AppEnrollHonest == AppSpec => []EnrollHonest
<1>1. AppInv => EnrollHonest
  BY DEF AppInv, EnrollEarned
<1> QED
  BY <1>1, Invariant, PTL

=============================================================================
