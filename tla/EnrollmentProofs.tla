-------------------------- MODULE EnrollmentProofs -------------------------
(***************************************************************************)
(* Proofs about Enrollment, for any commands, intervals, lifetimes and     *)
(* timeout: the terminal stays clean however the spinner's goroutine is    *)
(* scheduled, polls keep to the interval and to the validity of the code,  *)
(* and a sign-in ends with it.  The terminal and the clock each have an    *)
(* invariant of their own; neither needs the other.                        *)
(***************************************************************************)
EXTENDS Enrollment, TLAPS

\* The steps at which no spinner is displayed.
Quiet == Asks \cup {"start", "ask_sign_in", "ask_switch", "show", "result",
                    "leave", "over"}

\* The spinner draws only while it is displayed, and where the command prints
\* or asks it is not.  A channel that was closed is seen as closed until
\* clearProgress returns.
ScreenInv ==
  /\ renderer \in {"delay", "draw", "tick"} => display
  /\ renderer = "none" => ~display
  /\ display /\ (done \/ renderer = "stopped") => pc = "clear" /\ done
  /\ pc = "clear" => /\ done = display
                     /\ after \in {"ask_sign_in", "ask_switch", "show", "result",
                                   "over"}
  /\ pc \in Quiet \/ (pc = "clear" /\ after = "over") => ~display
  /\ line = "frame" => renderer \in {"draw", "tick"}
  /\ line = "prompt" => ~display
  /\ line # "mixed"
  /\ pc \in Asks => line = "prompt"
  /\ pc \in {"start", "leave", "over"} \/ (pc = "clear" /\ after = "over") =>
       line = "blank"

\* Before the request for a code no time has passed.
Fresh == \/ pc \in {"start", "check", "ask_sign_in", "answer_sign_in"}
         \/ pc = "clear" /\ after = "ask_sign_in"

\* A step never begins later than this; "poll" and "exchange" add a timeout.
Ends == now <= IF expires = Never THEN Timeout ELSE expires + 2 * Timeout

\* What each step knows of the clock: a pending call ends within a timeout of
\* its beginning, and a sleep at the interval or the expiry.
ClockInv ==
  /\ Fresh => now = 0 /\ expires = Never /\ polled = Never
  /\ pc = "request" => /\ expires = Never /\ polled = Never
                       /\ now <= until /\ until <= Timeout
  /\ pc = "show" \/ (pc = "clear" /\ after = "show") =>
       polled = Never /\ now <= expires
  /\ pc \in {"show", "next", "poll", "sleep", "exchange"}
     \/ (pc = "clear" /\ after = "show") =>
       expires # Never /\ interval # Never
  /\ pc = "next" => /\ now <= expires + Timeout
                    /\ polled # Never =>
                         now >= polled + interval \/ now >= expires
  /\ pc = "poll" => /\ polled # Never /\ polled <= now
                    /\ now <= until /\ until <= expires + Timeout
  /\ pc = "sleep" => /\ polled # Never
                     /\ now <= until /\ until <= expires + Timeout
                     /\ until >= polled + interval \/ until >= expires
  /\ pc = "exchange" => now <= until /\ until <= expires + 2 * Timeout
  /\ Ends

\* The inductive invariant.
Inv == TypeOK /\ ScreenInv /\ ClockInv

\* A display is started with an open channel and a goroutine of its own, or
\* there is one already, or stderr is no terminal.
LEMMA ProgressTypes ==
  ASSUME TypeOK, Progress
  PROVE  /\ display' \in BOOLEAN /\ done' \in BOOLEAN
         /\ renderer' \in {"none", "delay", "draw", "tick", "stopped"}
<1>1. display' \in BOOLEAN
  BY Zenon DEF TypeOK, Progress
<1>2. done' \in BOOLEAN
  BY Zenon DEF TypeOK, Progress
<1>3. renderer' \in {"none", "delay", "draw", "tick", "stopped"}
  BY Zenon DEF TypeOK, Progress
<1> QED BY <1>1, <1>2, <1>3

\* Every step keeps the types; the end of a sleep is a number because an
\* interval was issued with the code.
LEMMA TypesKept ==
  ASSUME TypeOK, ClockInv, Next
  PROVE  TypeOK'
<1> USE EnrollmentAssumption
        DEF TypeOK, Times, Steps, Waits, Asks, screen, clock, vars,
            Printed, Clear, Wait, Rendering
<1>1. CASE Start
  BY <1>1, ProgressTypes DEF Start
<1>2. CASE Check
  BY <1>2 DEF Check
<1>3. CASE AnswerSignIn
  BY <1>3, ProgressTypes DEF AnswerSignIn
<1>4. CASE AnswerSwitch
  BY <1>4, ProgressTypes DEF AnswerSwitch
<1>5. CASE Apply
  BY <1>5 DEF Apply
<1>6. CASE Result
  BY <1>6 DEF Result
<1>7. CASE Leave
  BY <1>7 DEF Leave
<1>8. CASE Cleared
  <2>1. display' \in BOOLEAN
    BY <1>8, Zenon DEF Cleared
  <2>2. pc' \in Steps /\ after' \in Steps
    BY <1>8 DEF Cleared
  <2>3. done' \in BOOLEAN /\ tty' \in BOOLEAN /\ approved' \in BOOLEAN
    BY <1>8 DEF Cleared
  <2> QED BY <1>8, <2>1, <2>2, <2>3 DEF Cleared
<1>9. CASE Fails
  BY <1>9 DEF Fails
<1>10. CASE Ask("ask_sign_in", "answer_sign_in")
  BY <1>10 DEF Ask
<1>11. CASE Ask("ask_switch", "answer_switch")
  BY <1>11 DEF Ask
<1>12. CASE ShowCode
  BY <1>12, ProgressTypes DEF ShowCode
<1>13. CASE Poll
  BY <1>13 DEF Poll
<1>14. CASE Expired
  BY <1>14 DEF Expired
<1>15. CASE Pending
  BY <1>15 DEF Pending, Sooner, ClockInv
<1>16. CASE Woken
  BY <1>16 DEF Woken
<1>17. CASE Granted
  BY <1>17 DEF Granted
<1>18. CASE Exchanged
  BY <1>18 DEF Exchanged
<1>19. CASE TimerFires
  BY <1>19 DEF TimerFires
<1>20. CASE StopEarly
  BY <1>20 DEF StopEarly
<1>21. CASE Render
  BY <1>21 DEF Render
<1>22. CASE Ticks
  BY <1>22 DEF Ticks
<1>23. CASE Erase
  BY <1>23 DEF Erase
<1>24. CASE Second
  BY <1>24 DEF Second
<1>25. CASE Approve
  BY <1>25 DEF Approve
<1>26. CASE \E i \in Intervals, lifetime \in Lifetimes : Issued(i, lifetime)
  BY <1>26, EnrollmentAssumption DEF Issued
<1>27. CASE Over
  BY <1>27 DEF Over
<1> QED
  BY <1>1, <1>2, <1>3, <1>4, <1>5, <1>6, <1>7, <1>8, <1>9, <1>10, <1>11,
     <1>12, <1>13, <1>14, <1>15, <1>16, <1>17, <1>18, <1>19, <1>20, <1>21,
     <1>22, <1>23, <1>24, <1>25, <1>26, <1>27
  DEF Next, SignIn, Command, Renderer

\* Every step of the command and of the spinner's goroutine keeps the terminal
\* as ScreenInv says.
LEMMA ScreenKept ==
  ASSUME TypeOK, ScreenInv, Next
  PROVE  ScreenInv'
<1> USE DEF ScreenInv, TypeOK, Quiet, Asks, Waits, screen, clock, vars,
            Progress, Printed, Clear, Wait, Rendering
<1>1. CASE Start
  <2>1. CASE tty /\ ~display
    BY <1>1, <2>1 DEF Start
  <2>2. CASE ~(tty /\ ~display)
    BY <1>1, <2>2 DEF Start
  <2> QED BY <2>1, <2>2
<1>2. CASE Check
  BY <1>2 DEF Check
<1>3. CASE AnswerSignIn
  BY <1>3 DEF AnswerSignIn
<1>4. CASE AnswerSwitch
  BY <1>4 DEF AnswerSwitch
<1>5. CASE Apply
  BY <1>5 DEF Apply
<1>6. CASE Result
  BY <1>6 DEF Result
<1>7. CASE Leave
  BY <1>7 DEF Leave
<1>8. CASE Cleared
  BY <1>8 DEF Cleared
<1>9. CASE Fails
  BY <1>9 DEF Fails
<1>10. CASE Ask("ask_sign_in", "answer_sign_in")
  BY <1>10 DEF Ask
<1>11. CASE Ask("ask_switch", "answer_switch")
  BY <1>11 DEF Ask
<1>12. CASE ShowCode
  BY <1>12 DEF ShowCode
<1>13. CASE Poll
  BY <1>13 DEF Poll
<1>14. CASE Expired
  BY <1>14 DEF Expired
<1>15. CASE Pending
  BY <1>15 DEF Pending
<1>16. CASE Woken
  BY <1>16 DEF Woken
<1>17. CASE Granted
  BY <1>17 DEF Granted
<1>18. CASE Exchanged
  BY <1>18 DEF Exchanged
<1>19. CASE TimerFires
  BY <1>19 DEF TimerFires
<1>20. CASE StopEarly
  BY <1>20 DEF StopEarly
<1>21. CASE Render
  BY <1>21 DEF Render
<1>22. CASE Ticks
  BY <1>22 DEF Ticks
<1>23. CASE Erase
  BY <1>23 DEF Erase
<1>24. CASE Second
  BY <1>24 DEF Second
<1>25. CASE Approve
  BY <1>25 DEF Approve
<1>26. CASE \E i \in Intervals, lifetime \in Lifetimes : Issued(i, lifetime)
  BY <1>26, EnrollmentAssumption DEF Issued
<1>27. CASE Over
  BY <1>27 DEF Over
<1> QED
  BY <1>1, <1>2, <1>3, <1>4, <1>5, <1>6, <1>7, <1>8, <1>9, <1>10, <1>11,
     <1>12, <1>13, <1>14, <1>15, <1>16, <1>17, <1>18, <1>19, <1>20, <1>21,
     <1>22, <1>23, <1>24, <1>25, <1>26, <1>27
  DEF Next, SignIn, Command, Renderer

\* Every step keeps the clock within the validity of the code and the timeouts
\* of the calls under way.
LEMMA ClockKept ==
  ASSUME TypeOK, ScreenInv, ClockInv, Next
  PROVE  ClockInv'
<1> USE EnrollmentAssumption
        DEF ClockInv, Fresh, Ends, TypeOK, Times, Asks, Waits, screen,
            clock, vars, Progress, Clear, Wait, Rendering
<1>1. CASE Start
  BY <1>1 DEF Start
<1>2. CASE Check
  BY <1>2 DEF Check
<1>3. CASE AnswerSignIn
  BY <1>3 DEF AnswerSignIn
<1>4. CASE AnswerSwitch
  BY <1>4 DEF AnswerSwitch
<1>5. CASE Apply
  BY <1>5 DEF Apply
<1>6. CASE Result
  BY <1>6 DEF Result
<1>7. CASE Leave
  BY <1>7 DEF Leave
<1>8. CASE Cleared
  BY <1>8 DEF Cleared, ScreenInv
<1>9. CASE Fails
  BY <1>9 DEF Fails
<1>10. CASE Ask("ask_sign_in", "answer_sign_in")
  BY <1>10 DEF Ask
<1>11. CASE Ask("ask_switch", "answer_switch")
  BY <1>11 DEF Ask
<1>12. CASE ShowCode
  BY <1>12 DEF ShowCode
<1>13. CASE Poll
  BY <1>13 DEF Poll
<1>14. CASE Expired
  BY <1>14 DEF Expired
<1>15. CASE Pending
  BY <1>15 DEF Pending, Sooner
<1>16. CASE Woken
  BY <1>16 DEF Woken
<1>17. CASE Granted
  BY <1>17 DEF Granted
<1>18. CASE Exchanged
  BY <1>18 DEF Exchanged
<1>19. CASE TimerFires
  BY <1>19 DEF TimerFires
<1>20. CASE StopEarly
  BY <1>20 DEF StopEarly
<1>21. CASE Render
  BY <1>21 DEF Render
<1>22. CASE Ticks
  BY <1>22 DEF Ticks
<1>23. CASE Erase
  BY <1>23 DEF Erase
<1>24. CASE Second
  BY <1>24 DEF Second
<1>25. CASE Approve
  BY <1>25 DEF Approve
<1>26. CASE \E i \in Intervals, lifetime \in Lifetimes : Issued(i, lifetime)
  BY <1>26, EnrollmentAssumption DEF Issued
<1>27. CASE Over
  BY <1>27 DEF Over
<1> QED
  BY <1>1, <1>2, <1>3, <1>4, <1>5, <1>6, <1>7, <1>8, <1>9, <1>10, <1>11,
     <1>12, <1>13, <1>14, <1>15, <1>16, <1>17, <1>18, <1>19, <1>20, <1>21,
     <1>22, <1>23, <1>24, <1>25, <1>26, <1>27
  DEF Next, SignIn, Command, Renderer

\* The initial states satisfy the invariant.
LEMMA InitInv == Init => Inv
<1> SUFFICES ASSUME Init PROVE Inv
  OBVIOUS
<1>1. TypeOK
  BY DEF Init, TypeOK, Times, Steps
<1>2. ScreenInv
  BY DEF Init, ScreenInv, Quiet, Asks
<1>3. ClockInv
  BY EnrollmentAssumption DEF Init, ClockInv, Fresh, Ends
<1> QED BY <1>1, <1>2, <1>3 DEF Inv

\* Every step keeps it.
LEMMA NextKeepsInv == Inv /\ [Next]_vars => Inv'
<1> SUFFICES ASSUME Inv, [Next]_vars PROVE Inv'
  OBVIOUS
<1>1. CASE Next
  BY <1>1, TypesKept, ScreenKept, ClockKept DEF Inv
<1>2. CASE UNCHANGED vars
  BY <1>2 DEF Inv, TypeOK, ScreenInv, ClockInv, Quiet, Fresh, Ends, Steps, Asks,
              Waits, Times, vars, clock, screen
<1> QED BY <1>1, <1>2

\* The invariant holds in every reachable state.
THEOREM EnrollmentInvariant == Spec => []Inv
<1> QED BY InitInv, NextKeepsInv, PTL DEF Spec

\* Every variable keeps its type (DeviceLogin, progressDisplay).
THEOREM EnrollmentTypes == Spec => []TypeOK
<1>1. Inv => TypeOK
  BY DEF Inv
<1> QED BY <1>1, EnrollmentInvariant, PTL

\* No frame of the spinner meets what the command prints or asks, and the last
\* line is left clean, however the goroutine of the display is scheduled
\* (clearProgress).
THEOREM LineIsClean == Spec => []CleanLine
<1>1. Inv => CleanLine
  BY DEF Inv, TypeOK, ScreenInv, Quiet, CleanLine
<1> QED BY <1>1, EnrollmentInvariant, PTL

\* A sign-in ends when its code expires, but for one poll and one exchange that
\* are under way, for any interval, lifetime and timeout (DeviceLogin).
THEOREM SignInEnds == Spec => []EndsInTime
<1>1. Inv => EndsInTime
  BY DEF Inv, ClockInv, Ends, EndsInTime
<1> QED BY <1>1, EnrollmentInvariant, PTL

\* Polls are sent while the code is valid and an interval apart, although the
\* last sleep is cut short (DeviceLogin).
THEOREM PollsKeepTime == Spec => PollsInTime
<1>1. Inv /\ [Next]_vars =>
        [pc = "next" /\ pc' = "poll" =>
           /\ now < expires
           /\ polled # Never => now >= polled + interval]_vars
  <2> SUFFICES ASSUME Inv, Next, pc = "next", pc' = "poll"
               PROVE  /\ now < expires
                      /\ polled # Never => now >= polled + interval
    OBVIOUS
  <2>1. Poll
    BY DEF Next, SignIn, Command, Renderer, Start, Check, AnswerSignIn,
           AnswerSwitch, Apply, Result, Leave, Cleared, Fails, Ask, Over, Clear,
           Issued, ShowCode, Expired, Pending, Woken, Granted, Exchanged, Wait,
           TimerFires, StopEarly, Render, Ticks, Erase, Rendering, Second,
           Approve, Waits, Asks
  <2>2. /\ now \in Nat /\ expires \in Nat /\ interval \in Nat
        /\ polled \in Times
    BY DEF Inv, TypeOK, ClockInv, Times
  <2> QED BY <2>1, <2>2 DEF Poll, Inv, ClockInv, Times
<1> QED BY <1>1, EnrollmentInvariant, PTL DEF Spec, PollsInTime

=============================================================================
