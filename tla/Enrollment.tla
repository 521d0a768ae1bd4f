----------------------------- MODULE Enrollment ----------------------------
(***************************************************************************)
(* Signing in with a device code, and what the terminal shows meanwhile:   *)
(* Client.DeviceLogin of internal/auth/client.go, the commands that call   *)
(* it (internal/cli/enroll.go, and switch.go for an account that must sign *)
(* in again), and the spinner of internal/cli/progress.go.                 *)
(*                                                                         *)
(* The command and the goroutine that draws the spinner run concurrently   *)
(* and write to one terminal.  The spinner is drawn again and again until  *)
(* clearProgress has closed its channel and has seen it stop; what is      *)
(* printed before that lands on a frame, and a frame that is drawn after   *)
(* it wipes out a prompt.                                                  *)
(*                                                                         *)
(* Time is counted in seconds and passes while the command waits for the   *)
(* network or sleeps.                                                      *)
(***************************************************************************)
EXTENDS Integers

CONSTANTS
  Commands,   \* "add", "switch"
  Intervals,  \* seconds between two polls that the server may ask for
  Lifetimes,  \* seconds until the code expires
  Timeout,    \* seconds until the client gives up a request
  Never       \* a time that is not known yet

Times == Nat \cup {Never}

ASSUME EnrollmentAssumption ==
  /\ Intervals \subseteq Nat \ {0}
  /\ Lifetimes \subseteq Nat \ {0}
  /\ Timeout \in Nat
  /\ Never \notin Nat

VARIABLES
  command,   \* what the invocation of verso is
  tty,       \* stderr is a terminal that may show a spinner
  pc,        \* the next step of the command
  after,     \* where it goes on after clearProgress
  now,       \* the time
  until,     \* when its request is given up, or its sleep is over
  interval, expires,  \* those of the device code
  polled,    \* when the last poll was sent
  approved,  \* the human has entered the code
  display,   \* progressState.display is set
  done,      \* its channel done is closed
  renderer,  \* the goroutine of the display
  line       \* the terminal line the cursor is on

clock  == <<now, until, interval, expires, polled, approved>>
screen == <<display, done, renderer, line>>
vars   == <<command, tty, pc, after, clock, screen>>

Waits == {"request", "poll", "sleep", "exchange"}
Asks  == {"answer_sign_in", "answer_switch"}
Steps == {"start", "check", "ask_sign_in", "ask_switch", "show", "next", "save",
          "apply", "clear", "result", "leave", "over"} \cup Waits \cup Asks

TypeOK ==
  /\ command \in Commands /\ tty \in BOOLEAN
  /\ pc \in Steps /\ after \in Steps
  /\ now \in Nat /\ until \in Nat
  /\ interval \in Times /\ expires \in Times /\ polled \in Times
  /\ approved \in BOOLEAN
  /\ display \in BOOLEAN /\ done \in BOOLEAN
  /\ renderer \in {"none", "delay", "draw", "tick", "stopped"}
  /\ line \in {"blank", "frame", "prompt", "mixed"}

Init ==
  /\ command \in Commands /\ tty \in BOOLEAN
  /\ pc = "start" /\ after = "over"
  /\ now = 0 /\ until = 0
  /\ interval = Never /\ expires = Never /\ polled = Never
  /\ approved = FALSE
  /\ display = FALSE /\ done = FALSE /\ renderer = "none"
  /\ line = "blank"

-----------------------------------------------------------------------------
(* The terminal *)

\* App.progress starts a display, or changes the message of the one there is.
Progress ==
  /\ display' = (display \/ tty)
  /\ IF tty /\ ~display THEN renderer' = "delay" /\ done' = FALSE
                        ELSE UNCHANGED <<renderer, done>>

\* Text goes where the cursor is.
Printed == IF line = "frame" THEN "mixed" ELSE "blank"

\* clearProgress closes done ...
Clear(step) ==
  /\ done' = display
  /\ pc' = "clear" /\ after' = step
  /\ UNCHANGED <<display, renderer, line>>

ClearedMutant ==
  /\ pc = "clear"
  /\ display' = FALSE
  /\ pc' = after
  /\ UNCHANGED <<command, tty, after, clock, done, renderer, line>>

\* ... and holds the lock until the renderer has stopped.
Cleared ==
  /\ pc = "clear" /\ (display => renderer = "stopped")
  /\ display' = FALSE
  /\ pc' = after
  /\ UNCHANGED <<command, tty, after, clock, done, renderer, line>>

(* progressDisplay.run: a select with both channels ready takes either. *)

Rendering == <<command, tty, pc, after, clock, display, done>>

TimerFires == /\ renderer = "delay"
              /\ renderer' = "draw"
              /\ UNCHANGED <<Rendering, line>>

StopEarly == /\ renderer = "delay" /\ done
             /\ renderer' = "stopped"
             /\ UNCHANGED <<Rendering, line>>

Render == /\ renderer = "draw"
          /\ renderer' = "tick" /\ line' = "frame"
          /\ UNCHANGED Rendering

Ticks == /\ renderer = "tick"
         /\ renderer' = "draw"
         /\ UNCHANGED <<Rendering, line>>

Erase == /\ renderer = "tick" /\ done
         /\ renderer' = "stopped" /\ line' = "blank"
         /\ UNCHANGED Rendering

-----------------------------------------------------------------------------
(* DeviceLogin *)

\* Requests and sleeps end in time or with an error.
Wait(step, deadline) == pc' = step /\ until' = deadline

Fails ==
  /\ pc \in Waits \cup Asks \cup {"check", "show", "save", "apply"}
  /\ Clear("result")
  /\ UNCHANGED <<command, tty, clock>>

IssuedMutant(i, lifetime) ==
  /\ pc = "request"
  /\ interval' = i /\ expires' = lifetime - now
  /\ Clear("show")
  /\ UNCHANGED <<command, tty, now, until, polled, approved>>

\* The answer to the request for a code; onCode clears the spinner first.  An
\* interval that is not positive becomes the default one.
Issued(i, lifetime) ==
  /\ pc = "request"
  /\ interval' = i /\ expires' = now + lifetime
  /\ Clear("show")
  /\ UNCHANGED <<command, tty, now, until, polled, approved>>

ShowCode ==
  /\ pc = "show"
  /\ line' = Printed
  /\ Progress
  /\ pc' = "next"
  /\ UNCHANGED <<command, tty, after, clock>>

\* The human enters the code while it is valid.
Approve ==
  /\ expires # Never /\ now < expires /\ ~approved
  /\ approved' = TRUE
  /\ UNCHANGED <<command, tty, pc, after, now, until, interval, expires, polled,
                 screen>>

PollLateMutant ==
  /\ pc = "next" /\ now <= expires
  /\ Wait("poll", now + Timeout) /\ polled' = now
  /\ UNCHANGED <<command, tty, after, now, interval, expires, approved, screen>>

Poll ==
  /\ pc = "next" /\ now < expires
  /\ Wait("poll", now + Timeout) /\ polled' = now
  /\ UNCHANGED <<command, tty, after, now, interval, expires, approved, screen>>

\* ErrDeviceExpired
Expired ==
  /\ pc = "next" /\ now >= expires
  /\ Clear("result")
  /\ UNCHANGED <<command, tty, clock>>

Sooner(s, t) == IF s < t THEN s ELSE t

PendingUnclippedMutant ==
  /\ pc = "poll"
  /\ Wait("sleep", now + interval)
  /\ UNCHANGED <<command, tty, after, now, interval, expires, polled, approved,
                 screen>>

\* Not yet: sleep for an interval, but not beyond the expiry.
Pending ==
  /\ pc = "poll"
  /\ Wait("sleep", IF now < expires THEN Sooner(now + interval, expires) ELSE now)
  /\ UNCHANGED <<command, tty, after, now, interval, expires, polled, approved,
                 screen>>

Woken ==
  /\ pc = "sleep" /\ now >= until
  /\ pc' = "next"
  /\ UNCHANGED <<command, tty, after, clock, screen>>

Granted ==
  /\ pc = "poll" /\ approved
  /\ Wait("exchange", now + Timeout)
  /\ UNCHANGED <<command, tty, after, now, interval, expires, polled, approved,
                 screen>>

\* The tokens are there; a switch goes on to ask for its approval.
Exchanged ==
  /\ pc = "exchange"
  /\ IF command = "add" THEN pc' = "save" /\ UNCHANGED <<after, screen>>
                        ELSE Clear("ask_switch")
  /\ UNCHANGED <<command, tty, clock>>

\* Time passes while the command waits, and no wait outlasts its deadline.
Second ==
  /\ pc \in Waits /\ now < until
  /\ now' = now + 1
  /\ UNCHANGED <<command, tty, pc, after, until, interval, expires, polled,
                 approved, screen>>

-----------------------------------------------------------------------------
(* The commands *)

\* add takes the lock and signs in; a switch looks at the machine first.
Start ==
  /\ pc = "start"
  /\ Progress
  /\ IF command = "add" THEN Wait("request", now + Timeout)
                        ELSE Wait("check", until)
  /\ UNCHANGED <<command, tty, after, now, interval, expires, polled, approved,
                 line>>

Check ==
  /\ pc = "check"
  /\ Clear("ask_sign_in") \/ Clear("ask_switch")
  /\ UNCHANGED <<command, tty, clock>>

\* A prompt leaves the cursor on its line.
Ask(ask, answer) ==
  /\ pc = ask
  /\ line' = IF Printed = "mixed" THEN "mixed" ELSE "prompt"
  /\ pc' = answer
  /\ UNCHANGED <<command, tty, after, clock, display, done, renderer>>

AnswerSignIn ==
  /\ pc = "answer_sign_in"
  /\ line' = "blank"
  /\ Progress
  /\ Wait("request", now + Timeout)
  /\ UNCHANGED <<command, tty, after, now, interval, expires, polled, approved>>

\* The transaction reports its phases (OnProgress).
AnswerSwitch ==
  /\ pc = "answer_switch"
  /\ line' = "blank"
  /\ Progress
  /\ pc' = "apply"
  /\ UNCHANGED <<command, tty, after, clock>>

Apply ==
  /\ pc \in {"save", "apply"}
  /\ Clear("result")
  /\ UNCHANGED <<command, tty, clock>>

\* finish
Result ==
  /\ pc = "result"
  /\ line' = Printed
  /\ pc' = "leave"
  /\ UNCHANGED <<command, tty, after, clock, display, done, renderer>>

\* The deferred clearProgress of Run, and the end.
Leave ==
  /\ pc = "leave"
  /\ Clear("over")
  /\ UNCHANGED <<command, tty, clock>>

Over == pc = "over" /\ UNCHANGED vars

-----------------------------------------------------------------------------

SignIn == \/ \E i \in Intervals, lifetime \in Lifetimes : Issued(i, lifetime)
          \/ ShowCode \/ Poll \/ Expired \/ Pending \/ Woken \/ Granted
          \/ Exchanged

Command == \/ Start \/ Check \/ AnswerSignIn \/ AnswerSwitch \/ Apply \/ Result
           \/ Leave \/ Cleared \/ Fails \/ Over
           \/ Ask("ask_sign_in", "answer_sign_in")
           \/ Ask("ask_switch", "answer_switch")

Renderer == TimerFires \/ StopEarly \/ Render \/ Ticks \/ Erase

Next == SignIn \/ Command \/ Renderer \/ Second \/ Approve

Spec == Init /\ [][Next]_vars
-----------------------------------------------------------------------------
(* Properties *)

\* Nothing is printed on a frame, no frame is drawn over a prompt, and the
\* last line is left clean, however the ticks, the stop and the select of the
\* spinner interleave ("clear it before prompts and results", README.md).
CleanLine ==
  /\ line # "mixed"
  /\ pc \in Asks => line = "prompt"
  /\ pc = "over" => line = "blank" /\ renderer \in {"none", "stopped"}

\* A poll is sent while the code is valid, and an interval after the one
\* before at the earliest, although the last sleep is cut short at the expiry.
PollsInTime ==
  [][pc = "next" /\ pc' = "poll" =>
       /\ now < expires
       /\ polled # Never => now >= polled + interval]_vars

\* add, which keeps every other command out, ends when the code expires but
\* for the requests under way: at most one poll and one exchange.
EndsInTime ==
  command = "add" =>
    now <= IF expires = Never THEN Timeout ELSE expires + 2 * Timeout
=============================================================================
