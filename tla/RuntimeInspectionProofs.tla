----------------------- MODULE RuntimeInspectionProofs ----------------------
(***************************************************************************)
(* Proofs about RuntimeInspection, for any processes, threads and pages:   *)
(* turns that were there are not cut off, the target is installed only     *)
(* after the exit, and the daemon that is verified was born after it.      *)
(***************************************************************************)
EXTENDS RuntimeInspection, FiniteSetTheorems, WellFoundedInduction, TLAPS

\* A record that Verso holds names a process that was born, and if it still
\* runs, a daemon.
Known(r) == r # None => /\ r.birth <= clock
                        /\ Alive(r) => Is(r.pid, {"daemon", "stopping"})

\* The process with that pid is not one that the confirming inspection took for
\* stopped.
Gone(p) == procs[p] # None => \/ procs[p].birth > cleared
                              \/ procs[p].role = "other"

ProcsInv ==
  /\ \A p \in Pids : procs[p] # None => procs[p].birth <= clock
  /\ Known(record) /\ Known(found) /\ Known(observed) /\ Known(previous)
  /\ cleared <= clock

Listed == step \in {"socket", "record"}
Probed == step \in {"owner", "dial", "config", "list", "read"}
Ended  == task \in {"reread", "exited", "done"}

\* What the switch knows of the exit of the old process, of the birth of the new
\* one and of the login that it reread.
ExitInv ==
  /\ task \in Commands => step = "none"
  /\ task \in {"fresh", "begin", "recheck"} => previous = None
  /\ task \in {"recheck", "confirm"} /\ Listed =>
       \A p \in Pids : Alive(observed) /\ observed.pid = p => seen[p] = "server"
  /\ task = "confirm" /\ Listed =>
       \A p \in Pids : seen[p] = "server" \/ Gone(p)
  /\ task = "install" => ~Alive(observed)
  /\ \/ task \in {"install", "start"} /\ previous # None
     \/ task \in {"started", "verify"}
     \/ Ended
     => \A p \in Pids : Gone(p)
  /\ (task = "verify" /\ Probed) \/ Ended =>
       found # None /\ found.birth > cleared
  /\ Ended => found # previous
  /\ task \in {"exited", "done"} => auth = Target \/ moved
  /\ task = "done" => ~Alive(previous)

\* The page after a thread is still to come, or will be refused.
Beyond(t, after) == after # 0 /\ (t > after \/ after \in cursors)

\* Where a turn that is active since the inspection began may still be: counted,
\* on the page being read, on the wire, or on a page to come.
TurnsInv ==
  /\ \A t \in turns : threads[t] = "active"
  /\ task = "stop" => turns = {}
  /\ step \in {"identity", "processes", "socket", "record", "birth", "owner",
               "dial", "config"} =>
       cursor = 0 /\ page = {} /\ busy = {} /\ wire = None
  /\ cursor # 0 => cursor \in cursors
  /\ wire # None => step = "list" \/ (step = "read" /\ page # {})
  /\ step = "list" => \A t \in turns : t \in busy \/ t > cursor
  /\ step = "list" /\ wire # None /\ wire.mine =>
       \A t \in turns : t \in busy \/ t \in wire.ids \/ Beyond(t, wire.next)
  /\ step = "read" =>
       \A t \in turns : t \in busy \/ t \in page \/ Beyond(t, next)
  /\ step = "read" /\ wire # None /\ wire.mine =>
       wire.active \/ FirstOf(page) \notin turns

\* The inductive invariant.
Inv == TypeOK /\ ProcsInv /\ ExitInv /\ TurnsInv

\* A set of numbers has a least one.
LEMMA Least ==
  ASSUME NEW S \in SUBSET Nat, S # {}
  PROVE  \E m \in S : \A k \in S : m <= k
<1>1. IsWellFoundedOn(OpToRel(<, Nat), Nat)
  BY NatLessThanWellFounded
<1>2. PICK m \in S : \A k \in S : ~ (<<k, m>> \in OpToRel(<, Nat))
  BY <1>1, WFMin
<1>3. \A k \in S : <<k, m>> \in OpToRel(<, Nat) <=> k < m
  BY DEF OpToRel
<1>4. \A k \in S : ~(k < m)
  BY <1>2, <1>3, Zenon
<1>5. \A k \in S : m <= k
  BY <1>4
<1> QED BY <1>5

\* A set of threads has a last one.
LEMMA Greatest ==
  ASSUME NEW S \in SUBSET Threads, S # {}
  PROVE  \E m \in S : \A k \in S : k <= m
<1>0. MaxThread \in Nat
  BY InspectionAssumption
<1> DEFINE T == {MaxThread - s : s \in S}
<1>1. T \in SUBSET Nat /\ T # {}
  <2>1. \A s \in S : MaxThread - s \in Nat
    BY <1>0 DEF Threads
  <2> QED BY <2>1
<1>2. PICK n \in T : \A k \in T : n <= k
  <2> HIDE DEF T
  <2> QED BY <1>1, Least
<1>3. PICK m \in S : n = MaxThread - m
  OBVIOUS
<1>4. ASSUME NEW k \in S PROVE k <= m
  <2>1. MaxThread - m <= MaxThread - k
    BY <1>2, <1>3
  <2> QED BY <1>0, <2>1 DEF Threads
<1> QED BY <1>4

\* FirstOf and Last are what their names say.
LEMMA Ends ==
  ASSUME NEW S \in SUBSET Threads, S # {}
  PROVE  /\ FirstOf(S) \in S /\ \A t \in S : FirstOf(S) <= t
         /\ Last(S) \in S /\ \A t \in S : t <= Last(S)
<1>1. \E t \in S : \A u \in S : t <= u
  <2>1. S \in SUBSET Nat
    BY InspectionAssumption DEF Threads
  <2> QED BY <2>1, Least
<1>2. \E t \in S : \A u \in S : u <= t
  BY Greatest
<1> QED BY <1>1, <1>2 DEF FirstOf, Last

\* A page is a beginning of what is left, and empty only if nothing is left.
LEMMA Pages ==
  ASSUME NEW S \in SUBSET Threads
  PROVE  /\ PageOf(S) \in SUBSET S
         /\ S # {} => PageOf(S) # {}
         /\ PageOf(S) # {} =>
              \A t \in S : t \in PageOf(S) \/ t > Last(PageOf(S))
<1>0. IsFiniteSet(Threads) /\ MaxThread \in Nat
  BY FS_Interval, InspectionAssumption DEF Threads
<1>1. \A t \in S : LET T == {u \in S : u <= t}
                   IN  IsFiniteSet(T) /\ Cardinality(T) \in Nat
  BY <1>0, FS_Subset, FS_CardinalityType
<1>4. \A t \in S : t \in Nat
  BY <1>0 DEF Threads
<1>2. ASSUME S # {} PROVE FirstOf(S) \in PageOf(S)
  <2>1. {u \in S : u <= FirstOf(S)} = {FirstOf(S)}
    <3>1. /\ FirstOf(S) \in S
          /\ \A u \in S : u \in Nat /\ (u <= FirstOf(S) => u = FirstOf(S))
      <4>1. FirstOf(S) \in S /\ \A u \in S : u \in Nat /\ FirstOf(S) <= u
        BY <1>0, <1>2, Ends DEF Threads
      <4> QED BY <4>1
    <3> QED BY <3>1
  <2>2. Cardinality({u \in S : u <= FirstOf(S)}) = 1
    BY <2>1, FS_Singleton
  <2> QED BY <1>2, <2>2, Ends, InspectionAssumption DEF PageOf
<1>3. ASSUME PageOf(S) # {}, NEW t \in S, t <= Last(PageOf(S))
      PROVE  t \in PageOf(S)
  <2> DEFINE m == Last(PageOf(S))
             A == {u \in S : u <= t}
             B == {u \in S : u <= m}
  <2>1. m \in PageOf(S)
    BY <1>3, Ends DEF PageOf
  <2>2. A \subseteq B
    <3>1. m \in S
      BY <2>1 DEF PageOf
    <3>2. ASSUME NEW u \in S, u <= t PROVE u <= m
      <4>1. u \in Nat /\ t \in Nat /\ m \in Nat
        BY <1>4, <3>1
      <4>2. t <= m
        BY <1>3
      <4> HIDE DEF m
      <4> QED BY <3>2, <4>1, <4>2
    <3> QED BY <3>2
  <2>3. IsFiniteSet(B) /\ Cardinality(A) <= Cardinality(B)
    BY <1>0, <2>2, FS_Subset
  <2>4. Cardinality(B) <= PageSize
    BY <2>1 DEF PageOf
  <2>5. Cardinality(A) \in Nat /\ Cardinality(B) \in Nat
    BY <1>1, <2>1 DEF PageOf
  <2>6. Cardinality(A) <= PageSize
    BY <2>3, <2>4, <2>5, InspectionAssumption
  <2> QED BY <2>6 DEF PageOf
<1>5. PageOf(S) # {} => Last(PageOf(S)) \in Nat
  BY <1>4, Ends DEF PageOf
<1>6. ASSUME PageOf(S) # {}
      PROVE  \A t \in S : t \in PageOf(S) \/ t > Last(PageOf(S))
  BY <1>3, <1>4, <1>5, <1>6
<1>7. PageOf(S) \in SUBSET S
  BY DEF PageOf
<1> QED BY <1>2, <1>6, <1>7

\* What may become of a process in a step: it stays, goes, is told to stop, or
\* is born in a free place, later than all others.
Moves(p) ==
  \/ procs'[p] = procs[p]
  \/ procs'[p] = None
  \/ /\ procs[p] = None /\ procs'[p] # None
     /\ clock' = clock + 1 /\ procs'[p].birth = clock + 1
  \/ /\ procs[p] # None /\ procs'[p] # None
     /\ procs[p].role = "daemon" /\ procs'[p].role = "stopping"
     /\ procs'[p].birth = procs[p].birth

\* A process that is born.
LEMMA Births ==
  ASSUME TypeOK, NEW pid \in Pids, NEW role \in Roles, Spawned(pid, role)
  PROVE  /\ \A p \in Pids : Moves(p)
         /\ clock' = clock + 1 /\ clock' \in 0..MaxBirths
         /\ procs' \in [Pids -> Processes \cup {None}]
<1> DEFINE new == [birth |-> clock + 1, role |-> role, login |-> auth]
<1>1. clock \in Nat /\ clock' = clock + 1 /\ clock + 1 \in 1..MaxBirths
  BY InspectionAssumption DEF Spawned, TypeOK
<1>2. new \in Processes /\ new # None
  BY <1>1, InspectionAssumption DEF Processes, TypeOK
<1>3. procs' = [procs EXCEPT ![pid] = new]
  BY DEF Spawned
<1>4. new.birth = clock + 1
  OBVIOUS
<1>5. procs[pid] = None /\ procs \in [Pids -> Processes \cup {None}]
  BY DEF Spawned, TypeOK
<1> HIDE DEF new
<1>6. procs' \in [Pids -> Processes \cup {None}]
  BY <1>2, <1>3, <1>5
<1>7. \A p \in Pids : Moves(p)
  BY <1>1, <1>2, <1>3, <1>4, <1>5 DEF Moves
<1>8. clock' \in 0..MaxBirths
  BY <1>1, InspectionAssumption
<1> QED BY <1>1, <1>6, <1>7, <1>8

\* A daemon that is told to stop.
LEMMA Stops ==
  ASSUME TypeOK, NEW pid \in Pids, Is(pid, {"daemon"}), Stopping(pid)
  PROVE  /\ \A p \in Pids : Moves(p)
         /\ procs' \in [Pids -> Processes \cup {None}]
<1> DEFINE new == [procs[pid] EXCEPT !.role = "stopping"]
<1>1. /\ procs[pid] \in Processes /\ procs[pid] # None
      /\ procs[pid].role = "daemon"
  BY DEF Is, TypeOK
<1>2. /\ new \in Processes /\ new.role = "stopping"
      /\ new.birth = procs[pid].birth
  BY <1>1 DEF Processes, Roles
<1>3. new # None
  BY <1>2, InspectionAssumption
<1>4. procs' = [procs EXCEPT ![pid] = new]
  BY DEF Stopping
<1> HIDE DEF new
<1> QED BY <1>1, <1>2, <1>3, <1>4 DEF Moves, TypeOK

\* A process that goes.
LEMMA Goes ==
  ASSUME TypeOK, NEW pid \in Pids, procs' = [procs EXCEPT ![pid] = None]
  PROVE  /\ \A p \in Pids : Moves(p)
         /\ procs' \in [Pids -> Processes \cup {None}]
BY DEF Moves, TypeOK

\* The threads of a daemon that goes are unloaded, others stay.
LEMMA ThreadTypes ==
  ASSUME TypeOK, NEW pid \in Pids
  PROVE  After(pid) \in [Threads -> {"unloaded", "idle", "active"}]
BY DEF TypeOK, After, Unloaded

\* A process that holds a record is one.
LEMMA Selves ==
  ASSUME TypeOK, NEW pid \in Pids, procs[pid] # None
  PROVE  Self(pid) \in Records
BY DEF TypeOK, Self, Records, Processes

\* The three things that Receive does with a message.
Skips ==
  /\ wire # None /\ wire' = None
  /\ UNCHANGED <<world, task, step, evidence, cursor, cursors, page, next, busy,
                 plan, history>>

TakesPage ==
  /\ wire # None /\ wire.mine /\ step = "list"
  /\ wire' = None /\ step' = "read" /\ page' = wire.ids /\ next' = wire.next
  /\ UNCHANGED <<world, task, evidence, cursor, cursors, busy, plan, history>>

TakesThread ==
  /\ wire # None /\ wire.mine /\ step = "read" /\ page # {}
  /\ wire' = None /\ step' = "read" /\ page' = page \ {FirstOf(page)}
  /\ busy' = IF wire.active THEN busy \cup {FirstOf(page)} ELSE busy
  /\ UNCHANGED <<world, task, evidence, cursor, cursors, next, plan, history>>

\* Receive does one of them.
LEMMA Receives ==
  ASSUME Inv, Receive
  PROVE  Skips \/ TakesPage \/ TakesThread
<1>1. wire # None /\ wire.mine \in BOOLEAN
  BY DEF Receive, Inv, TypeOK, Messages
<1>2. step = "list" \/ (step = "read" /\ page # {})
  BY <1>1 DEF Inv, TurnsInv
<1>3. CASE ~wire.mine
  BY <1>1, <1>3 DEF Receive, Skips, Goto, world, plan, history
<1>4. CASE wire.mine /\ step = "list"
  BY <1>1, <1>4 DEF Receive, TakesPage, Goto, world, plan, history
<1>5. CASE wire.mine /\ step = "read"
  BY <1>1, <1>2, <1>5 DEF Receive, TakesThread, Goto, world, plan, history
<1> QED BY <1>1, <1>2, <1>3, <1>4, <1>5

\* Every step moves processes so, and takes records from where they are.
Roots ==
  /\ \/ record' \in {record, None}
     \/ /\ \E pid \in Pids : Is(pid, {"daemon"}) /\ record' = Self(pid)
        /\ procs' = procs
  /\ found' \in {found, record, None}
  /\ observed' \in {observed, found} /\ previous' \in {previous, found}
  /\ cleared' \in {cleared, clock}
  /\ clock' \in {clock, clock + 1}
  /\ task' = "done" => task = "done" \/ (task = "exited" /\ ~Alive(previous))

\* No step moves them otherwise, and only a switch that found the old process
\* gone is done.
LEMMA StepMoves ==
  ASSUME Inv, Next
  PROVE  (\A p \in Pids : Moves(p)) /\ Roots
<1>0. TypeOK
  BY DEF Inv
<1> USE DEF vars, world, inventory, evidence, plan, history, Outer, Goto,
      Proceed, Begin, Closed, Event, Send
<1>1. CASE ReadIdentity
  BY <1>1 DEF ReadIdentity, Moves, Roots
<1>2. CASE ListProcesses
  BY <1>2 DEF ListProcesses, Moves, Roots
<1>3. CASE LstatSocket
  BY <1>3 DEF LstatSocket, Moves, Roots
<1>4. CASE ReadRecord
  BY <1>4 DEF ReadRecord, Moves, Roots
<1>5. CASE Stopped
  BY <1>5 DEF Stopped, Moves, Roots
<1>6. CASE CheckBirth
  BY <1>6 DEF CheckBirth, Moves, Roots
<1>7. CASE OwnsSocket
  BY <1>7 DEF OwnsSocket, Moves, Roots
<1>8. CASE DialRPC
  BY <1>8 DEF DialRPC, Moves, Roots
<1>9. CASE ReadConfig(TRUE)
  BY <1>9 DEF ReadConfig, Moves, Roots
<1>10. CASE ReadConfig(FALSE)
  BY <1>10 DEF ReadConfig, Moves, Roots
<1>11. CASE Skips
  BY <1>11 DEF Skips, Moves, Roots
<1>12. CASE TakesPage
  BY <1>12 DEF TakesPage, Moves, Roots
<1>13. CASE TakesThread
  BY <1>13 DEF TakesThread, Moves, Roots
<1>14. CASE NextPage
  BY <1>14 DEF NextPage, Moves, Roots
<1>15. CASE Preview
  BY <1>15 DEF Preview, Moves, Roots
<1>16. CASE BeginStop
  BY <1>16 DEF BeginStop, Moves, Roots
<1>17. CASE Recheck
  BY <1>17 DEF Recheck, Moves, Roots
<1>18. CASE Guard
  BY <1>18 DEF Guard, Moves, Roots
<1>19. CASE Stop
  <2>1. CASE Alive(record) /\ Is(record.pid, {"daemon"})
    <3>1. record.pid \in Pids
      BY <1>0, <2>1 DEF Alive, TypeOK, Records
    <3>2. \A p \in Pids : Moves(p)
      BY <1>19, <2>1, <3>1, <1>0, Stops DEF Stop
    <3>3. Roots
      BY <1>19, <2>1 DEF Stop, Roots
    <3> QED BY <3>2, <3>3
  <2>2. CASE ~(Alive(record) /\ Is(record.pid, {"daemon"}))
    BY <1>19, <2>2 DEF Stop, Moves, Roots
  <2> QED BY <2>1, <2>2
<1>20. CASE Install
  BY <1>20 DEF Install, Moves, Roots
<1>21. CASE Start
  <2>1. CASE Alive(record) /\ Is(record.pid, {"daemon"})
    BY <1>21, <2>1 DEF Start, Moves, Roots
  <2>2. CASE ~(Alive(record) /\ Is(record.pid, {"daemon"}))
    <3>1. PICK pid \in Pids : Spawned(pid, "daemon")
      BY <1>21, <2>2 DEF Start
    <3>2. (\A p \in Pids : Moves(p)) /\ clock' = clock + 1
      BY <1>0, <3>1, Births DEF Roles
    <3> QED BY <1>21, <3>2 DEF Start, Roots
  <2> QED BY <2>1, <2>2
<1>22. CASE Started
  BY <1>22 DEF Started, Moves, Roots
<1>23. CASE Verify
  BY <1>23 DEF Verify, Moves, Roots
<1>24. CASE Reread
  BY <1>24 DEF Reread, Moves, Roots
<1>25. CASE Exited
  BY <1>25 DEF Exited, Moves, Roots
<1>26. CASE Fail
  BY <1>26 DEF Fail, Moves, Roots
<1>27. CASE AnswerList
  BY <1>27 DEF AnswerList, Moves, Roots
<1>28. CASE AnswerRead
  BY <1>28 DEF AnswerRead, Moves, Roots
<1>29. CASE Notify
  BY <1>29 DEF Notify, Moves, Roots
<1>30. ASSUME NEW pid \in Pids, NEW role \in {"daemon", "public", "other"},
             Spawn(pid, role)
      PROVE  (\A p \in Pids : Moves(p)) /\ Roots
  <2>1. (\A p \in Pids : Moves(p)) /\ clock' = clock + 1
    BY <1>30, <1>0, Births DEF Spawn, Roles
  <2> QED BY <1>30, <2>1 DEF Spawn, Roots
<1>31. ASSUME NEW pid \in Pids, WriteRecord(pid)
      PROVE  (\A p \in Pids : Moves(p)) /\ Roots
  BY <1>31 DEF WriteRecord, Moves, Roots
<1>32. ASSUME NEW pid \in Pids, Bind(pid)
      PROVE  (\A p \in Pids : Moves(p)) /\ Roots
  BY <1>32 DEF Bind, Moves, Roots
<1>33. ASSUME NEW pid \in Pids, Retire(pid)
      PROVE  (\A p \in Pids : Moves(p)) /\ Roots
  <2>1. \A p \in Pids : Moves(p)
    BY <1>33, <1>0, Stops DEF Retire
  <2> QED BY <1>33, <2>1 DEF Retire, Roots
<1>34. ASSUME NEW pid \in Pids, RemoveSocket(pid)
      PROVE  (\A p \in Pids : Moves(p)) /\ Roots
  BY <1>34 DEF RemoveSocket, Moves, Roots
<1>35. ASSUME NEW pid \in Pids, RemoveRecord(pid)
      PROVE  (\A p \in Pids : Moves(p)) /\ Roots
  BY <1>35 DEF RemoveRecord, Moves, Roots
<1>36. ASSUME NEW pid \in Pids, Exit(pid)
      PROVE  (\A p \in Pids : Moves(p)) /\ Roots
  <2>1. \A p \in Pids : Moves(p)
    BY <1>36, <1>0, Goes DEF Exit
  <2> QED BY <1>36, <2>1 DEF Exit, Roots
<1>37. ASSUME NEW pid \in Pids, Die(pid)
      PROVE  (\A p \in Pids : Moves(p)) /\ Roots
  <2>1. \A p \in Pids : Moves(p)
    BY <1>37, <1>0, Goes DEF Die
  <2> QED BY <1>37, <2>1 DEF Die, Roots
<1>38. ASSUME NEW t \in Threads, TurnStarts(t)
      PROVE  (\A p \in Pids : Moves(p)) /\ Roots
  BY <1>38 DEF TurnStarts, Moves, Roots
<1>39. ASSUME NEW t \in Threads, TurnEnds(t)
      PROVE  (\A p \in Pids : Moves(p)) /\ Roots
  BY <1>39 DEF TurnEnds, Moves, Roots
<1>40. ASSUME NEW t \in Threads, Unload(t)
      PROVE  (\A p \in Pids : Moves(p)) /\ Roots
  BY <1>40 DEF Unload, Moves, Roots
<1>41. ASSUME NEW login \in Logins, Login(login)
      PROVE  (\A p \in Pids : Moves(p)) /\ Roots
  BY <1>41 DEF Login, Moves, Roots
<1> QED
  BY <1>1, <1>2, <1>3, <1>4, <1>5, <1>6, <1>7, <1>8, <1>9, <1>10,
     <1>11, <1>12, <1>13, <1>14, <1>15, <1>16, <1>17, <1>18, <1>19, <1>20,
     <1>21, <1>22, <1>23, <1>24, <1>25, <1>26, <1>27, <1>28, <1>29, <1>30,
     <1>31, <1>32, <1>33, <1>34, <1>35, <1>36, <1>37, <1>38, <1>39, <1>40,
     <1>41, Receives
  DEF Next, Inspect, Switch, Answers, Outside

\* What is gone stays gone, and a daemon stays one until it goes.
LEMMA StaysGone ==
  ASSUME Inv, Next, NEW r \in Records \cup {None}, Known(r)
  PROVE  /\ r # None => /\ r.birth <= clock'
                        /\ procs'[r.pid] # None /\ procs'[r.pid].birth = r.birth
                             => procs'[r.pid].role \in {"daemon", "stopping"}
         /\ ~Alive(r) => ~(/\ r # None /\ procs'[r.pid] # None
                           /\ procs'[r.pid].birth = r.birth)
<1>1. CASE r = None
  BY <1>1
<1>2. CASE r # None
  <2>1. r \in Records /\ r.pid \in Pids /\ r.birth \in Nat /\ clock \in Nat
    BY <1>2, InspectionAssumption DEF Records, Inv, TypeOK
  <2>2. r.birth <= clock /\ clock' \in {clock, clock + 1} /\ Moves(r.pid)
    BY <1>2, <2>1, StepMoves DEF Known, Roots
  <2>3. /\ procs[r.pid] # None /\ procs[r.pid].birth = r.birth =>
             procs[r.pid].role \in {"daemon", "stopping"}
        /\ Alive(r) <=> procs[r.pid] # None /\ procs[r.pid].birth = r.birth
    BY <1>2 DEF Known, Alive, Is
  <2> QED BY <2>1, <2>2, <2>3 DEF Moves
<1> QED BY <1>1, <1>2

\* A place that lost its process, or got a later one, never gets it back.
LEMMA GoneStays ==
  ASSUME Inv, Next, NEW p \in Pids, Gone(p), cleared' = cleared
  PROVE  Gone(p)'
<1>1. Moves(p)
  BY StepMoves
<1>2. cleared \in Nat /\ clock \in Nat /\ cleared <= clock
  BY InspectionAssumption DEF Inv, TypeOK, ProcsInv
<1> QED BY <1>1, <1>2 DEF Gone, Moves

\* Every step keeps what is known of the births.
LEMMA ProcsKept ==
  ASSUME Inv, Next
  PROVE  ProcsInv'
<1>1. /\ clock \in Nat /\ cleared \in Nat /\ cleared <= clock
      /\ clock' \in {clock, clock + 1}
  BY InspectionAssumption, StepMoves DEF Inv, TypeOK, ProcsInv, Roots
<1>2. ASSUME NEW p \in Pids, procs'[p] # None PROVE procs'[p].birth <= clock'
  <2>1. Moves(p) /\ (procs[p] # None => procs[p].birth <= clock)
    BY StepMoves DEF Inv, ProcsInv
  <2>2. procs[p] # None => procs[p].birth \in Nat
    BY InspectionAssumption DEF Inv, TypeOK, Processes
  <2> QED BY <1>1, <1>2, <2>1, <2>2 DEF Moves
<1>3. /\ {record, found, observed, previous} \subseteq Records \cup {None}
      /\ Known(record) /\ Known(found) /\ Known(observed) /\ Known(previous)
      /\ Known(None)
  BY DEF Inv, TypeOK, ProcsInv, Known
<1>4. ASSUME NEW r \in Records \cup {None}, Known(r)
      PROVE  Known(r)'
  BY <1>4, StaysGone DEF Known, Alive, Is
<1>5. ASSUME NEW pid \in Pids, Is(pid, {"daemon"}), record' = Self(pid),
             procs' = procs
      PROVE  Known(record)'
  <2>1. procs[pid].birth \in Nat /\ procs[pid].birth <= clock
    BY <1>5, InspectionAssumption DEF Is, Inv, TypeOK, ProcsInv, Processes
  <2> QED BY <1>1, <1>5, <2>1 DEF Known, Is, Self
<1>6. Known(record)'
  BY <1>3, <1>4, <1>5, StepMoves DEF Roots
<1>7. Known(found)' /\ Known(observed)' /\ Known(previous)'
  BY <1>3, <1>4, StepMoves DEF Roots
<1>8. (cleared <= clock)'
  BY <1>1, StepMoves DEF Roots
<1> QED BY <1>2, <1>6, <1>7, <1>8 DEF ProcsInv

\* Every step keeps what is known of the exit and the birth.
LEMMA ExitKept ==
  ASSUME Inv, Next
  PROVE  ExitInv'
<1> DEFINE Old == {"fresh", "begin", "recheck"}
<1>a. ~Alive(observed) /\ observed' = observed => ~Alive(observed)'
  BY StaysGone DEF Inv, TypeOK, ProcsInv, Alive
<1>b. ~Alive(previous) /\ previous' = previous => ~Alive(previous)'
  BY StaysGone DEF Inv, TypeOK, ProcsInv, Alive
<1>c. \A p \in Pids : Gone(p) /\ cleared' = cleared => Gone(p)'
  BY GoneStays
<1>d. ExitInv
  BY DEF Inv
<1> USE <1>d DEF ExitInv, Listed, Probed, Ended, Commands, Inspections, vars,
      world, inventory, evidence, plan, history, Outer, Goto, Proceed, Begin,
      Closed, Event, Send
<1>1. CASE ReadIdentity
  BY <1>1, <1>a, <1>b, <1>c DEF ReadIdentity
<1>2. CASE ListProcesses
  <2>1. ASSUME NEW p \in Pids, task \in {"recheck", "confirm"},
               Alive(observed), observed.pid = p
        PROVE  seen'[p] = "server"
    <3>1. procs[p] # None /\ procs[p].role \in {"daemon", "stopping"}
      BY <2>1 DEF Inv, ProcsInv, Known, Alive, Is
    <3> QED BY <1>2, <3>1 DEF ListProcesses, Servers
  <2>2. ASSUME NEW p \in Pids, task = "confirm"
        PROVE  seen'[p] = "server" \/ Gone(p)'
    <3>1. CASE procs[p] = None
      BY <1>2, <3>1 DEF ListProcesses, Gone
    <3>2. CASE procs[p] # None /\ procs[p].role \in Servers
      BY <1>2, <3>2 DEF ListProcesses
    <3>3. CASE procs[p] # None /\ procs[p].role \notin Servers
      <4>1. procs[p].role \in Roles
        BY <3>3 DEF Inv, TypeOK, Processes
      <4> QED BY <1>2, <3>3, <4>1 DEF ListProcesses, Gone, Servers, Roles
    <3> QED BY <3>1, <3>2, <3>3
  <2>3. /\ step' = "socket" /\ step = "processes"
        /\ UNCHANGED <<task, observed, procs>>
    BY <1>2 DEF ListProcesses
  <2>4. task \in {"recheck", "confirm"} =>
          \A p \in Pids :
            Alive(observed)' /\ observed'.pid = p => seen'[p] = "server"
    BY <2>1, <2>3 DEF Alive
  <2> QED BY <1>2, <2>2, <2>4, <1>a, <1>b, <1>c DEF ListProcesses
<1>3. CASE LstatSocket
  BY <1>3, <1>a, <1>b, <1>c DEF LstatSocket
<1>4. CASE ReadRecord
  BY <1>4, <1>a, <1>b, <1>c DEF ReadRecord, Recorded
<1>5. CASE Stopped
  <2>1. ~Alive(observed)
    <3>1. SUFFICES ASSUME Alive(observed) PROVE FALSE
      OBVIOUS
    <3>2. observed.pid \in Pids
      BY <3>1 DEF Inv, TypeOK, Records, Alive
    <3>3. seen[observed.pid] = "server"
      BY <1>5, <3>1, <3>2 DEF Stopped
    <3> QED BY <1>5, <3>2, <3>3 DEF Stopped
  <2>2. previous # None => \A p \in Pids : Gone(p)
    BY <1>5 DEF Stopped
  <2> QED BY <1>5, <2>1, <2>2, <1>a, <1>b, <1>c DEF Stopped
<1>6. CASE CheckBirth
  <2>1. ASSUME task = "verify" PROVE found # None /\ found.birth > cleared
    <3>1. Alive(found) /\ found \in Records
      BY <1>6 DEF CheckBirth, Inv, TypeOK, Alive
    <3>2. /\ procs[found.pid] # None /\ procs[found.pid].birth = found.birth
          /\ procs[found.pid].role \in {"daemon", "stopping"}
          /\ found.pid \in Pids
      BY <3>1 DEF Inv, ProcsInv, Known, Alive, Is, Records
    <3>3. Gone(found.pid)
      BY <2>1, <3>2
    <3> QED BY <3>1, <3>2, <3>3 DEF Gone, Alive
  <2> QED BY <1>6, <2>1, <1>a, <1>b, <1>c DEF CheckBirth
<1>7. CASE OwnsSocket
  BY <1>7, <1>a, <1>b, <1>c DEF OwnsSocket
<1>8. CASE DialRPC
  BY <1>8, <1>a, <1>b, <1>c DEF DialRPC
<1>9. CASE ReadConfig(TRUE)
  BY <1>9, <1>a, <1>b, <1>c DEF ReadConfig, Listens
<1>10. CASE ReadConfig(FALSE)
  BY <1>10, <1>a, <1>b, <1>c DEF ReadConfig
<1>11. CASE Skips
  BY <1>11, <1>a, <1>b, <1>c DEF Skips
<1>12. CASE TakesPage
  BY <1>12, <1>a, <1>b, <1>c DEF TakesPage
<1>13. CASE TakesThread
  BY <1>13, <1>a, <1>b, <1>c DEF TakesThread
<1>14. CASE NextPage
  BY <1>14, <1>a, <1>b, <1>c DEF NextPage, PageRead
<1>15. CASE Preview
  BY <1>15, <1>a, <1>b, <1>c DEF Preview, Running, PageRead
<1>16. CASE BeginStop
  BY <1>16, <1>a, <1>b, <1>c DEF BeginStop
<1>17. CASE Recheck
  BY <1>17, <1>a, <1>b, <1>c DEF Recheck, Running, PageRead
<1>18. CASE Guard
  BY <1>18, <1>a, <1>b, <1>c DEF Guard, Running, PageRead
<1>19. CASE Stop
  BY <1>19, <1>a, <1>b, <1>c DEF Stop
<1>20. CASE Install
  BY <1>20, <1>a, <1>b, <1>c DEF Install
<1>21. CASE Start
  BY <1>21, <1>a, <1>b, <1>c DEF Start
<1>22. CASE Started
  BY <1>22, <1>a, <1>b, <1>c DEF Started, Listens
<1>23. CASE Verify
  BY <1>23, <1>a, <1>b, <1>c DEF Verify, Running, PageRead
<1>24. CASE Reread
  BY <1>24, <1>a, <1>b, <1>c DEF Reread
<1>25. CASE Exited
  BY <1>25, <1>a, <1>b, <1>c DEF Exited
<1>26. CASE Fail
  BY <1>26, <1>a, <1>b, <1>c DEF Fail
<1>27. CASE AnswerList
  BY <1>27, <1>a, <1>b, <1>c DEF AnswerList
<1>28. CASE AnswerRead
  BY <1>28, <1>a, <1>b, <1>c DEF AnswerRead
<1>29. CASE Notify
  BY <1>29, <1>a, <1>b, <1>c DEF Notify
<1>30. ASSUME NEW pid \in Pids, NEW role \in {"daemon", "public", "other"},
             Spawn(pid, role)
      PROVE  ExitInv'
  BY <1>30, <1>a, <1>b, <1>c DEF Spawn, Spawned
<1>31. ASSUME NEW pid \in Pids, WriteRecord(pid) PROVE ExitInv'
  BY <1>31, <1>a, <1>b, <1>c DEF WriteRecord
<1>32. ASSUME NEW pid \in Pids, Bind(pid) PROVE ExitInv'
  BY <1>32, <1>a, <1>b, <1>c DEF Bind
<1>33. ASSUME NEW pid \in Pids, Retire(pid) PROVE ExitInv'
  BY <1>33, <1>a, <1>b, <1>c DEF Retire
<1>34. ASSUME NEW pid \in Pids, RemoveSocket(pid) PROVE ExitInv'
  BY <1>34, <1>a, <1>b, <1>c DEF RemoveSocket
<1>35. ASSUME NEW pid \in Pids, RemoveRecord(pid) PROVE ExitInv'
  BY <1>35, <1>a, <1>b, <1>c DEF RemoveRecord
<1>36. ASSUME NEW pid \in Pids, Exit(pid) PROVE ExitInv'
  BY <1>36, <1>a, <1>b, <1>c DEF Exit
<1>37. ASSUME NEW pid \in Pids, Die(pid) PROVE ExitInv'
  BY <1>37, <1>a, <1>b, <1>c DEF Die
<1>38. ASSUME NEW t \in Threads, TurnStarts(t) PROVE ExitInv'
  BY <1>38, <1>a, <1>b, <1>c DEF TurnStarts
<1>39. ASSUME NEW t \in Threads, TurnEnds(t) PROVE ExitInv'
  BY <1>39, <1>a, <1>b, <1>c DEF TurnEnds
<1>40. ASSUME NEW t \in Threads, Unload(t) PROVE ExitInv'
  BY <1>40, <1>a, <1>b, <1>c DEF Unload
<1>41. ASSUME NEW login \in Logins, Login(login) PROVE ExitInv'
  BY <1>41, <1>a, <1>b, <1>c DEF Login
<1> QED
  BY <1>1, <1>2, <1>3, <1>4, <1>5, <1>6, <1>7, <1>8, <1>9, <1>10,
     <1>11, <1>12, <1>13, <1>14, <1>15, <1>16, <1>17, <1>18, <1>19, <1>20,
     <1>21, <1>22, <1>23, <1>24, <1>25, <1>26, <1>27, <1>28, <1>29, <1>30,
     <1>31, <1>32, <1>33, <1>34, <1>35, <1>36, <1>37, <1>38, <1>39, <1>40,
     <1>41, Receives
  DEF Next, Inspect, Switch, Answers, Outside

\* The answer to thread/loaded/list leaves out no turn.
LEMMA ListedTurns ==
  ASSUME Inv, AnswerList
  PROVE  /\ wire' # None
         /\ wire'.ids \in SUBSET Threads /\ wire'.next \in 0..MaxThread
         /\ \A t \in turns :
              t \in busy \/ t \in wire'.ids \/ Beyond(t, wire'.next)
         /\ wire' \in Messages
<1>1. MaxThread \in Nat /\ Threads \subseteq Nat \ {0}
  BY InspectionAssumption DEF Threads
<1>2. Later \subseteq Threads /\ PageOf(Later) \subseteq Later
  BY Pages DEF Later, Loaded
<1>3. PICK after \in {IF PageOf(Later) = Later THEN 0 ELSE Last(PageOf(Later))}
                     \cup (IF cursor = 0 THEN {} ELSE {cursor}) :
        wire' = [mine |-> TRUE, ids |-> PageOf(Later), next |-> after,
                 active |-> FALSE]
  BY DEF AnswerList, Send
<1>4. wire'.ids = PageOf(Later) /\ wire'.next = after
  BY <1>3
<1>5. ASSUME PageOf(Later) # Later
      PROVE  /\ Last(PageOf(Later)) \in Threads
             /\ \A t \in Later : t \in PageOf(Later) \/ t > Last(PageOf(Later))
  <2>1. PageOf(Later) # {}
    BY <1>2, <1>5, Pages
  <2>2. Last(PageOf(Later)) \in PageOf(Later)
    BY <1>2, <2>1, Ends
  <2> QED BY <1>2, <2>1, <2>2, Pages
<1>6. after \in 0..MaxThread
  <2>1. cursor \in 0..MaxThread
    BY DEF Inv, TypeOK
  <2>2. Threads \subseteq 0..MaxThread /\ 0 \in 0..MaxThread
    BY <1>1 DEF Threads
  <2> QED BY <1>3, <1>5, <2>1, <2>2
<1>7. ASSUME NEW t \in turns, t \notin busy
      PROVE  t \in PageOf(Later) \/ Beyond(t, after)
  <2>1. t \in Later
    <3>1. t \in Threads /\ threads[t] = "active"
      BY DEF Inv, TypeOK, TurnsInv
    <3>2. t > cursor
      BY <1>7 DEF AnswerList, Inv, TurnsInv
    <3> QED BY <3>1, <3>2 DEF Later, Loaded
  <2>2. CASE after = cursor /\ cursor # 0
    BY <2>2 DEF Beyond, Inv, TurnsInv
  <2>3. CASE PageOf(Later) = Later
    BY <2>1, <2>3
  <2>4. CASE PageOf(Later) # Later /\ after = Last(PageOf(Later))
    <3>1. after # 0
      BY <1>1, <1>5, <2>4
    <3> QED BY <1>5, <2>1, <2>4, <3>1 DEF Beyond
  <2> QED BY <1>3, <2>2, <2>3, <2>4
<1>8. wire' \in Messages
  BY <1>2, <1>3, <1>6 DEF Messages
<1>9. wire' # None
  BY <1>8, InspectionAssumption
<1> QED BY <1>2, <1>4, <1>6, <1>7, <1>8, <1>9

\* The answer to thread/read tells of a turn that is active.
LEMMA ReadTurns ==
  ASSUME Inv, AnswerRead
  PROVE  /\ wire' # None /\ wire' \in Messages
         /\ wire'.active \/ FirstOf(page) \notin turns
<1>1. wire' = [mine |-> TRUE, ids |-> {}, next |-> 0,
               active |-> threads[FirstOf(page)] = "active"]
  BY DEF AnswerRead, Send
<1>2. (threads[FirstOf(page)] = "active") \in BOOLEAN
  OBVIOUS
<1>3. wire' \in Messages
  BY <1>1, <1>2, InspectionAssumption DEF Messages
<1>4. wire'.active <=> threads[FirstOf(page)] = "active"
  BY <1>1
<1>5. FirstOf(page) \in turns => threads[FirstOf(page)] = "active"
  BY DEF Inv, TurnsInv
<1> QED BY <1>3, <1>4, <1>5, InspectionAssumption

\* A turn that ends is no longer counted as active ever since.
LEMMA TurnsAreActive ==
  ASSUME Inv, Next
  PROVE  \A u \in turns' : threads'[u] = "active"
<1>0. TurnsInv /\ turns \subseteq Threads
  BY DEF Inv, TypeOK
<1> USE <1>0 DEF TurnsInv, Turning, vars, world, inventory, evidence, plan,
      history, Outer, Goto, Proceed, Begin, Closed, Event, Send
<1>1. CASE ReadIdentity
  BY <1>1 DEF ReadIdentity
<1>2. CASE ListProcesses
  BY <1>2 DEF ListProcesses
<1>3. CASE LstatSocket
  BY <1>3 DEF LstatSocket
<1>4. CASE ReadRecord
  BY <1>4 DEF ReadRecord
<1>5. CASE Stopped
  BY <1>5 DEF Stopped
<1>6. CASE CheckBirth
  BY <1>6 DEF CheckBirth
<1>7. CASE OwnsSocket
  BY <1>7 DEF OwnsSocket
<1>8. CASE DialRPC
  BY <1>8 DEF DialRPC
<1>9. CASE ReadConfig(TRUE)
  BY <1>9 DEF ReadConfig
<1>10. CASE ReadConfig(FALSE)
  BY <1>10 DEF ReadConfig
<1>11. CASE Skips
  BY <1>11 DEF Skips
<1>12. CASE TakesPage
  BY <1>12 DEF TakesPage
<1>13. CASE TakesThread
  BY <1>13 DEF TakesThread
<1>14. CASE NextPage
  BY <1>14 DEF NextPage
<1>15. CASE Preview
  BY <1>15 DEF Preview
<1>16. CASE BeginStop
  BY <1>16 DEF BeginStop
<1>17. CASE Recheck
  BY <1>17 DEF Recheck
<1>18. CASE Guard
  BY <1>18 DEF Guard
<1>19. CASE Stop
  BY <1>19 DEF Stop
<1>20. CASE Install
  BY <1>20 DEF Install
<1>21. CASE Start
  BY <1>21 DEF Start
<1>22. CASE Started
  BY <1>22 DEF Started
<1>23. CASE Verify
  BY <1>23 DEF Verify
<1>24. CASE Reread
  BY <1>24 DEF Reread
<1>25. CASE Exited
  BY <1>25 DEF Exited
<1>26. CASE Fail
  BY <1>26 DEF Fail
<1>27. CASE AnswerList
  BY <1>27 DEF AnswerList
<1>28. CASE AnswerRead
  BY <1>28 DEF AnswerRead
<1>29. CASE Notify
  BY <1>29 DEF Notify
<1>30. ASSUME NEW pid \in Pids, NEW role \in {"daemon", "public", "other"},
             Spawn(pid, role)
      PROVE  \A u \in turns' : threads'[u] = "active"
  BY <1>30 DEF Spawn, Spawned
<1>31. ASSUME NEW pid \in Pids, WriteRecord(pid)
      PROVE  \A u \in turns' : threads'[u] = "active"
  BY <1>31 DEF WriteRecord
<1>32. ASSUME NEW pid \in Pids, Bind(pid)
      PROVE  \A u \in turns' : threads'[u] = "active"
  BY <1>32 DEF Bind
<1>33. ASSUME NEW pid \in Pids, Retire(pid)
      PROVE  \A u \in turns' : threads'[u] = "active"
  BY <1>33 DEF Retire, Stopping
<1>34. ASSUME NEW pid \in Pids, RemoveSocket(pid)
      PROVE  \A u \in turns' : threads'[u] = "active"
  BY <1>34 DEF RemoveSocket
<1>35. ASSUME NEW pid \in Pids, RemoveRecord(pid)
      PROVE  \A u \in turns' : threads'[u] = "active"
  BY <1>35 DEF RemoveRecord
<1>36. ASSUME NEW pid \in Pids, Exit(pid)
      PROVE  \A u \in turns' : threads'[u] = "active"
  BY <1>36 DEF Exit
<1>37. ASSUME NEW pid \in Pids, Die(pid)
      PROVE  \A u \in turns' : threads'[u] = "active"
  BY <1>37 DEF Die
<1>38. ASSUME NEW t \in Threads, TurnStarts(t)
      PROVE  \A u \in turns' : threads'[u] = "active"
  BY <1>38 DEF TurnStarts
<1>39. ASSUME NEW t \in Threads, TurnEnds(t)
      PROVE  \A u \in turns' : threads'[u] = "active"
  BY <1>39 DEF TurnEnds
<1>40. ASSUME NEW t \in Threads, Unload(t)
      PROVE  \A u \in turns' : threads'[u] = "active"
  BY <1>40 DEF Unload
<1>41. ASSUME NEW login \in Logins, Login(login)
      PROVE  \A u \in turns' : threads'[u] = "active"
  BY <1>41 DEF Login
<1> QED
  BY <1>1, <1>2, <1>3, <1>4, <1>5, <1>6, <1>7, <1>8, <1>9, <1>10,
     <1>11, <1>12, <1>13, <1>14, <1>15, <1>16, <1>17, <1>18, <1>19, <1>20,
     <1>21, <1>22, <1>23, <1>24, <1>25, <1>26, <1>27, <1>28, <1>29, <1>30,
     <1>31, <1>32, <1>33, <1>34, <1>35, <1>36, <1>37, <1>38, <1>39, <1>40,
     <1>41, Receives
  DEF Next, Inspect, Switch, Answers, Outside

\* The answer keeps the turns in sight.
LEMMA ListAnswered ==
  ASSUME Inv, AnswerList
  PROVE  TurnsInv'
<1>1. step = "list" /\ TurnsInv
  BY DEF AnswerList, Inv
<1>2. UNCHANGED <<threads, task, step, cursor, cursors, page, next, busy,
                  turns>>
  BY DEF AnswerList, Send, world
<1>3. /\ wire' # None
      /\ \A t \in turns : t \in busy \/ t \in wire'.ids \/ Beyond(t, wire'.next)
  BY ListedTurns
<1> QED BY <1>1, <1>2, <1>3 DEF TurnsInv, Beyond

\* Every step keeps the turns in sight.
LEMMA TurnsKept ==
  ASSUME Inv, Next
  PROVE  TurnsInv'
<1>0. TurnsInv
  BY DEF Inv
<1>a. turns \subseteq Threads /\ \A t \in Threads : t > 0
  BY InspectionAssumption DEF Inv, TypeOK, Threads
<1>b. \A t \in turns' : threads'[t] = "active"
  BY TurnsAreActive
<1> USE <1>0 DEF TurnsInv, Beyond, Turning, vars, world, inventory, evidence,
      plan, history, Outer, Goto, Proceed, Begin, Closed, Event, Send
<1>1. CASE ReadIdentity
  BY <1>1, <1>a, <1>b DEF ReadIdentity
<1>2. CASE ListProcesses
  BY <1>2, <1>a, <1>b DEF ListProcesses
<1>3. CASE LstatSocket
  BY <1>3, <1>a, <1>b DEF LstatSocket
<1>4. CASE ReadRecord
  BY <1>4, <1>a, <1>b DEF ReadRecord
<1>5. CASE Stopped
  BY <1>5, <1>a, <1>b DEF Stopped
<1>6. CASE CheckBirth
  BY <1>6, <1>a, <1>b DEF CheckBirth
<1>7. CASE OwnsSocket
  BY <1>7, <1>a, <1>b DEF OwnsSocket
<1>8. CASE DialRPC
  BY <1>8, <1>a, <1>b DEF DialRPC
<1>9. CASE ReadConfig(TRUE)
  BY <1>9, <1>a, <1>b DEF ReadConfig
<1>10. CASE ReadConfig(FALSE)
  BY <1>10, <1>a, <1>b DEF ReadConfig
<1>11. CASE Skips
  BY <1>11, <1>a, <1>b DEF Skips
<1>12. CASE TakesPage
  BY <1>12, <1>a, <1>b DEF TakesPage
<1>13. CASE TakesThread
  BY <1>13, <1>a, <1>b DEF TakesThread
<1>14. CASE NextPage
  BY <1>14, <1>a, <1>b DEF NextPage, PageRead
<1>15. CASE Preview
  BY <1>15, <1>a, <1>b DEF Preview, Running, PageRead
<1>16. CASE BeginStop
  BY <1>16, <1>a, <1>b DEF BeginStop
<1>17. CASE Recheck
  BY <1>17, <1>a, <1>b DEF Recheck, Running, PageRead
<1>18. CASE Guard
  BY <1>18, <1>a, <1>b DEF Guard, Running, PageRead
<1>19. CASE Stop
  BY <1>19, <1>a, <1>b DEF Stop
<1>20. CASE Install
  BY <1>20, <1>a, <1>b DEF Install
<1>21. CASE Start
  BY <1>21, <1>a, <1>b DEF Start
<1>22. CASE Started
  BY <1>22, <1>a, <1>b DEF Started
<1>23. CASE Verify
  BY <1>23, <1>a, <1>b DEF Verify, Running, PageRead
<1>24. CASE Reread
  BY <1>24, <1>a, <1>b DEF Reread
<1>25. CASE Exited
  BY <1>25, <1>a, <1>b DEF Exited
<1>26. CASE Fail
  BY <1>26, <1>a, <1>b DEF Fail
<1>27. CASE AnswerList
  BY <1>27, ListAnswered
<1>28. CASE AnswerRead
  BY <1>28, <1>a, <1>b, ReadTurns DEF AnswerRead, Serving
<1>29. CASE Notify
  BY <1>29, <1>a, <1>b, InspectionAssumption DEF Notify, Serving
<1>30. ASSUME NEW pid \in Pids, NEW role \in {"daemon", "public", "other"},
             Spawn(pid, role)
      PROVE  TurnsInv'
  BY <1>30, <1>a, <1>b DEF Spawn, Spawned
<1>31. ASSUME NEW pid \in Pids, WriteRecord(pid) PROVE TurnsInv'
  BY <1>31, <1>a, <1>b DEF WriteRecord
<1>32. ASSUME NEW pid \in Pids, Bind(pid) PROVE TurnsInv'
  BY <1>32, <1>a, <1>b DEF Bind
<1>33. ASSUME NEW pid \in Pids, Retire(pid) PROVE TurnsInv'
  BY <1>33, <1>a, <1>b DEF Retire
<1>34. ASSUME NEW pid \in Pids, RemoveSocket(pid) PROVE TurnsInv'
  BY <1>34, <1>a, <1>b DEF RemoveSocket
<1>35. ASSUME NEW pid \in Pids, RemoveRecord(pid) PROVE TurnsInv'
  BY <1>35, <1>a, <1>b DEF RemoveRecord
<1>36. ASSUME NEW pid \in Pids, Exit(pid) PROVE TurnsInv'
  BY <1>36, <1>a, <1>b DEF Exit
<1>37. ASSUME NEW pid \in Pids, Die(pid) PROVE TurnsInv'
  BY <1>37, <1>a, <1>b DEF Die
<1>38. ASSUME NEW t \in Threads, TurnStarts(t) PROVE TurnsInv'
  BY <1>38, <1>a, <1>b DEF TurnStarts
<1>39. ASSUME NEW t \in Threads, TurnEnds(t) PROVE TurnsInv'
  BY <1>39, <1>a, <1>b DEF TurnEnds
<1>40. ASSUME NEW t \in Threads, Unload(t) PROVE TurnsInv'
  BY <1>40, <1>a, <1>b DEF Unload
<1>41. ASSUME NEW login \in Logins, Login(login) PROVE TurnsInv'
  BY <1>41, <1>a, <1>b DEF Login
<1> QED
  BY <1>1, <1>2, <1>3, <1>4, <1>5, <1>6, <1>7, <1>8, <1>9, <1>10,
     <1>11, <1>12, <1>13, <1>14, <1>15, <1>16, <1>17, <1>18, <1>19, <1>20,
     <1>21, <1>22, <1>23, <1>24, <1>25, <1>26, <1>27, <1>28, <1>29, <1>30,
     <1>31, <1>32, <1>33, <1>34, <1>35, <1>36, <1>37, <1>38, <1>39, <1>40,
     <1>41, Receives
  DEF Next, Inspect, Switch, Answers, Outside

\* The types of what an inspection keeps until it ends.
ScratchTypes ==
  /\ seen \in [Pids -> {"none", "server", "other"}]
  /\ present \in BOOLEAN
  /\ found \in Records \cup {None}
  /\ conn \in Records \cup {None}
  /\ proven \in BOOLEAN
  /\ snapshot \in Logins \cup {None}
  /\ cursor \in 0..MaxThread /\ next \in 0..MaxThread
  /\ cursors \subseteq Threads /\ page \subseteq Threads
  /\ busy \subseteq Threads
  /\ wire \in Messages \cup {None}

\* An inspection that begins or ends leaves them well typed.
LEMMA ClosedTypes ==
  ASSUME NEW r \in Records \cup {None}, NEW login \in Logins \cup {None},
         Closed(r, login)
  PROVE  ScratchTypes'
<1>1. 0 \in 0..MaxThread
  BY InspectionAssumption
<1>2. /\ seen' = [p \in Pids |-> "none"] /\ present' = FALSE
      /\ conn' = None /\ proven' = FALSE /\ wire' = None
      /\ cursor' = 0 /\ next' = 0 /\ cursors' = {} /\ page' = {} /\ busy' = {}
      /\ found' = r /\ snapshot' = login
  BY DEF Closed
<1>3. present' \in BOOLEAN /\ proven' \in BOOLEAN
  BY <1>2, Zenon
<1> QED BY <1>1, <1>2, <1>3 DEF ScratchTypes

\* Every step keeps the types.
LEMMA TypesKept ==
  ASSUME Inv, Next
  PROVE  TypeOK'
<1>0. TypeOK
  BY DEF Inv
<1>a. MaxThread \in Nat /\ MaxBirths \in Nat \ {0} /\ MaxEvents \in Nat
      /\ Target \in Logins
  BY InspectionAssumption
<1>b. \A r \in Records \cup {None}, login \in Logins \cup {None} :
        Closed(r, login) => ScratchTypes'
  BY ClosedTypes
<1> USE <1>0, <1>a DEF TypeOK, ScratchTypes, Commands, Inspections, Turning,
      vars, world, inventory, evidence, plan, history, Outer, Goto, Proceed,
      Begin, Event, Send
<1>1. CASE ReadIdentity
  BY <1>1 DEF ReadIdentity
<1>2. CASE ListProcesses
  BY <1>2 DEF ListProcesses
<1>3. CASE LstatSocket
  BY <1>3 DEF LstatSocket
<1>4. CASE ReadRecord
  BY <1>4 DEF ReadRecord
<1>5. CASE Stopped
  BY <1>5, <1>b DEF Stopped
<1>6. CASE CheckBirth
  BY <1>6 DEF CheckBirth
<1>7. CASE OwnsSocket
  BY <1>7 DEF OwnsSocket
<1>8. CASE DialRPC
  BY <1>8 DEF DialRPC
<1>9. CASE ReadConfig(TRUE)
  BY <1>9 DEF ReadConfig
<1>10. CASE ReadConfig(FALSE)
  <2>1. proven' \in BOOLEAN
    BY <1>10, Zenon DEF ReadConfig
  <2> QED BY <1>10, <2>1 DEF ReadConfig
<1>11. CASE Skips
  BY <1>11 DEF Skips
<1>12. CASE TakesPage
  BY <1>12 DEF TakesPage, Messages
<1>13. CASE TakesThread
  <2>1. FirstOf(page) \in page
    BY <1>13, Ends DEF TakesThread
  <2> QED BY <1>13, <2>1 DEF TakesThread
<1>14. CASE NextPage
  BY <1>14 DEF NextPage, PageRead, Threads
<1>15. CASE Preview
  BY <1>15, <1>b DEF Preview
<1>16. CASE BeginStop
  BY <1>16, <1>b DEF BeginStop
<1>17. CASE Recheck
  BY <1>17, <1>b DEF Recheck
<1>18. CASE Guard
  BY <1>18, <1>b DEF Guard
<1>19. CASE Stop
  <2>1. CASE Alive(record) /\ Is(record.pid, {"daemon"})
    <3>1. record.pid \in Pids
      BY <2>1 DEF Alive, Records
    <3>2. /\ procs' \in [Pids -> Processes \cup {None}]
          /\ threads' \in [Threads -> {"unloaded", "idle", "active"}]
      BY <1>19, <2>1, <3>1, Stops, ThreadTypes DEF Stop, Stopping
    <3> QED BY <1>19, <1>b, <2>1, <3>2 DEF Stop
  <2>2. CASE ~(Alive(record) /\ Is(record.pid, {"daemon"}))
    BY <1>19, <1>b, <2>2 DEF Stop
  <2> QED BY <2>1, <2>2
<1>20. CASE Install
  BY <1>20 DEF Install
<1>21. CASE Start
  BY <1>21, Births DEF Start, Roles
<1>22. CASE Started
  BY <1>22, <1>b DEF Started
<1>23. CASE Verify
  BY <1>23, <1>b DEF Verify
<1>24. CASE Reread
  BY <1>24, <1>b DEF Reread
<1>25. CASE Exited
  BY <1>25, <1>b DEF Exited
<1>26. CASE Fail
  BY <1>26, <1>b DEF Fail
<1>27. CASE AnswerList
  <2>1. wire' \in Messages
    BY <1>27, ListedTurns
  <2> QED BY <1>27, <2>1 DEF AnswerList
<1>28. CASE AnswerRead
  BY <1>28, ReadTurns DEF AnswerRead
<1>29. CASE Notify
  <2>1. wire' \in Messages
    BY <1>29 DEF Notify, Messages
  <2> QED BY <1>29, <2>1 DEF Notify
<1>30. ASSUME NEW pid \in Pids, NEW role \in {"daemon", "public", "other"},
             Spawn(pid, role)
      PROVE  TypeOK'
  BY <1>30, Births DEF Spawn, Roles
<1>31. ASSUME NEW pid \in Pids, WriteRecord(pid) PROVE TypeOK'
  BY <1>31, Selves DEF WriteRecord, Is
<1>32. ASSUME NEW pid \in Pids, Bind(pid) PROVE TypeOK'
  BY <1>32, Selves DEF Bind, Is
<1>33. ASSUME NEW pid \in Pids, Retire(pid) PROVE TypeOK'
  <2>1. /\ procs' \in [Pids -> Processes \cup {None}]
        /\ threads' \in [Threads -> {"unloaded", "idle", "active"}]
    BY <1>33, Stops, ThreadTypes DEF Retire, Stopping
  <2>2. turns' \subseteq Threads /\ events' \in 0..MaxEvents
    BY <1>33 DEF Retire
  <2>3. UNCHANGED <<clock, record, socket, Outer, inventory>>
    BY <1>33 DEF Retire
  <2> QED BY <2>1, <2>2, <2>3
<1>34. ASSUME NEW pid \in Pids, RemoveSocket(pid) PROVE TypeOK'
  BY <1>34 DEF RemoveSocket
<1>35. ASSUME NEW pid \in Pids, RemoveRecord(pid) PROVE TypeOK'
  BY <1>35 DEF RemoveRecord
<1>36. ASSUME NEW pid \in Pids, Exit(pid) PROVE TypeOK'
  BY <1>36, Goes DEF Exit
<1>37. ASSUME NEW pid \in Pids, Die(pid) PROVE TypeOK'
  BY <1>37, Goes, ThreadTypes DEF Die
<1>38. ASSUME NEW t \in Threads, TurnStarts(t) PROVE TypeOK'
  BY <1>38 DEF TurnStarts
<1>39. ASSUME NEW t \in Threads, TurnEnds(t) PROVE TypeOK'
  BY <1>39 DEF TurnEnds
<1>40. ASSUME NEW t \in Threads, Unload(t) PROVE TypeOK'
  BY <1>40 DEF Unload
<1>41. ASSUME NEW login \in Logins, Login(login) PROVE TypeOK'
  BY <1>41 DEF Login
<1> QED
  BY <1>1, <1>2, <1>3, <1>4, <1>5, <1>6, <1>7, <1>8, <1>9, <1>10,
     <1>11, <1>12, <1>13, <1>14, <1>15, <1>16, <1>17, <1>18, <1>19, <1>20,
     <1>21, <1>22, <1>23, <1>24, <1>25, <1>26, <1>27, <1>28, <1>29, <1>30,
     <1>31, <1>32, <1>33, <1>34, <1>35, <1>36, <1>37, <1>38, <1>39, <1>40,
     <1>41, Receives
  DEF Next, Inspect, Switch, Answers, Outside

\* The invariant holds at the beginning.
LEMMA InitInv ==
  ASSUME Init
  PROVE  Inv
<1>0. MaxThread \in Nat /\ MaxBirths \in Nat \ {0} /\ MaxEvents \in Nat
  BY InspectionAssumption
<1>1. PICK a \in Pids, login \in Logins :
        /\ auth = login
        /\ procs = [p \in Pids |->
             IF p = a THEN [birth |-> 1, role |-> "daemon", login |-> login]
                      ELSE None]
        /\ clock = 1
        /\ record = [pid |-> a, birth |-> 1]
        /\ socket = [pid |-> a, birth |-> 1]
  BY DEF Init
<1>2. [birth |-> 1, role |-> "daemon", login |-> login] \in Processes
  BY <1>0 DEF Processes, Roles
<1>3. procs \in [Pids -> Processes \cup {None}]
  BY <1>1, <1>2
<1>4. record \in Records /\ socket \in Records /\ clock \in 0..MaxBirths
  BY <1>0, <1>1 DEF Records
<1>5. present \in BOOLEAN /\ proven \in BOOLEAN /\ moved \in BOOLEAN
  BY Zenon DEF Init
<1>6. TypeOK
  BY <1>0, <1>1, <1>3, <1>4, <1>5
  DEF Init, TypeOK, Inspections, Commands, Unloaded
<1>7. ProcsInv
  <2>1. \A p \in Pids : procs[p] # None => p = a
    BY <1>1
  <2>2. procs[a].birth = 1 /\ procs[a].role = "daemon"
    BY <1>1
  <2>3. record.pid = a /\ record.birth = 1 /\ clock = 1 /\ cleared = 0
        /\ found = None /\ observed = None /\ previous = None
    BY <1>1 DEF Init
  <2>4. Known(record)
    BY <2>2, <2>3 DEF Known, Is, Alive
  <2>5. Known(found) /\ Known(observed) /\ Known(previous) /\ cleared <= clock
    BY <2>3 DEF Known
  <2>6. \A p \in Pids : procs[p] # None => procs[p].birth <= clock
    BY <2>1, <2>2, <2>3
  <2> QED BY <2>4, <2>5, <2>6 DEF ProcsInv
<1>8. ExitInv
  BY DEF Init, ExitInv, Commands, Ended, Probed, Listed
<1>9. TurnsInv
  BY DEF Init, TurnsInv
<1> QED BY <1>6, <1>7, <1>8, <1>9 DEF Inv

\* A step that changes nothing keeps it, and so does every step.
LEMMA NextKeepsInv ==
  ASSUME Inv, [Next]_vars
  PROVE  Inv'
<1>1. CASE Next
  BY <1>1, TypesKept, ProcsKept, ExitKept, TurnsKept DEF Inv
<1>2. CASE UNCHANGED vars
  <2> USE <1>2 DEF Inv, vars, world, evidence, inventory, plan, history
  <2>1. TypeOK'
    BY DEF TypeOK
  <2>2. ProcsInv'
    BY DEF ProcsInv, Known, Alive, Is
  <2>3. ExitInv'
    BY DEF ExitInv, Listed, Probed, Ended, Alive, Gone
  <2>4. TurnsInv'
    BY DEF TurnsInv, Beyond
  <2> QED BY <2>1, <2>2, <2>3, <2>4
<1> QED BY <1>1, <1>2

\* The inductive invariant holds in every state of an inspection.
THEOREM RuntimeInvariant == Spec => []Inv
BY InitInv, NextKeepsInv, PTL DEF Spec

\* Whatever the daemon and its neighbours do, the inspection stays in its types.
THEOREM RuntimeTypes == Spec => []TypeOK
<1>1. Inv => TypeOK
  BY DEF Inv
<1> QED BY <1>1, RuntimeInvariant, PTL

\* The stop command of NativeRuntime.Stop cuts off no turn that was active when
\* its last inspection began, for any number of threads and any size of page.
THEOREM TurnsAreSpared == Spec => SparesTurns
<1>1. Inv /\ [Next]_vars =>
        [task = "stop" /\ task' = "confirm" => turns = {}]_vars
  BY DEF Inv, TurnsInv
<1> QED BY <1>1, RuntimeInvariant, PTL DEF Spec, SparesTurns

\* The process that the plan was made for has exited when the target is
\* installed: the confirming inspection does not take its silence for an exit.
THEOREM InstalledAfterExit == Spec => InstallsAfterExit
<1>1. Inv /\ [Next]_vars =>
        [auth' # auth /\ task = "install" => ~Alive(observed)]_vars
  BY DEF Inv, ExitInv
<1> QED BY <1>1, RuntimeInvariant, PTL DEF Spec, InstallsAfterExit

\* The daemon that VerifyFreshSelection accepts was born after the old one had
\* gone, the old one is gone still, and auth.json names the target as it did when
\* it was reread, unless another login came since.
THEOREM FreshIsBornLater == Spec => FreshIsFresh
<1>1. ASSUME Inv, [Next]_vars, task' = "done"
      PROVE  \/ UNCHANGED vars
             \/ /\ found.birth > cleared /\ found # previous
                /\ ~Alive(previous)
                /\ auth = Target \/ moved
  <2>1. CASE UNCHANGED vars
    BY <2>1
  <2>2. CASE Next
    <3>1. task = "done" \/ (task = "exited" /\ ~Alive(previous))
      BY <1>1, <2>2, StepMoves DEF Roots
    <3> QED BY <1>1, <3>1 DEF Inv, ExitInv, Ended
  <2> QED BY <1>1, <2>1, <2>2
<1> QED BY <1>1, RuntimeInvariant, PTL DEF Spec, FreshIsFresh
=============================================================================
