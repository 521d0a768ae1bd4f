------------------------- MODULE QuotaServiceProofs ------------------------
(***************************************************************************)
(* Proofs about QuotaService, for any accounts and bounds: the types, that *)
(* a rotated generation is kept, that a Refresh spends one token at most,  *)
(* that the selected account's tokens are left to Codex, and that what a   *)
(* cancellation made fail is not held against an account.                  *)
(***************************************************************************)
EXTENDS QuotaService, TLAPS

USE DEF Goto, End, command, attempt, ending, disk, world, vars

\* Nobody holds a generation the server has not issued, and while Verso holds
\* a new one that is not stored yet it is the only one who does: neither the
\* store nor the Codex home could make the server issue another.
Generations ==
  /\ \A a \in Accounts : saved[a].gen <= latest[a] /\ latest[a] > 0
  /\ native.id \in Accounts => native.gen <= latest[native.id]
  /\ pc = "store" => /\ doc.gen = latest[account]
                     /\ saved[account].gen < latest[account]
                     /\ native.id = account => native.gen < latest[account]

\* What a Refresh has spent at each step: nothing before the exchange.
OneExchange ==
  /\ exchanges <= 1
  /\ pc \in {"select", "active_usage", "active_reread", "credentials",
             "guard", "exchange"} => exchanges = 0
  /\ pc \in {"select", "active_usage", "active_reread",
             "credentials"} => ~refreshed
  /\ pc = "usage" /\ ~refreshed => exchanges = 0

\* The selection is proven, and another account's, where tokens are spent.
OtherIsSelected ==
  /\ pc \in {"credentials", "usage", "guard", "exchange", "store"} =>
       active # Unknown /\ active # account
  /\ pc = "exchange" => native.id = active \/ moved

\* What an attempt that is over leaves behind.
LEMMA ConcludedTypes ==
  \A outcome : Concluded(outcome) =>
    pc' = "record" /\ result' = outcome /\ killed' \in BOOLEAN
BY DEF Concluded

\* A failed request is a failure or a timeout.
LEMMA FailureTypes ==
  RequestFails =>
    pc' = "record" /\ result' \in {"failed", "timeout"} /\ killed' \in BOOLEAN
BY ConcludedTypes DEF RequestFails

\* Every step keeps the types.
LEMMA TypeStep ==
  ASSUME TypeOK, [Next]_vars
  PROVE  TypeOK'
<1>1. CASE UNCHANGED vars
  BY <1>1 DEF TypeOK
<1>2. CASE Begin
  <2>1. /\ active' \in Identities \cup {Unknown}
        /\ preparing' \in {"no", "first", "again"}
        /\ todo' \subseteq Accounts
    BY <1>2 DEF TypeOK, Begin, BeginList, BeginPrepare, Homes, Identities
  <2>2. force' \in BOOLEAN
    BY <1>2 DEF TypeOK, Begin, BeginList, BeginPrepare
  <2>3. pc' \in Steps /\ result' \in AttemptResults /\ why' = "none"
    BY <1>2 DEF Begin, Steps, AttemptResults
  <2>4. killed' \in BOOLEAN /\ cancelled' \in BOOLEAN /\ moved' \in BOOLEAN
    BY <1>2 DEF Begin
  <2>5. runs' \in Nat
    BY <1>2 DEF TypeOK, Begin
  <2>6. UNCHANGED <<attempt, disk, native, latest, budget, lost>>
    BY <1>2 DEF Begin
  <2>7. QED
    BY <2>1, <2>2, <2>3, <2>4, <2>5, <2>6 DEF TypeOK
<1>3. CASE NextAccount
  BY <1>3 DEF NextAccount, TypeOK, Access, Documents, Steps, AttemptResults,
         Empty
<1>4. CASE JudgeTarget
  BY <1>4 DEF JudgeTarget, TypeOK, Steps
<1>5. CASE Select
  <2>1. /\ pc' \in Steps \cup {"done"} /\ result' \in AttemptResults
        /\ why' \in {why, "changed", "storage"}
    BY <1>5 DEF TypeOK, Select, Steps, AttemptResults
  <2>2. moved' \in BOOLEAN
    BY <1>5 DEF TypeOK, Select
  <2>3. QED
    BY <1>5, <2>1, <2>2 DEF TypeOK, Select
<1>6. CASE ActiveUsage
  BY <1>6, ConcludedTypes, FailureTypes DEF TypeOK, ActiveUsage, Steps,
         AttemptResults
<1>7. CASE ActiveReread
  BY <1>7, ConcludedTypes DEF TypeOK, ActiveReread, Steps, AttemptResults
<1>8. CASE ReadCredentials
  BY <1>8 DEF ReadCredentials, Concluded, TypeOK, Steps, AttemptResults
<1>9. CASE Usage
  BY <1>9 DEF Usage, RequestFails, Concluded, TypeOK, Steps, AttemptResults
<1>10. CASE Guard
  <2>1. killed' \in BOOLEAN /\ moved' \in BOOLEAN
    BY <1>10, ConcludedTypes DEF TypeOK, Guard
  <2>2. pc' \in Steps /\ result' \in AttemptResults
    BY <1>10, ConcludedTypes DEF TypeOK, Guard, Steps, AttemptResults
  <2>3. QED
    BY <1>10, <2>1, <2>2 DEF TypeOK, Guard
<1>11. CASE Exchange
  BY <1>11, ConcludedTypes, FailureTypes DEF TypeOK, Exchange, Issue, Steps,
         AttemptResults, Documents, Access
<1>12. CASE StoreCredentials
  <2>1. killed' \in BOOLEAN /\ refreshed' \in BOOLEAN
    BY <1>12, ConcludedTypes DEF TypeOK, StoreCredentials
  <2>2. pc' \in Steps /\ result' \in AttemptResults
    BY <1>12, ConcludedTypes
       DEF TypeOK, StoreCredentials, Steps, AttemptResults
  <2>3. saved' \in [Accounts -> Documents] /\ lost' \subseteq Accounts
    BY <1>12 DEF TypeOK, StoreCredentials
  <2>4. QED
    BY <1>12, <2>1, <2>2, <2>3 DEF TypeOK, StoreCredentials
<1>13. CASE SignIn
  BY <1>13, SelectionsDiffer DEF SignIn, Issue, TypeOK, Access,
         Documents, Steps
<1>14. CASE Record
  BY <1>14 DEF Record, TypeOK, Steps
<1>15. CASE WriteCache
  <2>1. Entry \in Entries
    <3>1. cache[account] \in Entries
      BY DEF TypeOK
    <3>2. cache[account].quota \in BOOLEAN
      BY <3>1 DEF Entries
    <3>3. QED
      BY <3>2 DEF Entries, Entry
  <2>2. QED
    BY <1>15, <2>1 DEF TypeOK, WriteCache, Cached, Steps
<1>16. CASE Interrupt
  BY <1>16 DEF Interrupt, Spend, TypeOK
<1>17. CASE Crash
  BY <1>17 DEF Crash, Spend, TypeOK
<1>18. ASSUME NEW id \in Identities, Login(id) PROVE TypeOK'
  BY <1>18 DEF Login, ReplaceHome, Overwritten, Spend, TypeOK, Homes
<1>19. ASSUME NEW a \in Accounts, Restore(a) PROVE TypeOK'
  BY <1>19 DEF Restore, ReplaceHome, Overwritten, Spend, TypeOK, Documents,
         Homes, Identities
<1>20. CASE CodexRotates
  BY <1>20 DEF CodexRotates, Issue, Spend, TypeOK, Homes
<1>21. ASSUME NEW a \in Accounts, TokenDies(a) PROVE TypeOK'
  BY <1>21 DEF TokenDies, Spend, TypeOK, Access, Documents
<1>22. CASE MinutePasses
  BY <1>22 DEF MinutePasses, Spend, TypeOK
<1>23. CASE Answer
  BY <1>23 DEF Answer, TypeOK, Steps
<1>24. QED
  BY <1>1, <1>2, <1>3, <1>4, <1>5, <1>6, <1>7, <1>8, <1>9, <1>10, <1>11, <1>12,
     <1>13, <1>14, <1>15, <1>16, <1>17, <1>18, <1>19, <1>20, <1>21, <1>22, <1>23
     DEF Next, Call, Outside

\* Every step keeps the generations in order.
LEMMA GenerationsStep ==
  ASSUME TypeOK, Generations, [Next]_vars
  PROVE  Generations'
<1>1. CASE UNCHANGED vars
  BY <1>1 DEF TypeOK, Generations
<1>2. CASE Begin
  BY <1>2 DEF Begin, BeginList, BeginPrepare, TypeOK, Generations
<1>3. CASE NextAccount
  BY <1>3 DEF NextAccount, TypeOK, Generations
<1>4. CASE JudgeTarget
  BY <1>4 DEF JudgeTarget, TypeOK, Generations
<1>5. CASE Select
  BY <1>5 DEF Select, TypeOK, Generations
<1>6. CASE ActiveUsage
  BY <1>6 DEF ActiveUsage, RequestFails, Concluded, TypeOK, Generations
<1>7. CASE ActiveReread
  BY <1>7 DEF ActiveReread, Concluded, TypeOK, Generations
<1>8. CASE ReadCredentials
  BY <1>8 DEF ReadCredentials, Concluded, TypeOK, Generations
<1>9. CASE Usage
  BY <1>9 DEF Usage, RequestFails, Concluded, TypeOK, Generations
<1>10. CASE Guard
  BY <1>10 DEF Guard, Concluded, TypeOK, Generations
<1>11. CASE Exchange
  BY <1>11 DEF Exchange, RequestFails, Concluded, Issue, TypeOK, Documents,
         Homes, Generations
<1>12. CASE StoreCredentials
  BY <1>12 DEF StoreCredentials, Concluded, TypeOK, Generations
<1>13. CASE SignIn
  BY <1>13 DEF SignIn, Issue, TypeOK, Homes, Generations
<1>14. CASE Record
  BY <1>14 DEF Record, TypeOK, Generations
<1>15. CASE WriteCache
  BY <1>15 DEF WriteCache, Cached, Entry, TypeOK, Generations
<1>16. CASE Interrupt
  BY <1>16 DEF Interrupt, TypeOK, Generations
<1>17. CASE Crash
  BY <1>17 DEF Crash, TypeOK, Generations
<1>18. ASSUME NEW id \in Identities, Login(id) PROVE Generations'
  BY <1>18 DEF Login, ReplaceHome, Overwritten, TypeOK, Generations
<1>19. ASSUME NEW a \in Accounts, Restore(a) PROVE Generations'
  BY <1>19 DEF Restore, ReplaceHome, Overwritten, TypeOK, Generations
<1>20. CASE CodexRotates
  BY <1>20 DEF CodexRotates, Issue, TypeOK, Documents, Generations
<1>21. ASSUME NEW a \in Accounts, TokenDies(a) PROVE Generations'
  BY <1>21 DEF TokenDies, TypeOK, Generations
<1>22. CASE MinutePasses
  BY <1>22 DEF MinutePasses, TypeOK, Generations
<1>23. CASE Answer
  BY <1>23 DEF Answer, TypeOK, Generations
<1>24. QED
  BY <1>1, <1>2, <1>3, <1>4, <1>5, <1>6, <1>7, <1>8, <1>9, <1>10, <1>11, <1>12,
     <1>13, <1>14, <1>15, <1>16, <1>17, <1>18, <1>19, <1>20, <1>21, <1>22, <1>23
     DEF Next, Call, Outside

\* Every step keeps the newest generations.
LEMMA RotationStep ==
  ASSUME TypeOK, Generations, RotationKept, [Next]_vars
  PROVE  RotationKept'
<1>1. CASE UNCHANGED vars
  BY <1>1 DEF TypeOK, Generations, RotationKept
<1>2. CASE Begin
  BY <1>2 DEF Begin, BeginList, BeginPrepare, TypeOK, Generations,
         RotationKept, Running
<1>3. CASE NextAccount
  BY <1>3 DEF NextAccount, TypeOK, Generations, RotationKept
<1>4. CASE JudgeTarget
  BY <1>4 DEF JudgeTarget, TypeOK, Generations, RotationKept
<1>5. CASE Select
  BY <1>5 DEF Select, TypeOK, Generations, RotationKept
<1>6. CASE ActiveUsage
  BY <1>6 DEF ActiveUsage, RequestFails, Concluded, TypeOK, Generations,
         RotationKept
<1>7. CASE ActiveReread
  BY <1>7 DEF ActiveReread, Concluded, TypeOK, Generations, RotationKept
<1>8. CASE ReadCredentials
  BY <1>8 DEF ReadCredentials, Concluded, TypeOK, Generations, RotationKept
<1>9. CASE Usage
  BY <1>9 DEF Usage, RequestFails, Concluded, TypeOK, Generations,
         RotationKept
<1>10. CASE Guard
  BY <1>10 DEF Guard, Concluded, TypeOK, Generations, RotationKept
<1>11. CASE Exchange
  BY <1>11 DEF Exchange, RequestFails, Concluded, Issue, TypeOK, Generations,
         RotationKept
<1>12. CASE StoreCredentials
  BY <1>12 DEF StoreCredentials, Concluded, TypeOK, Generations, RotationKept
<1>13. CASE SignIn
  BY <1>13 DEF SignIn, Issue, TypeOK, Generations, RotationKept
<1>14. CASE Record
  BY <1>14 DEF Record, TypeOK, Generations, RotationKept
<1>15. CASE WriteCache
  BY <1>15 DEF WriteCache, Cached, Entry, TypeOK, Generations, RotationKept
<1>16. CASE Interrupt
  BY <1>16 DEF Interrupt, TypeOK, Generations, RotationKept
<1>17. CASE Crash
  BY <1>17 DEF Crash, TypeOK, Generations, RotationKept
<1>18. ASSUME NEW id \in Identities, Login(id) PROVE RotationKept'
  BY <1>18 DEF Login, ReplaceHome, Overwritten, TypeOK, Generations,
         RotationKept
<1>19. ASSUME NEW a \in Accounts, Restore(a) PROVE RotationKept'
  BY <1>19 DEF Restore, ReplaceHome, Overwritten, TypeOK, Generations,
         RotationKept
<1>20. CASE CodexRotates
  BY <1>20 DEF CodexRotates, Issue, TypeOK, Homes, Generations, RotationKept
<1>21. ASSUME NEW a \in Accounts, TokenDies(a) PROVE RotationKept'
  BY <1>21 DEF TokenDies, TypeOK, Generations, RotationKept
<1>22. CASE MinutePasses
  BY <1>22 DEF MinutePasses, TypeOK, Generations, RotationKept
<1>23. CASE Answer
  BY <1>23 DEF Answer, TypeOK, Generations, RotationKept
<1>24. QED
  BY <1>1, <1>2, <1>3, <1>4, <1>5, <1>6, <1>7, <1>8, <1>9, <1>10, <1>11, <1>12,
     <1>13, <1>14, <1>15, <1>16, <1>17, <1>18, <1>19, <1>20, <1>21, <1>22, <1>23
     DEF Next, Call, Outside

\* Every step keeps the count of exchanges.
LEMMA ExchangeStep ==
  ASSUME TypeOK, OneExchange, [Next]_vars
  PROVE  OneExchange'
<1>1. CASE UNCHANGED vars
  BY <1>1 DEF TypeOK, OneExchange
<1>2. CASE Begin
  BY <1>2 DEF Begin, BeginList, BeginPrepare, TypeOK, OneExchange
<1>3. CASE NextAccount
  BY <1>3 DEF NextAccount, TypeOK, OneExchange
<1>4. CASE JudgeTarget
  BY <1>4 DEF JudgeTarget, TypeOK, OneExchange
<1>5. CASE Select
  BY <1>5 DEF Select, TypeOK, OneExchange
<1>6. CASE ActiveUsage
  BY <1>6 DEF ActiveUsage, RequestFails, Concluded, TypeOK, OneExchange
<1>7. CASE ActiveReread
  BY <1>7 DEF ActiveReread, Concluded, TypeOK, OneExchange
<1>8. CASE ReadCredentials
  BY <1>8 DEF ReadCredentials, Concluded, TypeOK, OneExchange
<1>9. CASE Usage
  BY <1>9 DEF Usage, RequestFails, Concluded, TypeOK, OneExchange
<1>10. CASE Guard
  BY <1>10 DEF Guard, Concluded, TypeOK, OneExchange
<1>11. CASE Exchange
  BY <1>11 DEF Exchange, RequestFails, Concluded, Issue, TypeOK, OneExchange
<1>12. CASE StoreCredentials
  BY <1>12 DEF StoreCredentials, Concluded, TypeOK, OneExchange
<1>13. CASE SignIn
  BY <1>13 DEF SignIn, Issue, TypeOK, OneExchange
<1>14. CASE Record
  BY <1>14 DEF Record, TypeOK, OneExchange
<1>15. CASE WriteCache
  BY <1>15 DEF WriteCache, Cached, Entry, TypeOK, OneExchange
<1>16. CASE Interrupt
  BY <1>16 DEF Interrupt, TypeOK, OneExchange
<1>17. CASE Crash
  BY <1>17 DEF Crash, TypeOK, OneExchange
<1>18. ASSUME NEW id \in Identities, Login(id) PROVE OneExchange'
  BY <1>18 DEF Login, ReplaceHome, Overwritten, TypeOK, OneExchange
<1>19. ASSUME NEW a \in Accounts, Restore(a) PROVE OneExchange'
  BY <1>19 DEF Restore, ReplaceHome, Overwritten, TypeOK, OneExchange
<1>20. CASE CodexRotates
  BY <1>20 DEF CodexRotates, Issue, TypeOK, OneExchange
<1>21. ASSUME NEW a \in Accounts, TokenDies(a) PROVE OneExchange'
  BY <1>21 DEF TokenDies, TypeOK, OneExchange
<1>22. CASE MinutePasses
  BY <1>22 DEF MinutePasses, TypeOK, OneExchange
<1>23. CASE Answer
  BY <1>23 DEF Answer, TypeOK, OneExchange
<1>24. QED
  BY <1>1, <1>2, <1>3, <1>4, <1>5, <1>6, <1>7, <1>8, <1>9, <1>10, <1>11, <1>12,
     <1>13, <1>14, <1>15, <1>16, <1>17, <1>18, <1>19, <1>20, <1>21, <1>22, <1>23
     DEF Next, Call, Outside

\* Every step keeps the selection of another account.
LEMMA SelectionStep ==
  ASSUME TypeOK, OtherIsSelected, [Next]_vars
  PROVE  OtherIsSelected'
<1>1. CASE UNCHANGED vars
  BY <1>1 DEF TypeOK, OtherIsSelected
<1>2. CASE Begin
  BY <1>2 DEF Begin, BeginList, BeginPrepare, TypeOK, OtherIsSelected
<1>3. CASE NextAccount
  BY <1>3 DEF NextAccount, TypeOK, OtherIsSelected
<1>4. CASE JudgeTarget
  BY <1>4 DEF JudgeTarget, TypeOK, OtherIsSelected
<1>5. CASE Select
  BY <1>5 DEF Select, TypeOK, OtherIsSelected
<1>6. CASE ActiveUsage
  BY <1>6 DEF ActiveUsage, RequestFails, Concluded, TypeOK, OtherIsSelected
<1>7. CASE ActiveReread
  BY <1>7 DEF ActiveReread, Concluded, TypeOK, OtherIsSelected
<1>8. CASE ReadCredentials
  BY <1>8 DEF ReadCredentials, Concluded, TypeOK, OtherIsSelected
<1>9. CASE Usage
  BY <1>9 DEF Usage, RequestFails, Concluded, TypeOK, OtherIsSelected
<1>10. CASE Guard
  BY <1>10 DEF Guard, SelectionHolds, Concluded, TypeOK, OtherIsSelected
<1>11. CASE Exchange
  BY <1>11 DEF Exchange, RequestFails, Concluded, Issue, TypeOK,
         OtherIsSelected
<1>12. CASE StoreCredentials
  BY <1>12 DEF StoreCredentials, Concluded, TypeOK, OtherIsSelected
<1>13. CASE SignIn
  BY <1>13 DEF SignIn, Issue, TypeOK, OtherIsSelected
<1>14. CASE Record
  BY <1>14 DEF Record, TypeOK, OtherIsSelected
<1>15. CASE WriteCache
  BY <1>15 DEF WriteCache, Cached, Entry, TypeOK, OtherIsSelected
<1>16. CASE Interrupt
  BY <1>16 DEF Interrupt, TypeOK, OtherIsSelected
<1>17. CASE Crash
  BY <1>17 DEF Crash, TypeOK, OtherIsSelected
<1>18. ASSUME NEW id \in Identities, Login(id) PROVE OtherIsSelected'
  BY <1>18 DEF Login, ReplaceHome, Overwritten, TypeOK, OtherIsSelected
<1>19. ASSUME NEW a \in Accounts, Restore(a) PROVE OtherIsSelected'
  BY <1>19 DEF Restore, ReplaceHome, Overwritten, TypeOK, OtherIsSelected
<1>20. CASE CodexRotates
  BY <1>20 DEF CodexRotates, Issue, TypeOK, OtherIsSelected
<1>21. ASSUME NEW a \in Accounts, TokenDies(a) PROVE OtherIsSelected'
  BY <1>21 DEF TokenDies, TypeOK, OtherIsSelected
<1>22. CASE MinutePasses
  BY <1>22 DEF MinutePasses, TypeOK, OtherIsSelected
<1>23. CASE Answer
  BY <1>23 DEF Answer, TypeOK, OtherIsSelected
<1>24. QED
  BY <1>1, <1>2, <1>3, <1>4, <1>5, <1>6, <1>7, <1>8, <1>9, <1>10, <1>11, <1>12,
     <1>13, <1>14, <1>15, <1>16, <1>17, <1>18, <1>19, <1>20, <1>21, <1>22, <1>23
     DEF Next, Call, Outside

\* The conjunction is inductive.
Inv == TypeOK /\ Generations /\ RotationKept /\ OneExchange /\ OtherIsSelected

\* It holds initially.
LEMMA InitInv == Init => Inv
<1> SUFFICES ASSUME Init PROVE Inv
  OBVIOUS
<1> USE SelectionsDiffer, BoundsAssumption DEF Init
<1>1. TypeOK
  <2>1. saved \in [Accounts -> Documents] /\ doc \in Documents
    BY DEF Documents, Access, Empty
  <2>2. cache \in [Accounts -> Entries]
    BY DEF Entries, NoEntry
  <2>3. native \in Homes
    BY DEF Homes, Identities
  <2>4. latest \in [Accounts -> Nat] /\ budget \in Nat
    OBVIOUS
  <2>5. QED
    BY <2>1, <2>2, <2>3, <2>4 DEF TypeOK, AttemptResults, Identities
<1>2. Generations
  BY DEF Generations, Identities
<1>3. RotationKept
  BY DEF RotationKept
<1>4. OneExchange
  BY DEF OneExchange
<1>5. OtherIsSelected
  BY DEF OtherIsSelected
<1>6. QED
  BY <1>1, <1>2, <1>3, <1>4, <1>5 DEF Inv

\* The invariant of the quota service.
THEOREM QuotaInvariant == Spec => []Inv
<1>1. Inv /\ [Next]_vars => Inv'
  BY TypeStep, GenerationsStep, RotationStep, ExchangeStep, SelectionStep
     DEF Inv
<1>2. QED
  BY InitInv, <1>1, PTL DEF Spec

\* Every variable keeps its type, in particular no stale mark without a quota
\* (Service.Refresh, Entry).
THEOREM QuotaTypes == Spec => []TypeOK
<1>1. Inv => TypeOK
  BY DEF Inv
<1>2. QED
  BY QuotaInvariant, <1>1, PTL

\* The newest generation of every account is kept unless the server's answer
\* or the write of the store was lost (Service.refresh).
THEOREM RotationIsKept == Spec => []RotationKept
<1>1. Inv => RotationKept
  BY DEF Inv
<1>2. QED
  BY QuotaInvariant, <1>1, PTL

\* One Refresh spends at most one refresh token (Service.inactive).
THEOREM OneTokenPerRefresh == Spec => []ExchangesOnce
<1>1. Inv => ExchangesOnce
  BY DEF Inv, OneExchange, ExchangesOnce
<1>2. QED
  BY QuotaInvariant, <1>1, PTL

\* A step that spends a token is Exchange, and Exchange spends another
\* account's.
LEMMA SpendsOthers ==
  ASSUME TypeOK, OtherIsSelected, [Next]_vars
  PROVE  exchanges' > exchanges => native.id # account \/ moved
<1>1. CASE UNCHANGED vars
  BY <1>1 DEF TypeOK, OtherIsSelected
<1>2. CASE Begin
  BY <1>2 DEF Begin, BeginList, BeginPrepare, TypeOK, OtherIsSelected
<1>3. CASE NextAccount
  BY <1>3 DEF NextAccount, TypeOK, OtherIsSelected
<1>4. CASE JudgeTarget
  BY <1>4 DEF JudgeTarget, TypeOK, OtherIsSelected
<1>5. CASE Select
  BY <1>5 DEF Select, TypeOK, OtherIsSelected
<1>6. CASE ActiveUsage
  BY <1>6 DEF ActiveUsage, RequestFails, Concluded, TypeOK, OtherIsSelected
<1>7. CASE ActiveReread
  BY <1>7 DEF ActiveReread, Concluded, TypeOK, OtherIsSelected
<1>8. CASE ReadCredentials
  BY <1>8 DEF ReadCredentials, Concluded, TypeOK, OtherIsSelected
<1>9. CASE Usage
  BY <1>9 DEF Usage, RequestFails, Concluded, TypeOK, OtherIsSelected
<1>10. CASE Guard
  BY <1>10 DEF Guard, Concluded, TypeOK, OtherIsSelected
<1>11. CASE Exchange
  BY <1>11 DEF Exchange, RequestFails, Concluded, Issue, TypeOK,
         OtherIsSelected
<1>12. CASE StoreCredentials
  BY <1>12 DEF StoreCredentials, Concluded, TypeOK, OtherIsSelected
<1>13. CASE SignIn
  BY <1>13 DEF SignIn, Issue, TypeOK, OtherIsSelected
<1>14. CASE Record
  BY <1>14 DEF Record, TypeOK, OtherIsSelected
<1>15. CASE WriteCache
  BY <1>15 DEF WriteCache, Cached, Entry, TypeOK, OtherIsSelected
<1>16. CASE Interrupt
  BY <1>16 DEF Interrupt, TypeOK, OtherIsSelected
<1>17. CASE Crash
  BY <1>17 DEF Crash, TypeOK, OtherIsSelected
<1>18. ASSUME NEW id \in Identities, Login(id)
      PROVE  exchanges' > exchanges => native.id # account \/ moved
  BY <1>18 DEF Login, ReplaceHome, Overwritten, TypeOK, OtherIsSelected
<1>19. ASSUME NEW a \in Accounts, Restore(a)
      PROVE  exchanges' > exchanges => native.id # account \/ moved
  BY <1>19 DEF Restore, ReplaceHome, Overwritten, TypeOK, OtherIsSelected
<1>20. CASE CodexRotates
  BY <1>20 DEF CodexRotates, Issue, TypeOK, OtherIsSelected
<1>21. ASSUME NEW a \in Accounts, TokenDies(a)
      PROVE  exchanges' > exchanges => native.id # account \/ moved
  BY <1>21 DEF TokenDies, TypeOK, OtherIsSelected
<1>22. CASE MinutePasses
  BY <1>22 DEF MinutePasses, TypeOK, OtherIsSelected
<1>23. CASE Answer
  BY <1>23 DEF Answer, TypeOK, OtherIsSelected
<1>24. QED
  BY <1>1, <1>2, <1>3, <1>4, <1>5, <1>6, <1>7, <1>8, <1>9, <1>10, <1>11, <1>12,
     <1>13, <1>14, <1>15, <1>16, <1>17, <1>18, <1>19, <1>20, <1>21, <1>22, <1>23
     DEF Next, Call, Outside

\* Verso never spends a refresh token of the selected account, unless another
\* program selected it after the last check (Service.refresh).
THEOREM SelectedIsSpared == Spec => SelectedNeverSpent
<1>1. Inv /\ [Next]_vars =>
        [exchanges' > exchanges => native.id # account \/ moved]_vars
  BY SpendsOthers DEF Inv
<1>2. QED
  BY QuotaInvariant, <1>1, PTL DEF Spec, SelectedNeverSpent

\* An attempt that a cancellation made fail goes on until the cancellation is
\* looked at, and that is before the cache is written.
BlameInv ==
  /\ killed => cancelled
  /\ pc = "write" => ~killed

\* No step leaves a failure of a cancelled attempt to be written.
LEMMA BlameStep ==
  ASSUME TypeOK, BlameInv, [Next]_vars
  PROVE  BlameInv'
<1> USE DEF TypeOK, BlameInv
<1>1. CASE UNCHANGED vars
  BY <1>1
<1>2. CASE Begin
  BY <1>2 DEF Begin, BeginList, BeginPrepare
<1>3. CASE NextAccount
  BY <1>3 DEF NextAccount
<1>4. CASE JudgeTarget
  BY <1>4 DEF JudgeTarget
<1>5. CASE Select
  BY <1>5 DEF Select
<1>6. CASE ActiveUsage
  BY <1>6 DEF ActiveUsage, RequestFails, Concluded
<1>7. CASE ActiveReread
  BY <1>7 DEF ActiveReread, Concluded
<1>8. CASE ReadCredentials
  BY <1>8 DEF ReadCredentials, Concluded
<1>9. CASE Usage
  BY <1>9 DEF Usage, RequestFails, Concluded
<1>10. CASE Guard
  BY <1>10 DEF Guard, Concluded
<1>11. CASE Exchange
  BY <1>11 DEF Exchange, RequestFails, Concluded, Issue
<1>12. CASE StoreCredentials
  BY <1>12 DEF StoreCredentials, Concluded
<1>13. CASE SignIn
  BY <1>13 DEF SignIn, Issue
<1>14. CASE Record
  BY <1>14 DEF Record
<1>15. CASE WriteCache
  BY <1>15 DEF WriteCache, Cached, Entry
<1>16. CASE Interrupt
  BY <1>16 DEF Interrupt
<1>17. CASE Crash
  BY <1>17 DEF Crash
<1>18. ASSUME NEW id \in Identities, Login(id) PROVE BlameInv'
  BY <1>18 DEF Login, ReplaceHome
<1>19. ASSUME NEW a \in Accounts, Restore(a) PROVE BlameInv'
  BY <1>19 DEF Restore, ReplaceHome
<1>20. CASE CodexRotates
  BY <1>20 DEF CodexRotates, Issue
<1>21. ASSUME NEW a \in Accounts, TokenDies(a) PROVE BlameInv'
  BY <1>21 DEF TokenDies
<1>22. CASE MinutePasses
  BY <1>22 DEF MinutePasses
<1>23. CASE Answer
  BY <1>23 DEF Answer
<1>24. QED
  BY <1>1, <1>2, <1>3, <1>4, <1>5, <1>6, <1>7, <1>8, <1>9, <1>10, <1>11,
     <1>12, <1>13, <1>14, <1>15, <1>16, <1>17, <1>18, <1>19, <1>20, <1>21,
     <1>22, <1>23
     DEF Next, Call, Outside

\* Only WriteCache writes the cache.
LEMMA OnlyWriteCacheWrites ==
  ASSUME [Next]_vars, cache' # cache
  PROVE  pc = "write"
BY DEF Next, Call, Outside, Begin, Answer, NextAccount, JudgeTarget, Select,
   ActiveUsage, ActiveReread, ReadCredentials, Usage, Guard, Exchange,
   StoreCredentials, SignIn, Record, WriteCache, Interrupt, Crash, Login, Restore,
   ReplaceHome, CodexRotates, TokenDies, MinutePasses

\* A failure that a cancellation caused is not written to the cache, whenever
\* the cancellation comes (Service.Refresh, cancellationError).
THEOREM CancelIsNotBlamed == Spec => NeverBlamesCancel
<1>1. Init => BlameInv
  BY DEF Init, BlameInv
<1>2. TypeOK /\ BlameInv /\ [Next]_vars => BlameInv'
  BY BlameStep
<1>3. BlameInv /\ [Next]_vars => [cache' # cache => ~killed]_vars
  BY OnlyWriteCacheWrites DEF BlameInv
<1>4. QED
  BY <1>1, <1>2, <1>3, QuotaTypes, PTL DEF Spec, NeverBlamesCancel

=============================================================================
