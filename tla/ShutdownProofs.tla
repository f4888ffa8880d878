---------------------------- MODULE ShutdownProofs ----------------------------
(***************************************************************************)
(* Theorems about Shutdown, for any number of ticks in flight, clients and *)
(* faults.  The inductive invariant is IInv; each of its parts is proved   *)
(* preserved by every action in a lemma of its own.                        *)
(***************************************************************************)
EXTENDS Shutdown, TLAPS

\* An instance that is gone has no process.
NoGhost == asg = "Gone" => process = "down"

\* The flag is down from the moment a shutdown begins, and with it down
\* no connected client of the room gateway is still to be told.
Flag == /\ \A t \in Ticks : tick[t].pc \in Shutting => ~active
        /\ ~active => \A c \in RoomClients : conn[c] # "fresh"

\* The instance may proceed only by CONTINUE or the hook's timeout, and a
\* process that is active although CONTINUE was sent was started after it.
Sent == {"continuing", "accepted", "refused"}
Begun ==
    /\ asg \in {"Proceed", "Gone"} => past.overdue \/ past.begun
    /\ orphan => past.begun
    /\ \A t \in Ticks : tick[t].pc \in Sent => past.begun
    /\ past.begun /\ process = "up" /\ active => past.reborn

\* While nothing raced, one tick at most is in flight once the flag is down,
\* and it has not sent CONTINUE before.
One ==
    /\ active => past.sent = 0 /\ ~past.raced
    /\ ~active /\ ~past.raced =>
          /\ past.sent \in {0, 1}
          /\ \A t \in Ticks : tick[t] # Idle =>
                /\ tick[t].pc \in Shutting
                /\ tick[t].pc = "group" => past.sent = 0
                /\ \A u \in Ticks : tick[u] # Idle => u = t

\* A tick that is idle carries nothing.
Unsaid == \A t \in Ticks : tick[t].pc = "idle" => tick[t] = Idle

IInv == Typed /\ Unsaid /\ Quiet /\ NoGhost /\ Flag /\ Begun /\ One

------------------------------------------------------------------------------
\* Every step keeps types.
LEMMA TypedStep == IInv /\ [Next]_vars => Typed'
<1> SUFFICES ASSUME IInv, [Next]_vars PROVE Typed'
  OBVIOUS
<1> USE FaultsAssumption, ClientsAssumption DEF IInv, Typed, TickRecord, Idle, Shutting, Past,
   Ends, NoGhost, Quiet, Serving
<1>1. ASSUME NEW t \in Ticks, Tick(t) PROVE Typed'
  BY <1>1 DEF Tick
<1>2. ASSUME NEW t \in Ticks, NotYet(t) PROVE Typed'
  BY <1>2 DEF NotYet
<1>3. ASSUME NEW t \in Ticks, Begin(t) PROVE Typed'
  BY <1>3 DEF Begin, Told
<1>4. ASSUME NEW t \in Ticks, Continue(t) PROVE Typed'
  <2>1. past' \in Past
    <3>1. past.sent + 1 \in Nat
      BY DEF Past
    <3> QED
      BY <1>4, <3>1 DEF Continue
  <2>2. tick' \in [Ticks -> TickRecord]
    BY <1>4 DEF Continue
  <2> QED
    BY <1>4, <2>1, <2>2 DEF Continue
<1>5. ASSUME NEW t \in Ticks, Exit(t) PROVE Typed'
  BY <1>5 DEF Exit
<1>6. ASSUME NEW t \in Ticks, Reject(t) PROVE Typed'
  <2>1. CASE Ends
    BY <1>6, <2>1 DEF Reject
  <2>2. CASE LivesOn(t)
    BY <1>6, <2>2 DEF Reject, LivesOn
  <2> QED
    BY <1>6, <2>1, <2>2 DEF Reject
<1>7. ASSUME NEW t \in Ticks, Describe(t) PROVE Typed'
  BY <1>7 DEF Describe
<1>8. ASSUME NEW t \in Ticks, CompleteLifecycleAction(t) PROVE Typed'
  BY <1>8 DEF CompleteLifecycleAction
<1>9. ASSUME NEW t \in Ticks, AwsFails(t) PROVE Typed'
  <2>1. faults' \in 0 .. MaxFaults
    BY ONLY <1>9, FaultsAssumption, IInv DEF IInv, Typed, AwsFails
  <2>2. orphan' \in BOOLEAN
    BY <1>9 DEF AwsFails, LivesOn
  <2> QED
    BY <1>9, <2>1, <2>2 DEF AwsFails, LivesOn
<1>10. CASE ScaleIn
  BY <1>10 DEF ScaleIn
<1>11. CASE CompleteOrphan
  BY <1>11 DEF CompleteOrphan
<1>12. CASE HookExpires
  BY <1>12 DEF HookExpires
<1>13. CASE Terminate
  BY <1>13 DEF Terminate
<1>14. CASE Restart
  BY <1>14 DEF Restart
<1>15. CASE RestartFails
  <2>1. faults' \in 0 .. MaxFaults
    BY ONLY <1>15, FaultsAssumption, IInv DEF IInv, Typed, RestartFails
  <2>2. past' \in Past
    BY <1>15 DEF RestartFails
  <2> QED
    BY <1>15, <2>1, <2>2 DEF RestartFails
<1>16. CASE HealthCheck
  BY <1>16 DEF HealthCheck
<1>17. ASSUME NEW c \in Clients, Connect(c) PROVE Typed'
  BY <1>17 DEF Connect
<1>18. ASSUME NEW c \in Clients, Disconnect(c) PROVE Typed'
  BY <1>18 DEF Disconnect
<1>19. CASE UNCHANGED vars
  BY <1>19 DEF vars
<1> QED
  BY ONLY IInv, [Next]_vars, <1>1, <1>2, <1>3, <1>4, <1>5, <1>6, <1>7, <1>8,
     <1>9, <1>10, <1>11, <1>12, <1>13, <1>14, <1>15, <1>16, <1>17, <1>18,
     <1>19 DEF Next, Progress

\* Every step keeps idle ticks empty.
LEMMA UnsaidStep == IInv /\ [Next]_vars => Unsaid'
<1> SUFFICES ASSUME IInv, [Next]_vars PROVE Unsaid'
  OBVIOUS
<1> USE FaultsAssumption, ClientsAssumption DEF IInv, Typed, TickRecord, Unsaid, Idle, Shutting,
   Ends
<1>1. ASSUME NEW t \in Ticks, Tick(t) PROVE Unsaid'
  BY <1>1 DEF Tick
<1>2. ASSUME NEW t \in Ticks, NotYet(t) PROVE Unsaid'
  BY <1>2 DEF NotYet
<1>3. ASSUME NEW t \in Ticks, Begin(t) PROVE Unsaid'
  BY <1>3 DEF Begin, Told
<1>4. ASSUME NEW t \in Ticks, Continue(t) PROVE Unsaid'
  BY <1>4 DEF Continue
<1>5. ASSUME NEW t \in Ticks, Exit(t) PROVE Unsaid'
  BY <1>5 DEF Exit
<1>6. ASSUME NEW t \in Ticks, Reject(t) PROVE Unsaid'
  BY <1>6 DEF Reject, LivesOn
<1>7. ASSUME NEW t \in Ticks, Describe(t) PROVE Unsaid'
  BY <1>7 DEF Describe
<1>8. ASSUME NEW t \in Ticks, CompleteLifecycleAction(t) PROVE Unsaid'
  BY <1>8 DEF CompleteLifecycleAction
<1>9. ASSUME NEW t \in Ticks, AwsFails(t) PROVE Unsaid'
  BY <1>9 DEF AwsFails, LivesOn
<1>10. CASE ScaleIn
  BY <1>10 DEF ScaleIn
<1>11. CASE CompleteOrphan
  BY <1>11 DEF CompleteOrphan
<1>12. CASE HookExpires
  BY <1>12 DEF HookExpires
<1>13. CASE Terminate
  BY <1>13 DEF Terminate
<1>14. CASE Restart
  BY <1>14 DEF Restart
<1>15. CASE RestartFails
  BY <1>15 DEF RestartFails
<1>16. CASE HealthCheck
  BY <1>16 DEF HealthCheck
<1>17. ASSUME NEW c \in Clients, Connect(c) PROVE Unsaid'
  BY <1>17 DEF Connect
<1>18. ASSUME NEW c \in Clients, Disconnect(c) PROVE Unsaid'
  BY <1>18 DEF Disconnect
<1>19. CASE UNCHANGED vars
  BY <1>19 DEF vars
<1> QED
  BY ONLY IInv, [Next]_vars, <1>1, <1>2, <1>3, <1>4, <1>5, <1>6, <1>7, <1>8,
     <1>9, <1>10, <1>11, <1>12, <1>13, <1>14, <1>15, <1>16, <1>17, <1>18,
     <1>19 DEF Next, Progress

\* Every step keeps what ends with the process.
LEMMA QuietStep == IInv /\ [Next]_vars => Quiet'
<1> SUFFICES ASSUME IInv, [Next]_vars PROVE Quiet'
  OBVIOUS
<1> USE FaultsAssumption, ClientsAssumption DEF IInv, Typed, TickRecord, Quiet, Idle, Shutting,
   Ends, Serving
<1>1. ASSUME NEW t \in Ticks, Tick(t) PROVE Quiet'
  BY <1>1 DEF Tick
<1>2. ASSUME NEW t \in Ticks, NotYet(t) PROVE Quiet'
  BY <1>2 DEF NotYet
<1>3. ASSUME NEW t \in Ticks, Begin(t) PROVE Quiet'
  BY <1>3 DEF Begin, Told
<1>4. ASSUME NEW t \in Ticks, Continue(t) PROVE Quiet'
  BY <1>4 DEF Continue
<1>5. ASSUME NEW t \in Ticks, Exit(t) PROVE Quiet'
  BY <1>5 DEF Exit
<1>6. ASSUME NEW t \in Ticks, Reject(t) PROVE Quiet'
  BY <1>6 DEF Reject, LivesOn
<1>7. ASSUME NEW t \in Ticks, Describe(t) PROVE Quiet'
  BY <1>7 DEF Describe
<1>8. ASSUME NEW t \in Ticks, CompleteLifecycleAction(t) PROVE Quiet'
  BY <1>8 DEF CompleteLifecycleAction
<1>9. ASSUME NEW t \in Ticks, AwsFails(t) PROVE Quiet'
  BY <1>9 DEF AwsFails, LivesOn
<1>10. CASE ScaleIn
  BY <1>10 DEF ScaleIn
<1>11. CASE CompleteOrphan
  BY <1>11 DEF CompleteOrphan
<1>12. CASE HookExpires
  BY <1>12 DEF HookExpires
<1>13. CASE Terminate
  BY <1>13 DEF Terminate
<1>14. CASE Restart
  BY <1>14 DEF Restart
<1>15. CASE RestartFails
  BY <1>15 DEF RestartFails
<1>16. CASE HealthCheck
  BY <1>16 DEF HealthCheck
<1>17. ASSUME NEW c \in Clients, Connect(c) PROVE Quiet'
  BY <1>17 DEF Connect
<1>18. ASSUME NEW c \in Clients, Disconnect(c) PROVE Quiet'
  BY <1>18 DEF Disconnect
<1>19. CASE UNCHANGED vars
  BY <1>19 DEF vars
<1> QED
  BY ONLY IInv, [Next]_vars, <1>1, <1>2, <1>3, <1>4, <1>5, <1>6, <1>7, <1>8,
     <1>9, <1>10, <1>11, <1>12, <1>13, <1>14, <1>15, <1>16, <1>17, <1>18,
     <1>19 DEF Next, Progress

\* Every step keeps the end of the instance.
LEMMA NoGhostStep == IInv /\ [Next]_vars => NoGhost'
<1> SUFFICES ASSUME IInv, [Next]_vars PROVE NoGhost'
  OBVIOUS
<1> USE FaultsAssumption, ClientsAssumption DEF IInv, NoGhost, Quiet, Idle, Ends, Typed,
   TickRecord, Shutting
<1>1. ASSUME NEW t \in Ticks, Tick(t) PROVE NoGhost'
  BY <1>1 DEF Tick
<1>2. ASSUME NEW t \in Ticks, NotYet(t) PROVE NoGhost'
  BY <1>2 DEF NotYet
<1>3. ASSUME NEW t \in Ticks, Begin(t) PROVE NoGhost'
  BY <1>3 DEF Begin, Told
<1>4. ASSUME NEW t \in Ticks, Continue(t) PROVE NoGhost'
  BY <1>4 DEF Continue
<1>5. ASSUME NEW t \in Ticks, Exit(t) PROVE NoGhost'
  BY <1>5 DEF Exit
<1>6. ASSUME NEW t \in Ticks, Reject(t) PROVE NoGhost'
  BY <1>6 DEF Reject, LivesOn
<1>7. ASSUME NEW t \in Ticks, Describe(t) PROVE NoGhost'
  BY <1>7 DEF Describe
<1>8. ASSUME NEW t \in Ticks, CompleteLifecycleAction(t) PROVE NoGhost'
  BY <1>8 DEF CompleteLifecycleAction
<1>9. ASSUME NEW t \in Ticks, AwsFails(t) PROVE NoGhost'
  BY <1>9 DEF AwsFails, LivesOn
<1>10. CASE ScaleIn
  BY <1>10 DEF ScaleIn
<1>11. CASE CompleteOrphan
  BY <1>11 DEF CompleteOrphan
<1>12. CASE HookExpires
  BY <1>12 DEF HookExpires
<1>13. CASE Terminate
  BY <1>13 DEF Terminate
<1>14. CASE Restart
  BY <1>14 DEF Restart
<1>15. CASE RestartFails
  BY <1>15 DEF RestartFails
<1>16. CASE HealthCheck
  BY <1>16 DEF HealthCheck
<1>17. ASSUME NEW c \in Clients, Connect(c) PROVE NoGhost'
  BY <1>17 DEF Connect
<1>18. ASSUME NEW c \in Clients, Disconnect(c) PROVE NoGhost'
  BY <1>18 DEF Disconnect
<1>19. CASE UNCHANGED vars
  BY <1>19 DEF vars
<1> QED
  BY ONLY IInv, [Next]_vars, <1>1, <1>2, <1>3, <1>4, <1>5, <1>6, <1>7, <1>8,
     <1>9, <1>10, <1>11, <1>12, <1>13, <1>14, <1>15, <1>16, <1>17, <1>18,
     <1>19 DEF Next, Progress

\* Every step keeps the flag.
LEMMA FlagStep == IInv /\ [Next]_vars => Flag'
<1> SUFFICES ASSUME IInv, [Next]_vars PROVE Flag'
  OBVIOUS
<1> USE FaultsAssumption, ClientsAssumption DEF IInv, Typed, TickRecord, Flag, Quiet, Idle,
   Shutting, Ends, Serving
<1>1. ASSUME NEW t \in Ticks, Tick(t) PROVE Flag'
  BY <1>1 DEF Tick
<1>2. ASSUME NEW t \in Ticks, NotYet(t) PROVE Flag'
  BY <1>2 DEF NotYet
<1>3. ASSUME NEW t \in Ticks, Begin(t) PROVE Flag'
  BY <1>3 DEF Begin, Told
<1>4. ASSUME NEW t \in Ticks, Continue(t) PROVE Flag'
  BY <1>4 DEF Continue
<1>5. ASSUME NEW t \in Ticks, Exit(t) PROVE Flag'
  BY <1>5 DEF Exit
<1>6. ASSUME NEW t \in Ticks, Reject(t) PROVE Flag'
  BY <1>6 DEF Reject, LivesOn
<1>7. ASSUME NEW t \in Ticks, Describe(t) PROVE Flag'
  BY <1>7 DEF Describe
<1>8. ASSUME NEW t \in Ticks, CompleteLifecycleAction(t) PROVE Flag'
  BY <1>8 DEF CompleteLifecycleAction
<1>9. ASSUME NEW t \in Ticks, AwsFails(t) PROVE Flag'
  BY <1>9 DEF AwsFails, LivesOn
<1>10. CASE ScaleIn
  BY <1>10 DEF ScaleIn
<1>11. CASE CompleteOrphan
  BY <1>11 DEF CompleteOrphan
<1>12. CASE HookExpires
  BY <1>12 DEF HookExpires
<1>13. CASE Terminate
  BY <1>13 DEF Terminate
<1>14. CASE Restart
  BY <1>14 DEF Restart
<1>15. CASE RestartFails
  BY <1>15 DEF RestartFails
<1>16. CASE HealthCheck
  BY <1>16 DEF HealthCheck
<1>17. ASSUME NEW c \in Clients, Connect(c) PROVE Flag'
  BY <1>17 DEF Connect
<1>18. ASSUME NEW c \in Clients, Disconnect(c) PROVE Flag'
  BY <1>18 DEF Disconnect
<1>19. CASE UNCHANGED vars
  BY <1>19 DEF vars
<1> QED
  BY ONLY IInv, [Next]_vars, <1>1, <1>2, <1>3, <1>4, <1>5, <1>6, <1>7, <1>8,
     <1>9, <1>10, <1>11, <1>12, <1>13, <1>14, <1>15, <1>16, <1>17, <1>18,
     <1>19 DEF Next, Progress

\* Every step keeps what CONTINUE leaves behind.
LEMMA BegunStep == IInv /\ [Next]_vars => Begun'
<1> SUFFICES ASSUME IInv, [Next]_vars PROVE Begun'
  OBVIOUS
<1> USE FaultsAssumption, ClientsAssumption DEF IInv, Typed, TickRecord, Begun, Flag, Quiet,
   Idle, Shutting, Sent, Past, Ends, Serving
<1>1. ASSUME NEW t \in Ticks, Tick(t) PROVE Begun'
  BY <1>1 DEF Tick
<1>2. ASSUME NEW t \in Ticks, NotYet(t) PROVE Begun'
  BY <1>2 DEF NotYet
<1>3. ASSUME NEW t \in Ticks, Begin(t) PROVE Begun'
  BY <1>3 DEF Begin, Told
<1>4. ASSUME NEW t \in Ticks, Continue(t) PROVE Begun'
  BY <1>4 DEF Continue
<1>5. ASSUME NEW t \in Ticks, Exit(t) PROVE Begun'
  BY <1>5 DEF Exit
<1>6. ASSUME NEW t \in Ticks, Reject(t) PROVE Begun'
  BY <1>6 DEF Reject, LivesOn
<1>7. ASSUME NEW t \in Ticks, Describe(t) PROVE Begun'
  BY <1>7 DEF Describe
<1>8. ASSUME NEW t \in Ticks, CompleteLifecycleAction(t) PROVE Begun'
  BY <1>8 DEF CompleteLifecycleAction
<1>9. ASSUME NEW t \in Ticks, AwsFails(t) PROVE Begun'
  BY <1>9 DEF AwsFails, LivesOn
<1>10. CASE ScaleIn
  BY <1>10 DEF ScaleIn
<1>11. CASE CompleteOrphan
  BY <1>11 DEF CompleteOrphan
<1>12. CASE HookExpires
  BY <1>12 DEF HookExpires
<1>13. CASE Terminate
  BY <1>13 DEF Terminate
<1>14. CASE Restart
  BY <1>14 DEF Restart
<1>15. CASE RestartFails
  BY <1>15 DEF RestartFails
<1>16. CASE HealthCheck
  BY <1>16 DEF HealthCheck
<1>17. ASSUME NEW c \in Clients, Connect(c) PROVE Begun'
  BY <1>17 DEF Connect
<1>18. ASSUME NEW c \in Clients, Disconnect(c) PROVE Begun'
  BY <1>18 DEF Disconnect
<1>19. CASE UNCHANGED vars
  BY <1>19 DEF vars
<1> QED
  BY ONLY IInv, [Next]_vars, <1>1, <1>2, <1>3, <1>4, <1>5, <1>6, <1>7, <1>8,
     <1>9, <1>10, <1>11, <1>12, <1>13, <1>14, <1>15, <1>16, <1>17, <1>18,
     <1>19 DEF Next, Progress

\* Every step keeps one shutdown per process.
LEMMA OneStep == IInv /\ [Next]_vars => One'
<1> SUFFICES ASSUME IInv, [Next]_vars PROVE One'
  OBVIOUS
<1> USE FaultsAssumption, ClientsAssumption DEF IInv, Unsaid, Typed, TickRecord, One, Flag,
   Quiet, Idle, Shutting, Past, Busy, Ends, Serving
<1>1. ASSUME NEW t \in Ticks, Tick(t) PROVE One'
  BY <1>1 DEF Tick
<1>2. ASSUME NEW t \in Ticks, NotYet(t) PROVE One'
  BY <1>2 DEF NotYet
<1>3. ASSUME NEW t \in Ticks, Begin(t) PROVE One'
  <2>1. tick' = [tick EXCEPT ![t] = [pc |-> "group", said |-> "none"]]
    BY <1>3 DEF Begin, Told
  <2>2. ~active'
    BY <1>3 DEF Begin, Told
  <2>3. past'.sent = past.sent
    BY ONLY <1>3, IInv DEF IInv, Typed, Past, Begin
  <2>6. past'.raced = (past.raced \/ (active /\ Busy # {t}))
    BY ONLY <1>3, IInv DEF IInv, Typed, Past, Begin
  <2>7. past.raced => past'.raced
    BY ONLY <2>6
  <2>8. active /\ Busy # {t} => past'.raced
    BY ONLY <2>6
  <2>4. CASE active /\ Busy = {t}
    <3>1. \A u \in Ticks : tick[u].pc # "idle" => u = t
      BY <2>4
    <3>2. \A u \in Ticks : tick'[u] # Idle => u = t
      <4> SUFFICES ASSUME NEW u \in Ticks, u # t PROVE tick'[u] = Idle
        OBVIOUS
      <4>1. tick[u].pc = "idle"
        BY <3>1
      <4> QED
        BY <2>1, <4>1
    <3> QED
      BY ONLY <2>1, <2>2, <2>3, <2>4, <3>2, IInv DEF IInv, Typed, One,
         Idle, Shutting
  <2>5. CASE ~active /\ ~past.raced
    BY <1>3, <2>5 DEF Begin
  <2> QED
    BY ONLY IInv, <2>2, <2>4, <2>5, <2>7, <2>8 DEF IInv, Typed, One, Past
<1>4. ASSUME NEW t \in Ticks, Continue(t) PROVE One'
  BY <1>4 DEF Continue
<1>5. ASSUME NEW t \in Ticks, Exit(t) PROVE One'
  BY <1>5 DEF Exit
<1>6. ASSUME NEW t \in Ticks, Reject(t) PROVE One'
  BY <1>6 DEF Reject, LivesOn
<1>7. ASSUME NEW t \in Ticks, Describe(t) PROVE One'
  BY <1>7 DEF Describe
<1>8. ASSUME NEW t \in Ticks, CompleteLifecycleAction(t) PROVE One'
  BY <1>8 DEF CompleteLifecycleAction
<1>9. ASSUME NEW t \in Ticks, AwsFails(t) PROVE One'
  BY <1>9 DEF AwsFails, LivesOn
<1>10. CASE ScaleIn
  BY <1>10 DEF ScaleIn
<1>11. CASE CompleteOrphan
  BY <1>11 DEF CompleteOrphan
<1>12. CASE HookExpires
  BY <1>12 DEF HookExpires
<1>13. CASE Terminate
  BY <1>13 DEF Terminate
<1>14. CASE Restart
  BY <1>14 DEF Restart
<1>15. CASE RestartFails
  BY <1>15 DEF RestartFails
<1>16. CASE HealthCheck
  BY <1>16 DEF HealthCheck
<1>17. ASSUME NEW c \in Clients, Connect(c) PROVE One'
  BY <1>17 DEF Connect
<1>18. ASSUME NEW c \in Clients, Disconnect(c) PROVE One'
  BY <1>18 DEF Disconnect
<1>19. CASE UNCHANGED vars
  BY <1>19 DEF vars
<1> QED
  BY ONLY IInv, [Next]_vars, <1>1, <1>2, <1>3, <1>4, <1>5, <1>6, <1>7, <1>8,
     <1>9, <1>10, <1>11, <1>12, <1>13, <1>14, <1>15, <1>16, <1>17, <1>18,
     <1>19 DEF Next, Progress

------------------------------------------------------------------------------
\* The invariant holds at first.
LEMMA InitIInv == Init => IInv
<1> SUFFICES ASSUME Init PROVE IInv
  OBVIOUS
<1>1. Typed
  <2>1. tick \in [Ticks -> TickRecord]
    BY DEF Init, TickRecord, Idle
  <2>2. past \in Past
    BY DEF Init, Past
  <2>3. faults \in 0 .. MaxFaults
    BY FaultsAssumption DEF Init
  <2> QED
    BY <2>1, <2>2, <2>3 DEF Init, Typed
<1>2. Unsaid /\ Quiet /\ NoGhost
  BY DEF Init, Unsaid, Quiet, Serving, NoGhost, Idle
<1>3. Flag
  BY DEF Init, Flag, Idle, Shutting
<1>4. Begun
  BY DEF Init, Begun, Idle, Sent
<1>5. One
  BY DEF Init, One, Idle
<1> QED
  BY <1>1, <1>2, <1>3, <1>4, <1>5 DEF IInv

\* It holds always.
LEMMA Invariance == Spec => []IInv
<1>1. IInv /\ [Next]_vars => IInv'
  BY TypedStep, UnsaidStep, QuietStep, NoGhostStep, FlagStep, BegunStep,
     OneStep DEF IInv
<1> QED
  BY InitIInv, <1>1, PTL DEF Spec

\* The variables stay in their types, and a process that does not run has
\* neither a tick in flight nor a client.
THEOREM TypeCorrect == Spec => []TypeOK
<1>1. IInv => TypeOK
  BY DEF IInv, TypeOK
<1> QED
  BY Invariance, <1>1, PTL

\* One process sends CONTINUE once, unless a second tick had passed the test of
\* AppService.active before the first one cleared it.
THEOREM OneContinue == Spec => []ContinuedOnce
<1>1. IInv => ContinuedOnce
  BY DEF IInv, One, ContinuedOnce, Typed, Past
<1> QED
  BY Invariance, <1>1, PTL

\* No client of the room gateway that was there to be told is cut off by
\* process.exit untold.
THEOREM ClientsAreTold == Spec => ToldBeforeExit
<1>1. IInv /\ [Next]_vars =>
        [\A t \in Ticks, c \in RoomClients : Exit(t) => conn[c] # "fresh"]_vars
  BY DEF IInv, Flag, Exit, Shutting
<1> QED
  BY Invariance, <1>1, PTL DEF Spec, ToldBeforeExit

\* AWS ends the instance under a client of the room gateway that was told
\* nothing only after the hook's timeout or a restart that followed CONTINUE.
THEOREM NoUntoldEnd == Spec => GoneUntold
<1>1. IInv /\ [Next]_vars =>
        [\A c \in RoomClients : Terminate /\ conn[c] = "fresh" =>
            past.overdue \/ past.reborn]_vars
  <2> SUFFICES ASSUME IInv, NEW c \in RoomClients, Terminate, conn[c] = "fresh"
               PROVE  past.overdue \/ past.reborn
    OBVIOUS
  <2>1. active /\ process = "up"
    BY ClientsAssumption DEF IInv, Flag, Quiet, Serving, Typed
  <2> QED
    BY <2>1 DEF IInv, Begun, Terminate
<1> QED
  BY Invariance, <1>1, PTL DEF Spec, GoneUntold
==============================================================================
