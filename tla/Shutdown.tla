------------------------------- MODULE Shutdown -------------------------------
(***************************************************************************)
(* The end of one auto scaling instance: the cron job that asks AWS for    *)
(* the instance's lifecycle state, the shutdown it starts, the health      *)
(* check that routes clients, and the process that may die on the way and  *)
(* be started again.  A tick of the job is a record of `tick`:             *)
(*                                                                         *)
(*   asking      Describe, for the lifecycle state                         *)
(*   answered    AWS has answered `said`, the process has not run          *)
(*   group       shutting down: Describe, for the group's name             *)
(*   continuing  CompleteLifecycleAction is on its way to AWS              *)
(*   accepted    AWS has accepted it                                       *)
(*   refused     AWS knows no lifecycle action of the instance any more    *)
(***************************************************************************)
EXTENDS Naturals

CONSTANTS
    Ticks,      \* bound: runs of the cron job that can be in flight together
    Clients,
    RoomClients,\* the clients of the room gateway's namespace, as opposed to the
                \* lobby's and the playlist's
    MaxFaults   \* bound: requests to AWS that fail

ASSUME ClientsAssumption == RoomClients \subseteq Clients
ASSUME FaultsAssumption == MaxFaults \in Nat

VARIABLES
    asg,        \* the instance's lifecycle state at AWS
    process,    \* the server process on the instance
    active,     \* AppService.active
    tick,       \* the runs of the cron job in flight
    orphan,     \* a CompleteLifecycleAction outlived the process that sent it
    routed,     \* the load balancer's last health check went well
    conn,       \* each client's connection: away, told of a shutdown, fresh (not
                \* told), late (made after active was cleared)
    faults,     \* requests that have failed
    past        \* history: what has happened to the instance, see Past

vars == <<asg, process, active, tick, orphan, routed, conn, faults, past>>

\* sent      CompleteLifecycleAction requests sent by the present process
\* raced     another tick was in flight when the present process cleared active
\* reborn    a process was started after one had sent CompleteLifecycleAction
\* begun     some process has sent CompleteLifecycleAction
\* overdue   the lifecycle hook ran into its timeout
Past == [sent: Nat, raced: BOOLEAN, reborn: BOOLEAN,
         begun: BOOLEAN, overdue: BOOLEAN]

Idle == [pc |-> "idle", said |-> "none"]
Busy == {t \in Ticks : tick[t].pc # "idle"}
Shutting == {"group", "continuing", "accepted", "refused"}

Serving == process = "up"

\* The process ends, whatever it was doing; its connections are cut without
\* any handler of theirs being run.
Ends ==
    /\ process' = "down"
    /\ tick' = [t \in Ticks |-> Idle]
    /\ orphan' \in {orphan,
                   orphan \/ \E t \in Ticks : tick[t].pc = "continuing"}
    /\ conn' = [c \in Clients |-> "away"]
    /\ UNCHANGED <<asg, active, routed, past>>

\* The tick ends and the process lives on, the flag as it is; a request that
\* was given up may still reach AWS.
LivesOn(t) ==
    /\ tick' = [tick EXCEPT ![t] = Idle]
    /\ orphan' \in {orphan, orphan \/ tick[t].pc = "continuing"}
    /\ UNCHANGED <<asg, process, active, routed, conn, past>>

------------------------------------------------------------------------------
\* ShutdownService

\* Mutant of Tick: every tick asks, also while the instance is shutting down.
TickAlways(t) ==
    /\ Serving
    /\ tick[t] = Idle
    /\ tick' = [tick EXCEPT ![t].pc = "asking"]
    /\ UNCHANGED <<asg, process, active, orphan, routed, conn, faults, past>>

\* Mutant of Tick: the flag is cleared before the state is known.
TickClears(t) ==
    /\ Serving
    /\ tick[t] = Idle
    /\ active
    /\ active' = FALSE
    /\ tick' = [tick EXCEPT ![t].pc = "asking"]
    /\ UNCHANGED <<asg, process, orphan, routed, conn, faults, past>>

\* checkLifecycleState, up to its await.
Tick(t) ==
    /\ Serving
    /\ tick[t] = Idle
    /\ active
    /\ tick' = [tick EXCEPT ![t].pc = "asking"]
    /\ UNCHANGED <<asg, process, active, orphan, routed, conn, faults, past>>

NotYet(t) ==
    /\ tick[t].pc = "answered"
    /\ tick[t].said # "Wait"
    /\ tick' = [tick EXCEPT ![t] = Idle]
    /\ UNCHANGED <<asg, process, active, orphan, routed, conn, faults, past>>

\* The event goes out in the room gateway's namespace and in no other.
Told == [c \in Clients |-> IF c \in RoomClients /\ conn[c] # "away"
                           THEN "told" ELSE conn[c]]

\* Mutant of Begin: the flag is cleared, the clients are not told.
BeginSilently(t) ==
    /\ tick[t] = [pc |-> "answered", said |-> "Wait"]
    /\ active' = FALSE
    /\ tick' = [tick EXCEPT ![t] = [pc |-> "group", said |-> "none"]]
    /\ past' = [past EXCEPT !.raced = @ \/ (active /\ Busy # {t})]
    /\ UNCHANGED <<asg, process, orphan, routed, conn, faults>>

\* Mutant of Begin: the flag stays set.
BeginActive(t) ==
    /\ tick[t] = [pc |-> "answered", said |-> "Wait"]
    /\ tick' = [tick EXCEPT ![t] = [pc |-> "group", said |-> "none"]]
    /\ conn' = Told
    /\ past' = [past EXCEPT !.raced = @ \/ (active /\ Busy # {t})]
    /\ UNCHANGED <<asg, process, active, orphan, routed, faults>>

\* shutdown, up to the group's name: neither wait waits, since sleep does not
\* return its promise, so nothing else runs between the flag and the event.
Begin(t) ==
    /\ tick[t] = [pc |-> "answered", said |-> "Wait"]
    /\ active' = FALSE
    /\ tick' = [tick EXCEPT ![t] = [pc |-> "group", said |-> "none"]]
    /\ conn' = Told
    /\ past' = [past EXCEPT !.raced = @ \/ (active /\ Busy # {t})]
    /\ UNCHANGED <<asg, process, orphan, routed, faults>>

\* continueInstanceTerminatingState, when the group's name is there.
Continue(t) ==
    /\ tick[t].pc = "group"
    /\ tick' = [tick EXCEPT ![t].pc = "continuing"]
    /\ past' = [past EXCEPT !.sent = @ + 1, !.begun = TRUE]
    /\ UNCHANGED <<asg, process, active, orphan, routed, conn, faults>>

\* app.close() is called and not awaited, process.exit(0) follows at once.
Exit(t) == tick[t].pc = "accepted" /\ Ends /\ UNCHANGED faults

\* Nothing in the code handles a rejection in the job.  Left to Node 16 it
\* ends the process; a process manager that listens for unhandled rejections,
\* as pm2 does in the cluster mode of app.json, lets it live on.
Reject(t) ==
    /\ tick[t].pc = "refused"
    /\ Ends \/ LivesOn(t)
    /\ UNCHANGED faults

------------------------------------------------------------------------------
\* AWS, and whatever starts the process again

ScaleIn ==
    /\ asg = "InService"
    /\ asg' = "Wait"
    /\ UNCHANGED <<process, active, tick, orphan, routed, conn, faults, past>>

Describe(t) ==
    /\ tick[t].pc = "asking"
    /\ tick' = [tick EXCEPT ![t] = [pc |-> "answered", said |-> asg]]
    /\ UNCHANGED <<asg, process, active, orphan, routed, conn, faults, past>>

CompleteLifecycleAction(t) ==
    /\ tick[t].pc = "continuing"
    /\ asg' = IF asg = "Wait" THEN "Proceed" ELSE asg
    /\ tick' = [tick EXCEPT ![t].pc = IF asg = "Wait" THEN "accepted"
                                      ELSE "refused"]
    /\ UNCHANGED <<process, active, orphan, routed, conn, faults, past>>

CompleteOrphan ==
    /\ orphan
    /\ orphan' = FALSE
    /\ asg' = IF asg = "Wait" THEN "Proceed" ELSE asg
    /\ UNCHANGED <<process, active, tick, routed, conn, faults, past>>

HookExpires ==
    /\ asg = "Wait"
    /\ asg' = "Proceed"
    /\ past' = [past EXCEPT !.overdue = TRUE]
    /\ UNCHANGED <<process, active, tick, orphan, routed, conn, faults>>

\* Mutant of Terminate: the process outlives its instance.
TerminateOutlived ==
    /\ asg = "Proceed"
    /\ asg' = "Gone"
    /\ UNCHANGED <<process, active, tick, orphan, routed, conn, faults, past>>

Terminate ==
    /\ asg = "Proceed"
    /\ asg' = "Gone"
    /\ process' = "down"
    /\ tick' = [t \in Ticks |-> Idle]
    /\ conn' = [c \in Clients |-> "away"]
    /\ orphan' = FALSE
    /\ UNCHANGED <<active, routed, faults, past>>

\* A request fails, or its answer is lost: see Reject.
AwsFails(t) ==
    /\ tick[t].pc \in {"asking", "group", "continuing"}
    /\ faults < MaxFaults
    /\ faults' = faults + 1
    /\ Ends \/ LivesOn(t)

\* The process is started again, by a supervisor or by hand: the repository
\* names none for the environment in which the job runs.
Restart ==
    /\ process = "down"
    /\ asg # "Gone"
    /\ process' = "up"
    /\ active' = TRUE
    /\ past' = [past EXCEPT !.sent = 0, !.raced = FALSE, !.reborn = past.begun]
    /\ UNCHANGED <<asg, tick, orphan, routed, conn, faults>>

\* onModuleInit's own requests fail: bootstrap logs the error, and the process
\* stays, held by its Redis connections, with no job and no open port.
RestartFails ==
    /\ process = "down"
    /\ asg # "Gone"
    /\ faults < MaxFaults
    /\ faults' = faults + 1
    /\ process' = "stuck"
    /\ active' = TRUE
    /\ past' = [past EXCEPT !.sent = 0, !.raced = FALSE, !.reborn = past.begun]
    /\ UNCHANGED <<asg, tick, orphan, routed, conn>>

------------------------------------------------------------------------------
\* Clients and the load balancer.

\* getWelcomeMessage is the health check.
HealthCheck ==
    /\ routed' = (Serving /\ active)
    /\ UNCHANGED <<asg, process, active, tick, orphan, conn, faults, past>>

Connect(c) ==
    /\ Serving /\ routed
    /\ conn[c] = "away"
    /\ conn' = [conn EXCEPT ![c] = IF active THEN "fresh" ELSE "late"]
    /\ UNCHANGED <<asg, process, active, tick, orphan, routed, faults, past>>

Disconnect(c) ==
    /\ conn[c] # "away"
    /\ conn' = [conn EXCEPT ![c] = "away"]
    /\ UNCHANGED <<asg, process, active, tick, orphan, routed, faults, past>>

------------------------------------------------------------------------------
Init ==
    /\ asg = "InService"
    /\ process = "up"
    /\ active = TRUE
    /\ tick = [t \in Ticks |-> Idle]
    /\ orphan = FALSE
    /\ routed = TRUE
    /\ conn = [c \in Clients |-> "away"]
    /\ faults = 0
    /\ past = [sent |-> 0, raced |-> FALSE, reborn |-> FALSE, begun |-> FALSE,
               overdue |-> FALSE]

\* What becomes of tick t without a fault.
Progress(t) ==
    \/ NotYet(t) \/ Begin(t) \/ Continue(t) \/ Exit(t) \/ Reject(t)
    \/ Describe(t) \/ CompleteLifecycleAction(t)

Next ==
    \/ \E t \in Ticks : Tick(t) \/ Progress(t) \/ AwsFails(t)
    \/ ScaleIn \/ CompleteOrphan \/ HookExpires \/ Terminate
    \/ Restart \/ RestartFails
    \/ HealthCheck
    \/ \E c \in Clients : Connect(c) \/ Disconnect(c)

Spec == Init /\ [][Next]_vars

\* The job ticks every ten seconds, AWS answers, and it ends an instance that
\* may proceed.  Nothing is assumed of a restart, nor of the hook's timeout,
\* which a shutdown is there to avoid.
FairSpec == /\ Spec
            /\ WF_vars(\E t \in Ticks : Tick(t))
            /\ \A t \in Ticks : WF_vars(Progress(t))
            /\ WF_vars(Terminate)

------------------------------------------------------------------------------
(***************************************************************************)
(* Properties.                                                             *)
(***************************************************************************)
TickRecord == [pc: {"idle", "asking", "answered"} \cup Shutting,
               said: {"none", "InService", "Wait", "Proceed"}]

Typed ==
    /\ asg \in {"InService", "Wait", "Proceed", "Gone"}
    /\ process \in {"up", "down", "stuck"}
    /\ active \in BOOLEAN
    /\ tick \in [Ticks -> TickRecord]
    /\ orphan \in BOOLEAN
    /\ routed \in BOOLEAN
    /\ conn \in [Clients -> {"away", "fresh", "late", "told"}]
    /\ faults \in 0 .. MaxFaults
    /\ past \in Past

Quiet == ~Serving => /\ \A t \in Ticks : tick[t] = Idle
                     /\ \A c \in Clients : conn[c] = "away"

\* The variables stay in their types, and a process that does not run has
\* neither a tick in flight nor a client.
TypeOK == Typed /\ Quiet

\* A process that exits at the end of a shutdown cuts no client of the room
\* gateway off that was there to be told and was not: with one tick or two in
\* flight, whoever is still connected has had SERVER_SHUTDOWN or came after it
\* was sent.  Clients of the lobby and the playlist are cut off untold.
ToldBeforeExit ==
    [][\A t \in Ticks, c \in RoomClients : Exit(t) => conn[c] # "fresh"]_vars

\* AWS takes an instance away from under a client of the room gateway that
\* never heard of a shutdown only if the lifecycle hook ran into its timeout,
\* or if the process was started again, active, after CONTINUE had been sent.
GoneUntold ==
    [][\A c \in RoomClients : Terminate /\ conn[c] = "fresh" =>
          past.overdue \/ past.reborn]_vars

\* One process continues the lifecycle once, unless two ticks had both passed
\* the test of the flag before it was cleared.
ContinuedOnce == past.sent > 1 => past.raced

\* The flag is down and no tick is left to finish the shutdown: no other will
\* ever start one.
Stranded == ~active /\ Busy = {}

\* An instance that is to terminate is handed over and goes, whatever ticks
\* overlap and although requests fail: only a failed request can leave the
\* instance to the hook's timeout, by ending the process, by keeping it from
\* starting, or by breaking a shutdown off after it cleared the flag.
HandedOver == asg = "Wait" ~>
    asg = "Gone" \/ (faults > 0 /\ (~Serving \/ Stranded))

\* "1. wait until health check fail", before the clients are told.
HealthCheckFailsFirst ==
    \A t \in Ticks : tick[t].pc \in Shutting => ~routed
==============================================================================
