------------------------------- MODULE Daemon -------------------------------
(***************************************************************************)
(* The daemon's process: main.rs, shutdown.rs and the shutdown handler.    *)
(* Several may be launched with one configuration, hence one data          *)
(* directory and one socket path.  sled locks the database while a process *)
(* has it open.  Nothing removes the socket at the end of a daemon: the    *)
(* next one does, before it binds the path.                                *)
(***************************************************************************)
EXTENDS Naturals, FiniteSets

CONSTANTS
  Daemons,      \* launched daemons
  MaxRequests,  \* bound: requests in the hands of one daemon
  NoDaemon      \* no process

ASSUME DaemonAssumption == MaxRequests \in Nat /\ NoDaemon \notin Daemons

VARIABLES
  dbLock,       \* the process that has the database open
  socketFile,   \* the process whose listener the socket path leads to, dead or
                \* alive, or NoDaemon when there is no such file
  daemons       \* daemon -> [pc, subscribed, requests]

daemonVars == <<dbLock, socketFile, daemons>>

NotRunning == [pc |-> "off", subscribed |-> FALSE, requests |-> 0]

\* The daemon accepts connections until its grace period is over.
Accepting == {"serving", "cleanup"}
Goto(d, pc) == daemons' = [daemons EXCEPT ![d].pc = pc]

DaemonInit ==
  /\ dbLock = NoDaemon /\ socketFile = NoDaemon
  /\ daemons = [d \in Daemons |-> NotRunning]

\* The process is gone, and with it its lock; the socket file is not.
Ended(d) ==
  /\ daemons' = [daemons EXCEPT ![d] = NotRunning]
  /\ dbLock' = IF dbLock = d THEN NoDaemon ELSE dbLock
  /\ UNCHANGED socketFile

\* mutant: the database opens for every process
OpensForAll(d) == TRUE

\* sled::open fails if another process has the database open.
Opens(d) == dbLock = NoDaemon

OpenDatabase(d) ==
  /\ daemons[d].pc = "off" /\ Opens(d)
  /\ dbLock' = d /\ Goto(d, "opened") /\ UNCHANGED socketFile

\* AppState::new goes on and initialize sets up the handlers, or one of them
\* fails and with it the process.
Initialize(d) ==
  /\ daemons[d].pc = "opened"
  /\ \/ Goto(d, "initialized") /\ UNCHANGED <<dbLock, socketFile>>
     \/ Ended(d)

RemoveSocket(d) ==
  /\ daemons[d].pc = "initialized" /\ socketFile' = NoDaemon
  /\ Goto(d, "unlinked") /\ UNCHANGED dbLock

\* bind fails on a path that exists, and for other reasons.
BindSocket(d) ==
  /\ daemons[d].pc = "unlinked"
  /\ \/ socketFile = NoDaemon /\ socketFile' = d /\ Goto(d, "serving") /\ UNCHANGED dbLock
     \/ Ended(d)

\* The task that waits for a reason to shut down, spawned when the server
\* starts, subscribes to requests to.
SubscribeShutdown(d) ==
  /\ daemons[d].pc = "serving" /\ ~daemons[d].subscribed
  /\ daemons' = [daemons EXCEPT ![d].subscribed = TRUE] /\ UNCHANGED <<dbLock, socketFile>>

AcceptRequest(d) ==
  /\ daemons[d].pc \in Accepting /\ socketFile = d /\ daemons[d].requests < MaxRequests
  /\ daemons' = [daemons EXCEPT ![d].requests = @ + 1] /\ UNCHANGED <<dbLock, socketFile>>

AnswerRequest(d) ==
  /\ daemons[d].requests > 0
  /\ daemons' = [daemons EXCEPT ![d].requests = @ - 1] /\ UNCHANGED <<dbLock, socketFile>>

AfterRequest(d) ==
  IF daemons[d].pc = "serving" /\ daemons[d].subscribed THEN "cleanup" ELSE daemons[d].pc

\* The shutdown request, which is answered the same whether or not the task
\* has subscribed; if it has, the grace period begins.
RequestShutdown(d) ==
  /\ daemons[d].requests > 0
  /\ daemons' = [daemons EXCEPT ![d].requests = @ - 1, ![d].pc = AfterRequest(d)]
  /\ UNCHANGED <<dbLock, socketFile>>

\* A signal does the same.
Signal(d) ==
  /\ daemons[d].pc = "serving" /\ daemons[d].subscribed
  /\ Goto(d, "cleanup") /\ UNCHANGED <<dbLock, socketFile>>

\* It is over: the server stops accepting and waits for what it accepted.
StopAccepting(d) ==
  /\ daemons[d].pc = "cleanup" /\ Goto(d, "draining") /\ UNCHANGED <<dbLock, socketFile>>

Exit(d) == daemons[d].pc = "draining" /\ daemons[d].requests = 0 /\ Ended(d)

KillProcess(d) == daemons[d].pc # "off" /\ Ended(d)

DaemonNext ==
  \E d \in Daemons :
    \/ OpenDatabase(d) \/ Initialize(d) \/ RemoveSocket(d) \/ BindSocket(d)
    \/ SubscribeShutdown(d) \/ AcceptRequest(d) \/ AnswerRequest(d) \/ RequestShutdown(d)
    \/ Signal(d) \/ StopAccepting(d) \/ Exit(d) \/ KillProcess(d)

DaemonSpec == DaemonInit /\ [][DaemonNext]_daemonVars

-----------------------------------------------------------------------------
(* Properties.                                                              *)

\* While a daemon accepts requests the socket path leads to it, however many
\* are launched beside it or die: no other one removes or rebinds its
\* socket, because only the one that has the database open gets that far.
SocketIsServed ==
  \A d \in Daemons : daemons[d].pc \in Accepting => socketFile = d

=============================================================================
