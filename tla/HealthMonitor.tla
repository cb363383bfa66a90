--------------------------- MODULE HealthMonitor ----------------------------
(***************************************************************************)
(* The health monitor of fabricksd, health/monitor.rs: a loop that runs    *)
(* the checks that are due one after the other, callers of check_now, and  *)
(* services registered and unregistered meanwhile.  A check is an HTTP     *)
(* request: its result is recorded, by service id, when it is answered.    *)
(***************************************************************************)
EXTENDS Naturals, Sequences, SequencesExt

CONSTANTS
  Checked,       \* services with a health check
  Checkers,      \* the loop, and tasks that call check_now
  Loop,          \* the loop among them
  HistoryLength, \* max_history
  MaxFailures,   \* bound: consecutive failures counted
  NoService      \* no service

ASSUME HealthAssumption == HistoryLength \in Nat /\ Loop \in Checkers

VARIABLES
  registrations,   \* service -> whether its check is due
  health,          \* service -> [status, failures, history]
  checks,          \* checker -> [pc, svc, todo]
  registering      \* the register or unregister between its two locks

healthVars == <<registrations, health, checks, registering>>

NoCheck == [pc |-> "idle", svc |-> NoService, todo |-> {}]
NotRegistering == [kind |-> "none", svc |-> NoService]
NewHealth == [status |-> "unknown", failures |-> 0, history |-> <<>>]
With(f, s, x) == [y \in DOMAIN f \cup {s} |-> IF y = s THEN x ELSE f[y]]
Without(f, s) == [y \in DOMAIN f \ {s} |-> f[y]]

HealthInit ==
  /\ registrations = [s \in {} |-> FALSE] /\ health = [s \in {} |-> NewHealth]
  /\ checks = [c \in Checkers |-> NoCheck] /\ registering = NotRegistering

\* register and unregister hold the lock of the registrations until they
\* have the one of the health states too.
Registrable == registering = NotRegistering

Register(s) ==
  /\ Registrable /\ registrations' = With(registrations, s, TRUE)
  /\ registering' = [kind |-> "register", svc |-> s] /\ UNCHANGED <<health, checks>>

Unregister(s) ==
  /\ Registrable /\ registrations' = Without(registrations, s)
  /\ registering' = [kind |-> "unregister", svc |-> s] /\ UNCHANGED <<health, checks>>

SetHealth ==
  /\ ~Registrable /\ registering' = NotRegistering
  /\ health' = IF registering.kind = "register"
               THEN With(health, registering.svc, NewHealth)
               ELSE Without(health, registering.svc)
  /\ UNCHANGED <<registrations, checks>>

\* The interval of a check has passed.
Due(s) ==
  /\ Registrable /\ s \in DOMAIN registrations
  /\ registrations' = [registrations EXCEPT ![s] = TRUE]
  /\ UNCHANGED <<health, checks, registering>>

\* run_due_checks copies the registrations that are due.
CollectDue ==
  /\ checks[Loop].pc = "idle" /\ Registrable
  /\ checks' = [checks EXCEPT ![Loop].pc = "next",
                              ![Loop].todo = {s \in DOMAIN registrations : registrations[s]}]
  /\ UNCHANGED <<registrations, health, registering>>

\* The next check of the loop is sent, or the tick is over.
NextCheck ==
  /\ checks[Loop].pc = "next"
  /\ \/ \E s \in checks[Loop].todo :
          checks' = [checks EXCEPT ![Loop] = [pc |-> "sent", svc |-> s, todo |-> @.todo \ {s}]]
     \/ checks[Loop].todo = {} /\ checks' = [checks EXCEPT ![Loop] = NoCheck]
  /\ UNCHANGED <<registrations, health, registering>>

\* check_now copies one registration.
CheckNow(c, s) ==
  /\ c # Loop /\ checks[c].pc = "idle" /\ Registrable /\ s \in DOMAIN registrations
  /\ checks' = [checks EXCEPT ![c] = [pc |-> "sent", svc |-> s, todo |-> {}]]
  /\ UNCHANGED <<registrations, health, registering>>

Failed(h) == [h EXCEPT !.status = "unhealthy", !.failures = @ + 1]

\* ServiceHealth::record.
RecordResult(h, healthy) ==
  LET counted == IF healthy THEN [h EXCEPT !.status = "healthy", !.failures = 0]
                 ELSE Failed(h)
      history == Append(h.history, healthy) IN
  [counted EXCEPT !.history = IF Len(history) > HistoryLength THEN Tail(history) ELSE history]

\* mutant: a result is recorded whether or not the service is still there
AnyHealth(s) == Checked

\* The services whose result can be recorded.
Recordable(s) == DOMAIN health

\* The check is answered, or times out, and recorded if the service has a
\* health state, be it that of a later registration.
RecordCheck(c) ==
  LET s == checks[c].svc IN
  /\ checks[c].pc = "sent"
  /\ \E healthy \in BOOLEAN :
       /\ (s \in DOMAIN health /\ health[s].failures = MaxFailures) => healthy
       /\ health' = IF s \in Recordable(s)
                    THEN With(health, s, RecordResult(IF s \in DOMAIN health THEN health[s]
                                                      ELSE NewHealth, healthy))
                    ELSE health
  /\ checks' = [checks EXCEPT ![c] = IF c = Loop THEN [@ EXCEPT !.pc = "schedule"] ELSE NoCheck]
  /\ UNCHANGED <<registrations, registering>>

\* The loop schedules the next check of the service if it is registered.
Reschedule ==
  LET s == checks[Loop].svc IN
  /\ checks[Loop].pc = "schedule" /\ Registrable
  /\ registrations' = IF s \in DOMAIN registrations
                      THEN [registrations EXCEPT ![s] = FALSE] ELSE registrations
  /\ checks' = [checks EXCEPT ![Loop].pc = "next", ![Loop].svc = NoService]
  /\ UNCHANGED <<health, registering>>

MarkStarting(s) ==
  /\ s \in DOMAIN health /\ health' = [health EXCEPT ![s].status = "starting"]
  /\ UNCHANGED <<registrations, checks, registering>>

HealthNext ==
  \/ \E s \in Checked : \/ Register(s) \/ Unregister(s) \/ Due(s) \/ MarkStarting(s)
                        \/ \E c \in Checkers : CheckNow(c, s)
  \/ SetHealth \/ CollectDue \/ NextCheck \/ Reschedule
  \/ \E c \in Checkers : RecordCheck(c)

HealthSpec == HealthInit /\ [][HealthNext]_healthVars

-----------------------------------------------------------------------------
(* Properties.                                                              *)

\* A service has a health state exactly if it is registered, whatever result
\* of a check arrives after it was unregistered; and the consecutive failures
\* that should_restart goes by are those its history ends with, as far as it
\* goes back.
HealthIsRegistered ==
  /\ Registrable => DOMAIN health = DOMAIN registrations
  /\ \A s \in DOMAIN health :
       LET results == health[s].history
           streak == {n \in 0..Len(results) : \A i \in 1..n : ~results[Len(results) + 1 - i]}
           longest == CHOOSE n \in streak : \A k \in streak : k <= n IN
       IF longest = Len(results) THEN health[s].failures >= longest
       ELSE health[s].failures = longest

=============================================================================
