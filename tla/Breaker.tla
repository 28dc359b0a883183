---------------------------------- MODULE Breaker ----------------------------------
(***********************************************************************************)
(* The gates that keep a failing upstream from being called: CircuitBreaker        *)
(* (core/resilience.py), used by the whale-flow poll and the Nemotron signal, and  *)
(* the health row and retry loop of JsonConnectorClient (data/connectors/http.py). *)
(* They differ in what the end of a cooldown does: the breaker forgets the         *)
(* failures, the client keeps them and opens again on the next one.                *)
(*                                                                                 *)
(* A breaker's callers are coroutines, whose check or record is one step.  Clients *)
(* of one source share its row between threads, which may switch at any call in    *)
(* between, such as the one that reads the clock; no time passes meanwhile.        *)
(***********************************************************************************)
EXTENDS Integers, Sequences

CONSTANTS
    Callers,       \* calls that may be under way together
    Threshold,     \* failure_threshold
    Cooldown,      \* cooldown_sec, in clock steps
    MaxAttempts    \* max_attempts of a client

ASSUME BreakerAssumption ==
    {Threshold, MaxAttempts} \subseteq Nat \ {0} /\ Cooldown \in Nat

VARIABLES
    gate,          \* "breaker" or "client"
    failures,      \* consecutive failures; counted up to the threshold, which is
                   \* all they are compared with
    openFor,       \* open_until, as the steps that are left; or NotOpen
    calls,         \* per caller, where it is and at which attempt
    recent         \* the last Threshold results, the newest first, and their ages

breakerVars == <<gate, failures, openFor, calls, recent>>

NotOpen == -1

NotCalling == [at |-> "idle", attempt |-> 0]

Trying(n) == [at |-> "trying", attempt |-> n]

BreakerInit ==
    /\ gate \in {"breaker", "client"}
    /\ failures = 0 /\ openFor = NotOpen
    /\ calls = [c \in Callers |-> NotCalling]
    /\ recent = <<>>

Shut == openFor > 0

Lapsed == openFor = 0

-------------------------------------------------------------------------------------
(* is_open and _circuit_open_until.  A call that finds the gate shut is skipped and *)
(* changes nothing.                                                                *)

\* The gate was never shut, or a success or another caller has opened it.
Enter(c) ==
    /\ calls[c] = NotCalling /\ openFor = NotOpen
    /\ calls' = [calls EXCEPT ![c] = Trying(1)]
    /\ UNCHANGED <<gate, failures, openFor, recent>>

EnterLapsed(c) ==
    /\ gate = "breaker" /\ calls[c] = NotCalling /\ Lapsed
    /\ failures' = 0 /\ openFor' = NotOpen
    /\ calls' = [calls EXCEPT ![c] = Trying(1)]
    /\ UNCHANGED <<gate, recent>>

\* A thread has seen open_until set and read the clock.
Peek(c) ==
    /\ gate = "client" /\ calls[c] = NotCalling /\ openFor # NotOpen
    /\ calls' = [calls EXCEPT ![c].at = "peeked"]
    /\ UNCHANGED <<gate, failures, openFor, recent>>

Probe(c) ==
    /\ calls[c].at = "peeked" /\ Lapsed
    /\ openFor' = NotOpen
    /\ calls' = [calls EXCEPT ![c] = Trying(1)]
    /\ UNCHANGED <<gate, failures, recent>>

\* Raises CircuitOpenError; or TypeError, when another thread has cleared open_until.
TurnAway(c) ==
    /\ calls[c].at = "peeked" /\ ~Lapsed
    /\ calls' = [calls EXCEPT ![c] = NotCalling]
    /\ UNCHANGED <<gate, failures, openFor, recent>>

\* health() and refresh_source_health() expire a cooldown as well.
ReportHealth ==
    /\ gate = "client" /\ Lapsed
    /\ openFor' = NotOpen
    /\ UNCHANGED <<gate, failures, calls, recent>>

-------------------------------------------------------------------------------------
(* The upstream call.                                                              *)

Attempts == IF gate = "client" THEN MaxAttempts ELSE 1

Noted(ok) ==
    recent' = SubSeq(<<[ok |-> ok, age |-> 0]>> \o recent, 1,
                     IF Len(recent) < Threshold THEN Len(recent) + 1 ELSE Threshold)

\* A timeout, a transport error or a 5xx, before the last attempt.
Retry(c) ==
    /\ calls[c].at = "trying" /\ calls[c].attempt < Attempts
    /\ calls' = [calls EXCEPT ![c].attempt = @ + 1]
    /\ UNCHANGED <<gate, failures, openFor, recent>>

\* Mutant: a success opens the gate but forgets no failure.
CountAfterSuccessKept == failures

CountAfterSuccess == 0

\* record_success: also by a call that entered before the gate was shut.
Succeed(c) ==
    /\ calls[c].at = "trying"
    /\ failures' = CountAfterSuccess /\ openFor' = NotOpen
    /\ Noted(TRUE)
    /\ calls' = [calls EXCEPT ![c] = NotCalling]
    /\ UNCHANGED gate

CountedUp == failures' = IF failures < Threshold THEN failures + 1 ELSE failures

Failing(c) == calls[c].at = "trying" /\ calls[c].attempt = Attempts

\* record_failure: at and beyond the threshold every failure starts the cooldown anew.
Fail(c) ==
    /\ gate = "breaker" /\ Failing(c)
    /\ CountedUp
    /\ openFor' = IF failures' = Threshold THEN Cooldown ELSE openFor
    /\ Noted(FALSE)
    /\ calls' = [calls EXCEPT ![c] = NotCalling]
    /\ UNCHANGED gate

\* _record_failure, up to the call that formats the error,
CountFailure(c) ==
    /\ gate = "client" /\ Failing(c)
    /\ CountedUp
    /\ Noted(FALSE)
    /\ calls' = [calls EXCEPT ![c].at = "counted"]
    /\ UNCHANGED <<gate, openFor>>

\* up to the call that reads the clock,
Judge(c) ==
    /\ calls[c].at = "counted"
    /\ calls' = IF failures = Threshold THEN [calls EXCEPT ![c].at = "judged"]
                                        ELSE [calls EXCEPT ![c] = NotCalling]
    /\ UNCHANGED <<gate, failures, openFor, recent>>

\* and to its end.
OpenGate(c) ==
    /\ calls[c].at = "judged"
    /\ openFor' = Cooldown
    /\ calls' = [calls EXCEPT ![c] = NotCalling]
    /\ UNCHANGED <<gate, failures, recent>>

\* A 4xx, an unreadable payload or a cancelled coroutine: neither is recorded.
EndUnrecorded(c) ==
    /\ calls[c].at = "trying"
    /\ calls' = [calls EXCEPT ![c] = NotCalling]
    /\ UNCHANGED <<gate, failures, openFor, recent>>

\* No thread is in the middle of a check or a record.
Quiet == \A c \in Callers : calls[c].at \in {"idle", "trying"}

BreakerClock ==
    /\ Quiet
    /\ openFor' = IF Shut THEN openFor - 1 ELSE openFor
    /\ recent' = [i \in DOMAIN recent |->
                    [recent[i] EXCEPT !.age = IF @ < Cooldown THEN @ + 1 ELSE @]]
    /\ UNCHANGED <<gate, failures, calls>>

BreakerNext ==
    \/ ReportHealth \/ BreakerClock
    \/ \E c \in Callers :
          \/ Enter(c) \/ EnterLapsed(c) \/ Peek(c) \/ Probe(c) \/ TurnAway(c)
          \/ Retry(c) \/ Succeed(c) \/ Fail(c) \/ CountFailure(c) \/ Judge(c) \/ OpenGate(c)
          \/ EndUnrecorded(c)

BreakerSpec == BreakerInit /\ [][BreakerNext]_breakerVars

-------------------------------------------------------------------------------------
(* Properties.                                                                     *)

BreakerTypeOK ==
    /\ gate \in {"breaker", "client"}
    /\ failures \in 0..Threshold /\ openFor \in -1..Cooldown
    /\ \A c \in Callers :
          calls[c] \in {NotCalling, [at |-> "peeked", attempt |-> 0]}
                         \cup [at : {"trying", "counted", "judged"}, attempt : 1..MaxAttempts]
    /\ Len(recent) <= Threshold
    /\ \A i \in DOMAIN recent : recent[i].ok \in BOOLEAN /\ recent[i].age \in 0..Cooldown

FailedRow(young) ==
    /\ Len(recent) = Threshold
    /\ \A i \in DOMAIN recent : ~recent[i].ok
    /\ \A i \in 1..young : recent[i].age < Cooldown

\* A gate is shut whenever its last Threshold results are failures younger than a
\* cooldown, whatever late answers of earlier calls, lapses, probes and thread switches
\* did to the two fields.  A breaker is shut only after Threshold failures with no
\* success among them, the last of them that young.  (Not so a client: a thread may set
\* open_until after another has recorded a success.)
ShutExactlyWhileFailing ==
    /\ Quiet /\ FailedRow(Threshold) => Shut
    /\ gate = "breaker" /\ Shut => FailedRow(1)

=====================================================================================
