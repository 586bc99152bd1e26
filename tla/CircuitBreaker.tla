---------------------------- MODULE CircuitBreaker ----------------------------
(***************************************************************************)
(* The circuit breaker of the shared library, one per called service, and   *)
(* withRetry around the calls it guards. Several calls run at a time: their *)
(* results come in any order, also after the breaker has opened.            *)
(*                                                                         *)
(* Time is one bit: whether resetTimeout has passed since the last failure. *)
(* A call that outlives the timeout of the breaker has failed for it, and   *)
(* its late result is ignored.                                              *)
(***************************************************************************)
EXTENDS Integers, FiniteSets

CONSTANTS
    Calls,            \* callers that use the breaker at a time
    ErrorThreshold,   \* percent of failures that opens it
    VolumeThreshold,  \* results it wants to have seen before
    MaxRetries,       \* of withRetry
    MaxTotal          \* bound on the results that are counted

BreakerAssumption ==
    /\ ErrorThreshold \in 1..100
    /\ {VolumeThreshold, MaxRetries, MaxTotal} \subseteq Nat

VARIABLES
    state,            \* of the breaker
    failureCount,     \* failures since the last success
    totalCount,       \* results since it was made
    cooled,           \* resetTimeout has passed since the last failure
    call,             \* what each caller does, and at which attempt
    late              \* history: a result came in while it was open

vars == <<state, failureCount, totalCount, cooled, call, late>>

CircuitState == {"CLOSED", "OPEN", "HALF_OPEN"}

TypeOK ==
    /\ state \in CircuitState
    /\ failureCount \in 0..totalCount /\ totalCount \in 0..MaxTotal
    /\ cooled \in BOOLEAN /\ late \in BOOLEAN
    /\ call \in [Calls -> [pc : {"idle", "run", "wait"}, attempt : 0..MaxRetries]]

Idle == [pc |-> "idle", attempt |-> 0]

Init ==
    /\ state = "CLOSED" /\ failureCount = 0 /\ totalCount = 0
    /\ cooled = FALSE /\ late = FALSE
    /\ call = [c \in Calls |-> Idle]

\* What withRetry does of an attempt that failed: it waits for the next one or throws.
Attempted(c) ==
    IF call[c].attempt = MaxRetries
    THEN [call EXCEPT ![c] = Idle]
    ELSE [call EXCEPT ![c] = [pc |-> "wait", attempt |-> @.attempt + 1]]

\* A caller enters withRetry.
Start(c) ==
    /\ call[c].pc = "idle"
    /\ call' = [call EXCEPT ![c].pc = "wait"]
    /\ UNCHANGED <<state, failureCount, totalCount, cooled, late>>

\* Mutant of Execute: a probe starts with no failures counted.
ExecuteForgets(c) ==
    /\ call[c].pc = "wait"
    /\ IF state = "OPEN" /\ ~cooled
       THEN UNCHANGED <<state, failureCount>> /\ call' = Attempted(c)
       ELSE /\ state' = (IF state = "OPEN" THEN "HALF_OPEN" ELSE state)
            /\ failureCount' = (IF state = "OPEN" THEN 0 ELSE failureCount)
            /\ call' = [call EXCEPT ![c].pc = "run"]
    /\ UNCHANGED <<totalCount, cooled, late>>

\* execute up to the operation: an open breaker throws until it has cooled.
Execute(c) ==
    /\ call[c].pc = "wait"
    /\ IF state = "OPEN" /\ ~cooled
       THEN UNCHANGED state /\ call' = Attempted(c)
       ELSE /\ state' = (IF state = "OPEN" THEN "HALF_OPEN" ELSE state)
            /\ call' = [call EXCEPT ![c].pc = "run"]
    /\ UNCHANGED <<failureCount, totalCount, cooled, late>>

onSuccess(c) ==
    /\ call[c].pc = "run" /\ totalCount < MaxTotal
    /\ failureCount' = 0 /\ totalCount' = totalCount + 1
    /\ state' = IF state = "HALF_OPEN" THEN "CLOSED" ELSE state
    /\ late' = (late \/ state = "OPEN")
    /\ call' = [call EXCEPT ![c] = Idle]
    /\ UNCHANGED cooled

Opens(failures, total) ==
    total >= VolumeThreshold /\ failures * 100 >= ErrorThreshold * total

onFailure(c) ==
    /\ call[c].pc = "run" /\ totalCount < MaxTotal
    /\ failureCount' = failureCount + 1 /\ totalCount' = totalCount + 1
    /\ cooled' = FALSE
    /\ state' = IF Opens(failureCount', totalCount') THEN "OPEN" ELSE state
    /\ late' = (late \/ state = "OPEN")
    /\ call' = Attempted(c)

\* resetTimeout passes.
Cool ==
    /\ ~cooled /\ state = "OPEN"
    /\ cooled' = TRUE
    /\ UNCHANGED <<state, failureCount, totalCount, call, late>>

Next ==
    \/ \E c \in Calls : Start(c) \/ Execute(c) \/ onSuccess(c) \/ onFailure(c)
    \/ Cool

Spec == Init /\ [][Next]_vars

\* A probe that fails opens the breaker again, as long as no earlier call succeeded or
\* failed while it was open: then the failures since the last success are still those
\* that opened it.
ProbeReopens ==
    state = "HALF_OPEN" /\ failureCount' > failureCount /\ ~late => state' = "OPEN"
FailedProbeReopens == [][ProbeReopens]_vars

===============================================================================
