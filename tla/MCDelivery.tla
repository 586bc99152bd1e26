----------------------------- MODULE MCDelivery -----------------------------
(***************************************************************************)
(* Three things that the delivery of events and calls decides, each        *)
(* checked on its own (focus): the profiles that appear when an account    *)
(* is verified (Onboarding), the bus of src/shared with its retries        *)
(* (EventBus), and its circuit breaker (CircuitBreaker), whose variables   *)
(* are b1 to b8; those of another focus stay 0.                            *)
(***************************************************************************)
EXTENDS Onboarding

CONSTANTS
    Queues, Events,                  \* of EventBus
    BusRetries,                      \* its MaxRetries
    ErrorThreshold, VolumeThreshold, \* of CircuitBreaker
    BreakerRetries,                  \* MaxRetries of its withRetry
    MaxTotal

VARIABLES focus, b1, b2, b3, b4, b5, b6, b7, b8

Profiles == <<role, base, settings, baseMsg, ready, detailMsg, call, queue, everReady,
              clean, faults, restarts>>
Transport == <<b1, b2, b3, b4, b5, b6, b7, b8>>

Bus == INSTANCE EventBus WITH
    queue <- b1, unacked <- b2, timers <- b3, published <- b4, handled <- b5,
    failed <- b6, lost <- b7, restarts <- b8, MaxRetries <- BusRetries

Breaker == INSTANCE CircuitBreaker WITH
    state <- b1, failureCount <- b2, totalCount <- b3, cooled <- b4, call <- b5, late <- b6,
    Calls <- Requests, MaxRetries <- BreakerRetries

ASSUME TransportAssumption == Bus!BusAssumption /\ Breaker!BreakerAssumption

NoProfiles ==
    /\ role = 0 /\ base = 0 /\ settings = 0 /\ baseMsg = 0 /\ ready = 0 /\ detailMsg = 0
    /\ call = 0 /\ queue = 0 /\ everReady = 0 /\ clean = 0 /\ faults = 0 /\ restarts = 0

DeliveryInit ==
    \/ /\ focus = "onboarding" /\ Init
       /\ b1 = 0 /\ b2 = 0 /\ b3 = 0 /\ b4 = 0 /\ b5 = 0 /\ b6 = 0 /\ b7 = 0 /\ b8 = 0
    \/ focus = "bus" /\ Bus!Init /\ NoProfiles
    \/ focus = "breaker" /\ Breaker!Init /\ NoProfiles /\ b7 = 0 /\ b8 = 0

OnboardingNext == focus = "onboarding" /\ Next /\ UNCHANGED <<focus, Transport>>
BusNext == focus = "bus" /\ Bus!Next /\ UNCHANGED <<focus, Profiles>>
BreakerNext == focus = "breaker" /\ Breaker!Next /\ UNCHANGED <<focus, Profiles, b7, b8>>
BusWorking(q) == focus = "bus" /\ Bus!Working(q) /\ UNCHANGED <<focus, Profiles>>

all == <<focus, Profiles, Transport>>
Creating(A) == focus = "onboarding" /\ A /\ UNCHANGED <<focus, Transport>>

\* The fairness of Onboarding and of EventBus, each while it is in focus.
DeliverySpec ==
    /\ DeliveryInit
    /\ [][OnboardingNext \/ BusNext \/ BreakerNext]_all
    /\ WF_all(Creating(CreateBase)) /\ WF_all(Creating(CreateSettings))
    /\ WF_all(Creating(CreateStudent \/ CreateCompany \/ CreateSupervisor))
    /\ \A r \in Requests : WF_all(Creating(PostSettings(r)))
    /\ \A q \in Queues : WF_all(BusWorking(q))

\* Onboarding: the flag of the base profile was earned and follows the profile of the
\* role, and a base profile has its settings.
ProfilesFollow ==
    focus = "onboarding" => TypeOK /\ FlagFollowsProfile /\ FlagWasEarned /\ ProfileHasSettings

\* EventBus: no event disappears from a queue before its handler failed all its tries,
\* but by a restart that lost its retry.
NothingForgotten ==
    /\ focus = "bus" => Bus!TypeOK /\ Bus!NothingForgotten
    /\ focus = "breaker" => Breaker!TypeOK

\* Onboarding: a verified account gets both of its profiles.
EveryoneIsServed == <>(focus = "onboarding" => Served)

\* EventBus: every event comes to rest.
BusSettles == [](focus = "bus" /\ Bus!AllOut => <>[](focus = "bus" => Bus!AtRest))

\* CircuitBreaker: a probe that fails opens it again.
FailedProbeReopens == [][focus = "breaker" => Breaker!ProbeReopens]_all
=============================================================================
