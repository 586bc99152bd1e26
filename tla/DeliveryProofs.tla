--------------------------- MODULE DeliveryProofs ---------------------------
(***************************************************************************)
(* Theorems about what events and calls deliver, for every number of        *)
(* requests, queues and events and every value of the limits: nothing is    *)
(* forgotten by the bus, a probe that fails opens the circuit breaker, and  *)
(* the profiles of a verified person and the flag that follows them.        *)
(***************************************************************************)
EXTENDS MCDelivery, SequenceTheorems, TLAPS

(***************************************************************************)
(* Bags: what is in them, whatever the number of copies                    *)
(***************************************************************************)
LEMMA AddDomain ==
    ASSUME NEW B, NEW x
    PROVE  DOMAIN Bus!Copies!BagAdd(B, x) = DOMAIN B \cup {x}
BY DEF Bus!Copies!BagAdd

LEMMA RemoveDomain ==
    ASSUME NEW B, NEW x
    PROVE  /\ DOMAIN Bus!Copies!BagRemove(B, x) \subseteq DOMAIN B
           /\ DOMAIN B \subseteq DOMAIN Bus!Copies!BagRemove(B, x) \cup {x}
BY DEF Bus!Copies!BagRemove

LEMMA UnionDomain ==
    ASSUME NEW B, NEW C
    PROVE  DOMAIN Bus!(+)(B, C) = DOMAIN B \cup DOMAIN C
BY DEF Bus!(+)

LEMMA EmptyDomain == DOMAIN Bus!EmptyBag = {}
BY DEF Bus!EmptyBag, Bus!SetToBag

(***************************************************************************)
(* EventBus: nothing is forgotten                                          *)
(***************************************************************************)
\* One bag, or one history, per queue.
Placed == DOMAIN b1 = Queues /\ DOMAIN b2 = Queues /\ DOMAIN b3 = Queues

BusInv == Bus!TypeOK /\ Placed /\ Bus!NothingForgotten

\* The bags of one queue and its histories, in place of the fields of NothingForgotten.
Reached(e, place, done, fails) ==
    \/ e \in done
    \/ \E m \in place : /\ m.event = e
                        /\ \A k \in 0..(m.retries - 1) : [event |-> e, retries |-> k] \in fails
    \/ \A k \in 0..((BusRetries + 1) - 1) : [event |-> e, retries |-> k] \in fails

Places(q) == DOMAIN b1[q] \cup DOMAIN b2[q] \cup DOMAIN b3[q]

LEMMA ForgottenByQueue ==
    Bus!NothingForgotten <=>
        \A q \in Queues : \A e \in b4 \ b7[q] : Reached(e, Places(q), b5[q], b6[q])
BY DEF Bus!NothingForgotten, Bus!Pending, Bus!FailedFirst, Bus!RABBITMQ_CONFIG, Reached, Places

LEMMA ForgottenNext ==
    ASSUME \A q \in Queues : \A e \in b4' \ b7'[q] : Reached(e, Places(q)', b5'[q], b6'[q])
    PROVE  Bus!NothingForgotten'
BY DEF Bus!NothingForgotten, Bus!Pending, Bus!FailedFirst, Bus!RABBITMQ_CONFIG, Reached, Places

\* What is handled, kept and failed may grow.
LEMMA ReachedMore ==
    ASSUME NEW e, NEW P, NEW D, NEW F, NEW P2, NEW D2, NEW F2, Reached(e, P, D, F),
           P \subseteq P2, D \subseteq D2, F \subseteq F2
    PROVE  Reached(e, P2, D2, F2)
BY DEF Reached

LEMMA BusInit == Bus!Init => BusInv
<1> SUFFICES ASSUME Bus!Init PROVE BusInv
  OBVIOUS
<1>1. Placed
  BY DEF Bus!Init, Placed
<1>2. \A q \in Queues : DOMAIN b1[q] = {} /\ DOMAIN b2[q] = {} /\ DOMAIN b3[q] = {}
  BY EmptyDomain DEF Bus!Init
<1>3. b8 \in 0..MaxRestarts
  BY OnboardingAssumption DEF Bus!Init
<1>4. Bus!TypeOK
  BY <1>2, <1>3 DEF Bus!Init, Bus!TypeOK
<1> QED BY <1>1, <1>4 DEF BusInv, Bus!Init, Bus!NothingForgotten

LEMMA BusPublish ==
    ASSUME BusInv, NEW e \in Events, Bus!Publish(e)
    PROVE  BusInv'
<1> DEFINE m == [event |-> e, retries |-> 0]
<1>1. m \in Bus!Message /\ m.event = e /\ m.retries = 0
  BY TransportAssumption DEF Bus!Message, Bus!BusAssumption
<1>2. b1' = [q \in Queues |-> Bus!Copies!BagAdd(b1[q], m)]
      /\ UNCHANGED <<b2, b3, b5, b6, b7, b8>> /\ b4' = b4 \cup {e}
  BY DEF Bus!Publish, Bus!Routed
<1> HIDE DEF m
<1>3. \A q \in Queues : DOMAIN b1'[q] = DOMAIN b1[q] \cup {m}
  BY <1>2, AddDomain
<1>4. Placed'
  BY <1>2 DEF BusInv, Placed
<1>5. Bus!TypeOK'
  BY <1>1, <1>2, <1>3 DEF BusInv, Bus!TypeOK
<1>6. ASSUME NEW q \in Queues, NEW d \in b4' \ b7'[q]
      PROVE  Reached(d, Places(q)', b5'[q], b6'[q])
  <2>1. m \in Places(q)' /\ Places(q) \subseteq Places(q)'
    BY <1>2, <1>3 DEF Places
  <2>2. CASE d = e
    BY <1>1, <2>1, <2>2 DEF Reached
  <2>3. CASE d # e
    BY <1>2, <2>1, <2>3, ForgottenByQueue, ReachedMore DEF BusInv
  <2> QED BY <2>2, <2>3
<1>7. Bus!NothingForgotten'
  BY <1>6, ForgottenNext
<1> QED BY <1>4, <1>5, <1>7 DEF BusInv

LEMMA BusDeliver ==
    ASSUME BusInv, NEW q \in Queues, NEW m \in DOMAIN b1[q], Bus!Deliver(q, m)
    PROVE  BusInv'
<1>1. /\ b1' = [b1 EXCEPT ![q] = Bus!Copies!BagRemove(@, m)]
      /\ b2' = [b2 EXCEPT ![q] = Bus!Copies!BagAdd(@, m)]
      /\ UNCHANGED <<b3, b4, b5, b6, b7, b8>>
  BY DEF Bus!Deliver, Bus!History
<1>2. \A p \in Queues : /\ DOMAIN b1'[p] \subseteq DOMAIN b1[p]
                        /\ DOMAIN b1[p] \subseteq DOMAIN b1'[p] \cup (IF p = q THEN {m} ELSE {})
                        /\ DOMAIN b2'[p] = DOMAIN b2[p] \cup (IF p = q THEN {m} ELSE {})
  BY <1>1, AddDomain, RemoveDomain DEF BusInv, Placed
<1>3. Placed'
  BY <1>1 DEF BusInv, Placed
<1>4. Bus!TypeOK'
  BY <1>1, <1>2 DEF BusInv, Bus!TypeOK
<1>5. ASSUME NEW p \in Queues, NEW d \in b4' \ b7'[p]
      PROVE  Reached(d, Places(p)', b5'[p], b6'[p])
  <2>1. Reached(d, Places(p), b5[p], b6[p])
    BY <1>1, ForgottenByQueue DEF BusInv
  <2>2. Places(p) \subseteq Places(p)' /\ b5'[p] = b5[p] /\ b6'[p] = b6[p]
    BY <1>1, <1>2 DEF Places
  <2> QED BY <2>1, <2>2, ReachedMore
<1>6. Bus!NothingForgotten'
  BY <1>5, ForgottenNext
<1> QED BY <1>3, <1>4, <1>6 DEF BusInv

LEMMA BusHandled ==
    ASSUME BusInv, NEW q \in Queues, NEW m \in DOMAIN b2[q], Bus!Handled(q, m)
    PROVE  BusInv'
<1>1. /\ b2' = [b2 EXCEPT ![q] = Bus!Copies!BagRemove(@, m)]
      /\ b5' = [b5 EXCEPT ![q] = @ \cup {m.event}]
      /\ UNCHANGED <<b1, b3, b4, b6, b7, b8>>
  BY DEF Bus!Handled
<1>2. \A p \in Queues : /\ DOMAIN b2'[p] \subseteq DOMAIN b2[p]
                        /\ DOMAIN b2[p] \subseteq DOMAIN b2'[p] \cup (IF p = q THEN {m} ELSE {})
  BY <1>1, RemoveDomain DEF BusInv, Placed
<1>3. Placed'
  BY <1>1 DEF BusInv, Placed
<1>4. m.event \in Events
  BY DEF BusInv, Bus!TypeOK, Bus!Message
<1>5. Bus!TypeOK'
  BY <1>1, <1>2, <1>4 DEF BusInv, Bus!TypeOK
<1>6. \A p \in Queues : b5'[p] = b5[p] \cup (IF p = q THEN {m.event} ELSE {})
  BY <1>1 DEF BusInv, Bus!TypeOK
<1>7. ASSUME NEW p \in Queues, NEW d \in b4' \ b7'[p]
      PROVE  Reached(d, Places(p)', b5'[p], b6'[p])
  <2>1. Reached(d, Places(p), b5[p], b6[p])
    BY <1>1, ForgottenByQueue DEF BusInv
  <2>2. /\ Places(p) \subseteq Places(p)' \cup (IF p = q THEN {m} ELSE {})
        /\ b5[p] \subseteq b5'[p] /\ b6'[p] = b6[p]
    BY <1>1, <1>2, <1>6 DEF Places
  <2>3. CASE p = q /\ d = m.event
    BY <1>6, <2>3 DEF Reached
  <2>4. CASE ~(p = q /\ d = m.event)
    BY <2>1, <2>2, <2>4 DEF Reached
  <2> QED BY <2>3, <2>4
<1>8. Bus!NothingForgotten'
  BY <1>7, ForgottenNext
<1> QED BY <1>3, <1>5, <1>8 DEF BusInv

LEMMA BusFailed ==
    ASSUME BusInv, NEW q \in Queues, NEW m \in DOMAIN b2[q], Bus!Failed(q, m)
    PROVE  BusInv'
<1> DEFINE n == Bus!Retries(m)
<1>1. /\ b2' = [b2 EXCEPT ![q] = Bus!Copies!BagRemove(@, m)]
      /\ b6' = [b6 EXCEPT ![q] = @ \cup {m}]
      /\ b3' = IF m.retries < BusRetries
               THEN [b3 EXCEPT ![q] = Bus!Copies!BagAdd(@, n)] ELSE b3
      /\ UNCHANGED <<b1, b4, b5, b7, b8>>
  BY DEF Bus!Failed, Bus!RABBITMQ_CONFIG
<1>2. \A p \in Queues : /\ DOMAIN b2'[p] \subseteq DOMAIN b2[p]
                        /\ DOMAIN b2[p] \subseteq DOMAIN b2'[p] \cup (IF p = q THEN {m} ELSE {})
  BY <1>1, RemoveDomain DEF BusInv, Placed
<1>3. /\ m \in Bus!Message /\ m.event \in Events /\ m.retries \in 0..BusRetries
      /\ m = [event |-> m.event, retries |-> m.retries]
  BY DEF BusInv, Bus!TypeOK, Bus!Message
<1>4. BusRetries \in Nat
  BY TransportAssumption DEF Bus!BusAssumption
<1>5. /\ n.event = m.event /\ n.retries = m.retries + 1
      /\ m.retries < BusRetries => n \in Bus!Message
  BY <1>3, <1>4 DEF Bus!Message, Bus!Retries
<1> HIDE DEF n
<1>6. \A p \in Queues :
         /\ DOMAIN b3'[p] = DOMAIN b3[p] \cup (IF p = q /\ m.retries < BusRetries THEN {n} ELSE {})
         /\ b6'[p] = b6[p] \cup (IF p = q THEN {m} ELSE {})
  BY <1>1, AddDomain DEF BusInv, Placed, Bus!TypeOK
<1>7. Placed'
  BY <1>1 DEF BusInv, Placed
<1>8. Bus!TypeOK'
  <2>1. b6' \in [Queues -> SUBSET Bus!Message]
    BY <1>1, <1>3 DEF BusInv, Bus!TypeOK
  <2> QED BY <1>1, <1>2, <1>5, <1>6, <2>1 DEF BusInv, Bus!TypeOK
<1>9. ASSUME NEW p \in Queues, NEW d \in b4' \ b7'[p]
      PROVE  Reached(d, Places(p)', b5'[p], b6'[p])
  <2>1. Reached(d, Places(p), b5[p], b6[p])
    BY <1>1, ForgottenByQueue DEF BusInv
  <2>2. /\ Places(p) \subseteq Places(p)' \cup (IF p = q THEN {m} ELSE {})
        /\ b6[p] \subseteq b6'[p] /\ b5'[p] = b5[p]
    BY <1>1, <1>2, <1>6 DEF Places
  <2>3. CASE Reached(d, Places(p)', b5[p], b6[p])
    BY <2>2, <2>3, ReachedMore
  <2>4. CASE ~Reached(d, Places(p)', b5[p], b6[p])
    \* The message that failed was the one the event was kept by.
    <3>1. /\ p = q /\ d = m.event
          /\ \A k \in 0..(m.retries - 1) : [event |-> d, retries |-> k] \in b6[p]
      BY <2>1, <2>2, <2>4 DEF Reached
    <3>2. \A k \in 0..m.retries : [event |-> d, retries |-> k] \in b6'[p]
      <4> SUFFICES ASSUME NEW k \in 0..m.retries
                   PROVE  [event |-> d, retries |-> k] \in b6'[p]
        OBVIOUS
      <4>1. CASE k = m.retries
        BY <1>3, <1>6, <3>1, <4>1
      <4>2. CASE k # m.retries
        BY <1>3, <2>2, <3>1, <4>2
      <4> QED BY <4>1, <4>2
    <3>3. CASE m.retries < BusRetries
      <4>1. n \in Places(p)' /\ n.event = d
        BY <1>5, <1>6, <3>1, <3>3 DEF Places
      <4>2. \A k \in 0..(n.retries - 1) : [event |-> d, retries |-> k] \in b6'[p]
        BY <1>3, <1>5, <3>2
      <4> QED BY <4>1, <4>2 DEF Reached
    <3>4. CASE ~(m.retries < BusRetries)
      BY <1>3, <1>4, <3>2, <3>4 DEF Reached
    <3> QED BY <3>3, <3>4
  <2> QED BY <2>3, <2>4
<1>10. Bus!NothingForgotten'
  BY <1>9, ForgottenNext
<1> QED BY <1>7, <1>8, <1>10 DEF BusInv

LEMMA BusRepublish ==
    ASSUME BusInv, NEW q \in Queues, NEW m \in DOMAIN b3[q], Bus!Republish(q, m)
    PROVE  BusInv'
<1>1. /\ b3' = [b3 EXCEPT ![q] = Bus!Copies!BagRemove(@, m)]
      /\ b1' = [p \in Queues |-> Bus!Copies!BagAdd(b1[p], m)]
      /\ UNCHANGED <<b2, b4, b5, b6, b7, b8>>
  BY DEF Bus!Republish, Bus!Routed, Bus!History
<1>2. \A p \in Queues : /\ DOMAIN b3'[p] \subseteq DOMAIN b3[p]
                        /\ DOMAIN b3[p] \subseteq DOMAIN b3'[p] \cup (IF p = q THEN {m} ELSE {})
                        /\ DOMAIN b1'[p] = DOMAIN b1[p] \cup {m}
  BY <1>1, AddDomain, RemoveDomain DEF BusInv, Placed
<1>3. Placed'
  BY <1>1 DEF BusInv, Placed
<1>4. m \in Bus!Message
  BY DEF BusInv, Bus!TypeOK
<1>5. Bus!TypeOK'
  <2>1. UNCHANGED <<b2, b4, b5, b6, b7, b8>>
    BY <1>1
  <2> QED BY <1>2, <1>4, <2>1 DEF BusInv, Bus!TypeOK
<1>6. ASSUME NEW p \in Queues, NEW d \in b4' \ b7'[p]
      PROVE  Reached(d, Places(p)', b5'[p], b6'[p])
  <2>1. Reached(d, Places(p), b5[p], b6[p])
    <3>1. b4' = b4 /\ b7' = b7
      BY <1>1
    <3> QED BY <3>1, ForgottenByQueue DEF BusInv
  <2>2. Places(p) \subseteq Places(p)' /\ b5'[p] = b5[p] /\ b6'[p] = b6[p]
    <3>1. b2' = b2 /\ b5' = b5 /\ b6' = b6
      BY <1>1
    <3> QED BY <1>2, <3>1 DEF Places
  <2> QED BY <2>1, <2>2, ReachedMore
<1>7. Bus!NothingForgotten'
  BY <1>6, ForgottenNext
<1> QED BY <1>3, <1>5, <1>7 DEF BusInv

\* A restart forgets its timers, and says so.
LEMMA BusRestart ==
    ASSUME BusInv, NEW q \in Queues, Bus!Restart(q)
    PROVE  BusInv'
<1>1. /\ b1' = [b1 EXCEPT ![q] = Bus!(+)(@, b2[q])]
      /\ b2' = [b2 EXCEPT ![q] = Bus!EmptyBag]
      /\ b3' = [b3 EXCEPT ![q] = Bus!EmptyBag]
      /\ b7' = [b7 EXCEPT ![q] = @ \cup {m.event : m \in DOMAIN b3[q]}]
      /\ UNCHANGED <<b4, b5, b6>>
  BY DEF Bus!Restart
<1>2. \A p \in Queues :
         /\ DOMAIN b1'[p] = DOMAIN b1[p] \cup (IF p = q THEN DOMAIN b2[p] ELSE {})
         /\ DOMAIN b2'[p] = IF p = q THEN {} ELSE DOMAIN b2[p]
         /\ DOMAIN b3'[p] = IF p = q THEN {} ELSE DOMAIN b3[p]
  BY <1>1, UnionDomain, EmptyDomain DEF BusInv, Placed
<1>3. Placed'
  BY <1>1 DEF BusInv, Placed
<1>4. b8' \in 0..MaxRestarts
  BY OnboardingAssumption DEF BusInv, Bus!TypeOK, Bus!Restart
<1>5. /\ b7' \in [Queues -> SUBSET Events]
      /\ \A p \in Queues : b7'[p] = b7[p] \cup (IF p = q THEN {m.event : m \in DOMAIN b3[p]} ELSE {})
  BY <1>1 DEF BusInv, Bus!TypeOK, Bus!Message
<1>6. Bus!TypeOK'
  BY <1>1, <1>2, <1>4, <1>5 DEF BusInv, Bus!TypeOK
<1>7. ASSUME NEW p \in Queues, NEW d \in b4' \ b7'[p]
      PROVE  Reached(d, Places(p)', b5'[p], b6'[p])
  <2>1. Reached(d, Places(p), b5[p], b6[p])
    BY <1>1, <1>5, ForgottenByQueue DEF BusInv
  <2>2. \A m \in Places(p) : m.event = d => m \in Places(p)'
    BY <1>2, <1>5 DEF Places
  <2> QED BY <1>1, <2>1, <2>2 DEF Reached
<1>8. Bus!NothingForgotten'
  BY <1>7, ForgottenNext
<1> QED BY <1>3, <1>6, <1>8 DEF BusInv

LEMMA BusStep == BusInv /\ Bus!Next => BusInv'
<1> SUFFICES ASSUME BusInv, Bus!Next PROVE BusInv'
  OBVIOUS
<1>1. ASSUME NEW q \in Queues, Bus!Working(q) PROVE BusInv'
  BY <1>1, BusDeliver, BusHandled, BusFailed, BusRepublish DEF Bus!Working
<1> QED BY <1>1, BusPublish, BusRestart DEF Bus!Next

LEMMA BusStutter ==
    ASSUME BusInv, UNCHANGED Transport
    PROVE  BusInv'
BY DEF BusInv, Placed, Bus!TypeOK, Bus!NothingForgotten, Bus!Pending, Bus!FailedFirst, Transport

(***************************************************************************)
(* CircuitBreaker: a probe that fails opens it again                       *)
(***************************************************************************)
\* While no result came in when it was open, the failures that opened it are still there.
StillFailing == b1 \in {"OPEN", "HALF_OPEN"} /\ ~b6 => Breaker!Opens(b2, b3)

BreakerInv == Breaker!TypeOK /\ StillFailing

\* Another failure does not make a breaker close.
LEMMA OpensMore ==
    ASSUME NEW f \in Nat, NEW n \in Nat, Breaker!Opens(f, n)
    PROVE  Breaker!Opens(f + 1, n + 1)
<1>1. ErrorThreshold \in 1..100 /\ VolumeThreshold \in Nat
  BY TransportAssumption DEF Breaker!BreakerAssumption
<1>2. n >= VolumeThreshold /\ f * 100 >= ErrorThreshold * n
  BY DEF Breaker!Opens
<1>3. (f + 1) * 100 = f * 100 + 100
  OBVIOUS
<1>4. ErrorThreshold * (n + 1) = ErrorThreshold * n + ErrorThreshold
  BY <1>1
<1>5. f * 100 \in Nat /\ ErrorThreshold * n \in Nat
  BY <1>1
<1>6. (f + 1) * 100 >= ErrorThreshold * (n + 1)
  BY <1>1, <1>2, <1>3, <1>4, <1>5
<1> QED BY <1>1, <1>2, <1>6 DEF Breaker!Opens

LEMMA AttemptedType ==
    ASSUME Breaker!TypeOK, NEW c \in Requests
    PROVE  Breaker!Attempted(c)
             \in [Requests -> [pc : {"idle", "run", "wait"}, attempt : 0..BreakerRetries]]
BY TransportAssumption DEF Breaker!TypeOK, Breaker!Attempted, Breaker!Idle,
   Breaker!BreakerAssumption

LEMMA BreakerInit == Breaker!Init => BreakerInv
<1> SUFFICES ASSUME Breaker!Init PROVE BreakerInv
  OBVIOUS
<1>1. b2 \in 0..b3 /\ b3 \in 0..MaxTotal
  BY TransportAssumption DEF Breaker!Init, Breaker!BreakerAssumption
<1>2. b5 \in [Requests -> [pc : {"idle", "run", "wait"}, attempt : 0..BreakerRetries]]
  BY TransportAssumption DEF Breaker!Init, Breaker!Idle, Breaker!BreakerAssumption
<1>3. b1 = "CLOSED" /\ b4 \in BOOLEAN /\ b6 \in BOOLEAN
  BY DEF Breaker!Init
<1> QED BY <1>1, <1>2, <1>3 DEF BreakerInv, StillFailing, Breaker!TypeOK,
        Breaker!CircuitState

\* A failure that is counted opens the breaker, unless it was closed or in doubt.
LEMMA FailureOpens ==
    ASSUME BreakerInv, NEW c \in Requests, Breaker!onFailure(c),
           b1 \in {"OPEN", "HALF_OPEN"}, ~b6
    PROVE  b1' = "OPEN" /\ Breaker!Opens(b2', b3')
<1>1. b2 \in Nat /\ b3 \in Nat /\ Breaker!Opens(b2, b3)
  BY DEF BreakerInv, StillFailing, Breaker!TypeOK
<1>2. b2' = b2 + 1 /\ b3' = b3 + 1
  BY DEF Breaker!onFailure
<1>3. Breaker!Opens(b2', b3')
  BY <1>1, <1>2, OpensMore
<1> QED BY <1>3 DEF Breaker!onFailure

LEMMA BreakerStep == BreakerInv /\ Breaker!Next => BreakerInv'
<1> SUFFICES ASSUME BreakerInv, Breaker!Next PROVE BreakerInv'
  OBVIOUS
<1>1. ASSUME NEW c \in Requests, Breaker!Start(c) PROVE BreakerInv'
  BY <1>1, TransportAssumption DEF BreakerInv, StillFailing, Breaker!TypeOK, Breaker!Start,
     Breaker!Opens, Breaker!BreakerAssumption
<1>2. ASSUME NEW c \in Requests, Breaker!Execute(c) PROVE BreakerInv'
  <2>1. b5' \in [Requests -> [pc : {"idle", "run", "wait"}, attempt : 0..BreakerRetries]]
    BY <1>2, AttemptedType DEF BreakerInv, Breaker!TypeOK, Breaker!Execute
  <2>2. b1' \in Breaker!CircuitState /\ UNCHANGED <<b2, b3, b4, b6>>
    BY <1>2 DEF BreakerInv, Breaker!TypeOK, Breaker!Execute, Breaker!CircuitState
  <2>3. b1' \in {"OPEN", "HALF_OPEN"} => b1 \in {"OPEN", "HALF_OPEN"}
    BY <1>2 DEF Breaker!Execute
  <2> QED BY <2>1, <2>2, <2>3 DEF BreakerInv, StillFailing, Breaker!TypeOK, Breaker!Opens
<1>3. ASSUME NEW c \in Requests, Breaker!onSuccess(c) PROVE BreakerInv'
  <2>1. b1' \in {"OPEN", "HALF_OPEN"} => b6'
    BY <1>3 DEF BreakerInv, Breaker!TypeOK, Breaker!onSuccess, Breaker!CircuitState
  <2>2. Breaker!TypeOK'
    BY <1>3, TransportAssumption DEF BreakerInv, Breaker!TypeOK, Breaker!onSuccess,
       Breaker!CircuitState, Breaker!Idle, Breaker!BreakerAssumption
  <2> QED BY <2>1, <2>2 DEF BreakerInv, StillFailing
<1>4. ASSUME NEW c \in Requests, Breaker!onFailure(c) PROVE BreakerInv'
  <2>1. Breaker!TypeOK'
    <3>1. b5' \in [Requests -> [pc : {"idle", "run", "wait"}, attempt : 0..BreakerRetries]]
      BY <1>4, AttemptedType DEF BreakerInv, Breaker!onFailure
    <3>2. b2' \in 0..b3' /\ b3' \in 0..MaxTotal
      BY <1>4, TransportAssumption DEF BreakerInv, Breaker!TypeOK, Breaker!onFailure,
         Breaker!BreakerAssumption
    <3>3. b1' \in Breaker!CircuitState
      BY <1>4 DEF BreakerInv, Breaker!TypeOK, Breaker!onFailure, Breaker!CircuitState
    <3>4. b4' \in BOOLEAN /\ b6' \in BOOLEAN
      BY <1>4 DEF BreakerInv, Breaker!TypeOK, Breaker!onFailure
    <3> QED BY <3>1, <3>2, <3>3, <3>4 DEF Breaker!TypeOK
  <2>2. ASSUME b1' \in {"OPEN", "HALF_OPEN"}, ~b6' PROVE Breaker!Opens(b2', b3')
    <3>1. ~b6 /\ b1 # "OPEN"
      BY <1>4, <2>2 DEF Breaker!onFailure
    <3>2. CASE b1 = "HALF_OPEN"
      BY <1>4, <3>1, <3>2, FailureOpens
    <3>3. CASE b1 # "HALF_OPEN"
      BY <1>4, <2>2, <3>1, <3>3 DEF Breaker!onFailure
    <3> QED BY <3>2, <3>3
  <2>3. StillFailing'
    BY <2>2 DEF StillFailing, Breaker!Opens
  <2> QED BY <2>1, <2>3 DEF BreakerInv
<1>5. CASE Breaker!Cool
  BY <1>5 DEF BreakerInv, StillFailing, Breaker!TypeOK, Breaker!Cool, Breaker!Opens
<1> QED BY <1>1, <1>2, <1>3, <1>4, <1>5 DEF Breaker!Next

LEMMA BreakerStutter ==
    ASSUME BreakerInv, UNCHANGED Transport
    PROVE  BreakerInv'
BY DEF BreakerInv, StillFailing, Breaker!TypeOK, Breaker!Opens, Transport

LEMMA ProbeStep == BreakerInv /\ Breaker!Next => Breaker!ProbeReopens
<1> SUFFICES ASSUME BreakerInv, Breaker!Next, b1 = "HALF_OPEN", b2' > b2, ~b6
             PROVE  b1' = "OPEN"
  BY DEF Breaker!ProbeReopens
<1>1. b2 \in Nat
  BY DEF BreakerInv, Breaker!TypeOK
<1>2. PICK c \in Requests : Breaker!onFailure(c)
  BY <1>1 DEF Breaker!Next, Breaker!Start, Breaker!Execute, Breaker!onSuccess, Breaker!Cool
<1> QED BY <1>2, FailureOpens

(***************************************************************************)
(* Onboarding: the events of the queue                                     *)
(***************************************************************************)
Item == [ready : BOOLEAN, row : Base \cup {None}]

LEMMA RemoveAtProperties ==
    ASSUME NEW S, NEW s \in Seq(S), NEW i \in 1..Len(s)
    PROVE  /\ RemoveAt(s, i) \in Seq(S)
           /\ Len(RemoveAt(s, i)) = Len(s) - 1
           /\ \A j \in 1..(Len(s) - 1) :
                RemoveAt(s, i)[j] = IF j < i THEN s[j] ELSE s[j + 1]
<1> DEFINE a == SubSeq(s, 1, i - 1)
           b == SubSeq(s, i + 1, Len(s))
<1>1. /\ a \in Seq(S) /\ Len(a) = i - 1
      /\ \A j \in 1..(i - 1) : a[j] = s[j]
  BY LenProperties, SubSeqProperties
<1>2. /\ b \in Seq(S) /\ Len(b) = Len(s) - i
      /\ \A j \in 1..(Len(s) - i) : b[j] = s[j + i]
  BY LenProperties, SubSeqProperties
<1> HIDE DEF a, b
<1>3. /\ a \o b \in Seq(S) /\ Len(a \o b) = Len(a) + Len(b)
      /\ \A j \in 1..(Len(a) + Len(b)) :
           (a \o b)[j] = IF j <= Len(a) THEN a[j] ELSE b[j - Len(a)]
  BY <1>1, <1>2, ConcatProperties
<1>4. RemoveAt(s, i) = a \o b
  BY DEF RemoveAt, a, b
<1>5. Len(s) \in Nat
  BY LenProperties
<1>6. ASSUME NEW j \in 1..(Len(s) - 1)
      PROVE  (a \o b)[j] = IF j < i THEN s[j] ELSE s[j + 1]
  <2>1. CASE j < i
    BY <1>1, <1>2, <1>3, <1>5, <2>1
  <2>2. CASE ~(j < i)
    <3>1. j - (i - 1) \in 1..(Len(s) - i)
      BY <1>5, <2>2
    <3>2. (a \o b)[j] = b[j - (i - 1)]
      BY <1>1, <1>2, <1>3, <1>5, <2>2
    <3>3. b[j - (i - 1)] = s[(j - (i - 1)) + i]
      BY <1>2, <3>1
    <3>4. (j - (i - 1)) + i = j + 1
      BY <1>5
    <3> QED BY <2>2, <3>2, <3>3, <3>4
  <2> QED BY <2>1, <2>2
<1>7. Len(RemoveAt(s, i)) = Len(s) - 1
  <2>1. Len(a) + Len(b) = Len(s) - 1
    BY <1>1, <1>2, <1>5
  <2>2. Len(a \o b) = Len(a) + Len(b)
    BY <1>3
  <2> QED BY <1>4, <2>1, <2>2
<1> QED BY <1>3, <1>4, <1>6, <1>7

\* What a queue has after its ith event was taken out.
LEMMA QueueTaken ==
    ASSUME NEW q \in Seq(Item), NEW i \in DOMAIN q, NEW p, p = RemoveAt(q, i)
    PROVE  /\ p \in Seq(Item) /\ Len(p) = Len(q) - 1
           /\ \A j \in DOMAIN p : \E k \in DOMAIN q : p[j] = q[k] /\ k # i
           /\ i = 1 => \A j \in DOMAIN p : j + 1 \in DOMAIN q /\ p[j] = q[j + 1]
<1>1. DOMAIN q = 1..Len(q) /\ Len(q) \in Nat
  BY LenProperties
<1>2. /\ p \in Seq(Item) /\ Len(p) = Len(q) - 1
      /\ \A j \in 1..(Len(q) - 1) : p[j] = IF j < i THEN q[j] ELSE q[j + 1]
  BY <1>1, RemoveAtProperties
<1>3. DOMAIN p = 1..(Len(q) - 1)
  BY <1>2, LenProperties
<1>4. ASSUME NEW j \in DOMAIN p
      PROVE  /\ \E k \in DOMAIN q : p[j] = q[k] /\ k # i
             /\ i = 1 => j + 1 \in DOMAIN q /\ p[j] = q[j + 1]
  <2>1. j \in DOMAIN q /\ j + 1 \in DOMAIN q /\ j \in Nat
    BY <1>1, <1>3
  <2>2. CASE j < i
    BY <1>1, <1>2, <1>3, <2>1, <2>2
  <2>3. CASE ~(j < i)
    BY <1>1, <1>2, <1>3, <2>1, <2>3
  <2> QED BY <2>2, <2>3
<1> QED BY <1>2, <1>4

(***************************************************************************)
(* Onboarding: the invariant                                               *)
(***************************************************************************)
Slot == [pc : Steps, ready : BOOLEAN, row : Base \cup {None}]

Types ==
    /\ role \in Roles
    /\ base \in Base \cup {None}
    /\ settings \in BOOLEAN
    /\ baseMsg \in {"queued", "saved", "acked"}
    /\ ready \in BOOLEAN \cup {None}
    /\ detailMsg \in {"queued", "acked"}
    /\ call \in [Requests -> Slot]
    /\ queue \in Seq(Item) /\ Len(queue) <= MaxEvents
    /\ everReady \in BOOLEAN /\ clean \in BOOLEAN
    /\ faults \in 0..MaxFaults /\ restarts \in 0..MaxRestarts

\* What is loaded belongs to a base profile that is there; nobody tells of a profile
\* that is not.
Shape ==
    /\ Types
    /\ \A i \in DOMAIN queue : queue[i].row # None
         => base # None /\ queue[i].row.onboarding = queue[i].ready
    /\ \A r \in Requests :
         /\ call[r].pc = "patch" => base # None /\ call[r].row \in Base
         /\ call[r].pc # "patch" => call[r].row = None
    /\ ready = None
         => queue = <<>> /\ ~everReady /\ \A r \in Requests : call[r].pc \notin Telling

\* As FlagWasEarned, with what is about to be told.
Earned ==
    /\ FlagWasEarned
    /\ ~everReady => ready # TRUE /\ \A r \in Requests : ~call[r].ready

\* A creation that has begun goes on, or has ended with the settings.
Settled ==
    base # None /\ faults = 0 /\ restarts = 0
        => baseMsg = "saved" \/ settings \/ \E r \in Requests : call[r].pc = "settings"

Quietly == \A r \in Requests : call[r].pc \notin Telling

\* Where nothing overlapped, the newest word on the profile is right: the one about to
\* be told, else the last event of the queue, else the flag itself; and whoever holds
\* the base profile holds it alone.
Follows ==
    clean =>
        /\ \A q, r \in Requests :
             /\ call[q].pc \in Telling /\ call[r].pc \in Telling => q = r
             /\ call[q].pc = "patch" /\ call[r].pc = "patch" => q = r
        /\ \A r \in Requests : call[r].pc = "publish" => call[r].ready = ready
        /\ \A r \in Requests : call[r].pc = "patch" => call[r].row.onboarding = base.onboarding
        /\ \A i \in DOMAIN queue :
             queue[i].row # None => i = 1 /\ \A r \in Requests : call[r].pc # "patch"
        /\ Quietly /\ queue # <<>> => queue[Len(queue)].ready = ready
        /\ Quietly /\ queue = <<>> /\ ready # None
             => ready = IF base = None THEN FALSE ELSE base.onboarding

PersonInv == Shape /\ Earned /\ Settled /\ Follows

LEMMA PersonTypes == Shape => TypeOK
<1> SUFFICES ASSUME Shape PROVE TypeOK
  OBVIOUS
<1>1. ASSUME NEW e \in Range(queue) PROVE e.ready \in BOOLEAN /\ e.row \in Base \cup {None}
  <2>1. PICK i \in DOMAIN queue : e = queue[i]
    BY DEF Range
  <2>2. queue[i] \in Item
    BY ElementOfSeq, LenProperties DEF Shape, Types
  <2> QED BY <2>1, <2>2 DEF Item
<1> QED BY <1>1 DEF Shape, Types, TypeOK, Slot

LEMMA PersonHolds ==
    PersonInv => TypeOK /\ FlagFollowsProfile /\ FlagWasEarned /\ ProfileHasSettings
<1> SUFFICES ASSUME PersonInv
             PROVE  TypeOK /\ FlagFollowsProfile /\ FlagWasEarned /\ ProfileHasSettings
  OBVIOUS
<1>1. FlagFollowsProfile
  BY DEF FlagFollowsProfile, Quiet, Quietly, Telling, PersonInv, Follows
<1>2. ProfileHasSettings
  BY DEF ProfileHasSettings, PersonInv, Settled
<1> QED BY <1>1, <1>2, PersonTypes DEF PersonInv, Earned

LEMMA IdleSlot ==
    /\ Idle \in Slot /\ Idle.pc = "idle" /\ Idle.ready = FALSE /\ Idle.row = None
    /\ Idle.pc \notin Telling
BY DEF Idle, Slot, Steps, Telling

LEMMA PersonInit == Init => PersonInv
<1> SUFFICES ASSUME Init PROVE PersonInv
  OBVIOUS
<1>1. \A r \in Requests : call[r] = Idle
  BY DEF Init
<1>2. queue \in Seq(Item) /\ Len(queue) = 0 /\ DOMAIN queue = {}
  BY EmptySeq DEF Init
<1>3. Types
  <2>1. 0 \in 0..MaxFaults /\ 0 \in 0..MaxRestarts /\ 0 <= MaxEvents
    BY OnboardingAssumption
  <2> QED BY <1>2, <2>1, IdleSlot DEF Init, Types
<1>4. Shape
  BY <1>1, <1>2, <1>3, IdleSlot DEF Init, Shape
<1>5. Earned
  BY <1>1, <1>2, IdleSlot, OnboardingAssumption DEF Init, Earned, FlagWasEarned
<1>6. Settled /\ Follows
  BY <1>1, <1>2, IdleSlot DEF Init, Settled, Follows, Telling
<1> QED BY <1>4, <1>5, <1>6 DEF PersonInv

(***************************************************************************)
(* Onboarding: the profiles of a verified user                             *)
(***************************************************************************)
LEMMA NewBaseOK == NewBase \in Base /\ NewBase # None /\ ~NewBase.onboarding
<1>1. NewBase \in Base /\ NewBase.onboarding = FALSE
  BY DEF NewBase, Base
<1> QED BY <1>1, OnboardingAssumption

\* The base profile appears, by event or by hand.
LEMMA BaseAppears ==
    ASSUME PersonInv, base = None, base' = NewBase,
           UNCHANGED <<ready, queue, everReady, clean>>,
           \A r \in Requests :
              \/ call'[r] = call[r]
              \/ /\ call[r].pc \notin Telling /\ call'[r].pc \notin Telling \cup {"patch"}
                 /\ call'[r].row = None /\ (call[r].ready = FALSE => call'[r].ready = FALSE)
    PROVE  Earned' /\ Follows'
<1>1. Earned'
  <2> SUFFICES ASSUME ~everReady PROVE Earned'
    BY DEF PersonInv, Earned, FlagWasEarned
  <2>1. /\ ready # TRUE /\ \A i \in DOMAIN queue : ~queue[i].ready
        /\ \A r \in Requests : /\ ~call[r].ready
                               /\ call[r].row # None => ~call[r].row.onboarding
    BY DEF PersonInv, Earned, FlagWasEarned
  <2>2. \A r \in Requests : call[r].ready = FALSE
    BY <2>1 DEF PersonInv, Shape, Types, Slot
  <2>3. \A r \in Requests : /\ ~call'[r].ready
                            /\ call'[r].row # None => ~call'[r].row.onboarding
    BY <2>1, <2>2
  <2> QED BY <2>1, <2>3, NewBaseOK DEF Earned, FlagWasEarned
<1>2. \A r \in Requests : call'[r].pc = "patch" => call[r].pc = "patch"
  <2> SUFFICES ASSUME NEW r \in Requests, call'[r].pc = "patch" PROVE call[r].pc = "patch"
    OBVIOUS
  <2>1. call'[r].pc \in Telling \cup {"patch"}
    OBVIOUS
  <2> QED BY <2>1
<1>3. \A r \in Requests : call[r].pc # "patch" /\ call'[r].pc # "patch"
  BY <1>2 DEF PersonInv, Shape
<1>4. \A i \in DOMAIN queue : queue[i].row = None
  BY DEF PersonInv, Shape
<1>5. Quietly' <=> Quietly
  BY DEF Quietly
<1>6. Follows'
  <2> SUFFICES ASSUME clean'
               PROVE  Follows'
    BY DEF Follows
  <2>1. clean
    OBVIOUS
  <2>2. \A r \in Requests : /\ call'[r].pc \in Telling => call[r].pc \in Telling
                            /\ call'[r].pc = "publish" => call'[r] = call[r]
    BY DEF Telling
  <2>3. Quietly /\ queue = <<>> /\ ready # None => ready = base'.onboarding
    BY <2>1, NewBaseOK DEF PersonInv, Follows, NewBase
  <2> QED BY <1>3, <1>4, <1>5, <2>1, <2>2, <2>3, NewBaseOK DEF PersonInv, Follows
<1> QED BY <1>1, <1>6

LEMMA StepCreateBase == PersonInv /\ CreateBase => PersonInv'
<1> SUFFICES ASSUME PersonInv, CreateBase PROVE PersonInv'
  OBVIOUS
<1>1. UNCHANGED <<role, settings, ready, detailMsg, call, queue, everReady, clean, faults, restarts>>
  BY DEF CreateBase, Counts
<1>2. base' \in Base /\ base' # None /\ baseMsg' \in {"saved", "acked"}
  BY NewBaseOK DEF CreateBase, PersonInv, Shape, Types
<1>3. Shape'
  BY <1>1, <1>2 DEF PersonInv, Shape, Types
<1>4. Settled'
  BY <1>1 DEF CreateBase, PersonInv, Settled
<1>5. CASE base = None
  <2>1. base' = NewBase
    BY <1>5 DEF CreateBase
  <2> QED BY <1>1, <1>3, <1>4, <1>5, <2>1, BaseAppears DEF PersonInv
<1>6. CASE base # None
  <2>1. base' = base
    BY <1>6 DEF CreateBase
  <2> QED BY <1>1, <1>3, <1>4, <2>1 DEF PersonInv, Earned, FlagWasEarned, Follows, Quietly
<1> QED BY <1>5, <1>6

LEMMA StepPostBase == ASSUME NEW r \in Requests, PersonInv, PostBase(r) PROVE PersonInv'
<1>1. UNCHANGED <<role, settings, baseMsg, ready, detailMsg, queue, everReady, clean, faults, restarts>>
      /\ base = None /\ base' = NewBase /\ call[r].pc = "idle"
  BY DEF PostBase, Counts, Messages
<1>2. call' = [call EXCEPT ![r].pc = "settings"]
  BY DEF PostBase
<1>3. call \in [Requests -> Slot]
  BY DEF PersonInv, Shape, Types
<1>4. \A q \in Requests :
         IF q = r THEN call'[q] = [call[r] EXCEPT !.pc = "settings"] ELSE call'[q] = call[q]
  BY <1>2, <1>3
<1>5. /\ [call[r] EXCEPT !.pc = "settings"] \in Slot
      /\ [call[r] EXCEPT !.pc = "settings"].pc = "settings"
      /\ [call[r] EXCEPT !.pc = "settings"].ready = call[r].ready
      /\ [call[r] EXCEPT !.pc = "settings"].row = call[r].row
  BY <1>3 DEF Slot, Steps
<1>6. call' \in [Requests -> Slot]
  BY <1>2, <1>3, <1>5
<1>7. call[r].row = None
  BY <1>1 DEF PersonInv, Shape
<1>8. Shape'
  BY <1>1, <1>4, <1>5, <1>6, <1>7, NewBaseOK DEF PersonInv, Shape, Types, Telling
<1>9. Settled'
  BY <1>4, <1>5 DEF Settled
<1>10. \A q \in Requests :
         \/ call'[q] = call[q]
         \/ /\ call[q].pc \notin Telling /\ call'[q].pc \notin Telling \cup {"patch"}
            /\ call'[q].row = None /\ (call[q].ready = FALSE => call'[q].ready = FALSE)
  BY <1>1, <1>4, <1>5, <1>7 DEF Telling
<1> QED BY <1>1, <1>8, <1>9, <1>10, BaseAppears DEF PersonInv

LEMMA StepPostSettings ==
    ASSUME NEW r \in Requests, PersonInv, PostSettings(r) PROVE PersonInv'
<1>1. UNCHANGED <<role, base, baseMsg, ready, detailMsg, queue, everReady, clean, faults, restarts>>
      /\ settings' = TRUE /\ call[r].pc = "settings"
  BY DEF PostSettings, Counts, Messages
<1>2. call \in [Requests -> Slot] /\ call' = [call EXCEPT ![r] = Idle]
  BY DEF PersonInv, Shape, Types, PostSettings
<1>3. \A q \in Requests : IF q = r THEN call'[q] = Idle ELSE call'[q] = call[q]
  BY <1>2
<1>4. call' \in [Requests -> Slot]
  BY <1>2, IdleSlot
<1>5. Shape'
  BY <1>1, <1>3, <1>4, IdleSlot DEF PersonInv, Shape, Types
<1>6. Earned' /\ Settled'
  BY <1>1, <1>3, IdleSlot DEF PersonInv, Earned, FlagWasEarned, Settled
<1>7. Quietly' <=> Quietly
  BY <1>1, <1>3, IdleSlot DEF Quietly, Telling
<1>8. Follows'
  BY <1>1, <1>3, <1>7, IdleSlot DEF PersonInv, Follows, Telling
<1> QED BY <1>5, <1>6, <1>8 DEF PersonInv

\* The profile of the role appears, and is not ready.
LEMMA DetailAppears ==
    ASSUME PersonInv, UNCHANGED <<base, call, queue, everReady, clean>>,
           ready' = IF ready = None THEN FALSE ELSE ready
    PROVE  Earned' /\ Follows'
<1>1. CASE ready # None
  BY <1>1 DEF PersonInv, Earned, FlagWasEarned, Follows, Quietly
<1>2. CASE ready = None
  <2>1. queue = <<>> /\ ~everReady /\ Quietly /\ ready' = FALSE
    BY <1>2 DEF PersonInv, Shape, Quietly
  <2>2. base # None => ~base.onboarding
    BY <2>1 DEF PersonInv, Earned, FlagWasEarned
  <2>3. Earned'
    BY <2>1 DEF PersonInv, Earned, FlagWasEarned
  <2>4. base # None => base.onboarding = FALSE
    BY <2>2 DEF PersonInv, Shape, Types, Base
  <2>5. \A q \in Requests : call[q].pc # "publish"
    BY <2>1 DEF Quietly, Telling
  <2>6. Follows'
    BY <2>1, <2>4, <2>5 DEF PersonInv, Follows, Quietly
  <2> QED BY <2>3, <2>6
<1> QED BY <1>1, <1>2

LEMMA StepDetail ==
    ASSUME PersonInv,
           \/ CreateStudent \/ CreateCompany \/ CreateSupervisor
           \/ \E r \in Requests : PostDetail(r)
    PROVE  PersonInv'
<1>1. UNCHANGED <<role, base, settings, baseMsg, call, queue, everReady, clean, faults, restarts>>
      /\ ready' = (IF ready = None THEN FALSE ELSE ready)
      /\ detailMsg' \in {"queued", "acked"}
  BY DEF CreateStudent, CreateCompany, CreateSupervisor, PostDetail, Counts, Messages,
     PersonInv, Shape, Types
<1>2. Shape'
  BY <1>1, OnboardingAssumption DEF PersonInv, Shape, Types
<1>3. Settled'
  BY <1>1 DEF PersonInv, Settled
<1> QED BY <1>1, <1>2, <1>3, DetailAppears DEF PersonInv

LEMMA StepCreated ==
    ASSUME PersonInv, CreateSettings \/ CreateFails
    PROVE  PersonInv'
<1>1. /\ UNCHANGED <<role, base, ready, call, queue, everReady, restarts>>
      /\ clean' = clean \/ clean' = FALSE
  BY DEF CreateSettings, CreateFails, Counts
<1>2. Shape'
  <2>1. faults' \in 0..MaxFaults
    BY OnboardingAssumption DEF CreateSettings, CreateFails, Counts, PersonInv, Shape, Types
  <2>2. /\ baseMsg' \in {"queued", "saved", "acked"} /\ detailMsg' \in {"queued", "acked"}
        /\ settings' \in BOOLEAN
    BY DEF CreateSettings, CreateFails, PersonInv, Shape, Types
  <2>3. clean' \in BOOLEAN
    BY <1>1 DEF PersonInv, Shape, Types
  <2> QED BY <1>1, <2>1, <2>2, <2>3 DEF PersonInv, Shape, Types
<1>3. Settled'
  <2>1. CASE CreateSettings
    BY <2>1 DEF CreateSettings, Settled
  <2>2. CASE CreateFails
    BY <2>2 DEF CreateFails, Settled, PersonInv, Shape, Types
  <2> QED BY <2>1, <2>2
<1>4. Earned'
  BY <1>1 DEF PersonInv, Earned, FlagWasEarned
<1>5. Follows'
  BY <1>1 DEF PersonInv, Follows, Quietly
<1> QED BY <1>2, <1>3, <1>4, <1>5 DEF PersonInv

(***************************************************************************)
(* Onboarding: the profile of the role changes                             *)
(***************************************************************************)
LEMMA StepChange ==
    ASSUME NEW r \in Requests, NEW v \in BOOLEAN, NEW next \in Slot, PersonInv,
           Change(r, v, next), next.pc \in Telling, next.row = None,
           next.ready => v, next.pc = "publish" => next.ready = v
    PROVE  PersonInv'
<1>1. /\ UNCHANGED <<role, base, settings, baseMsg, detailMsg, queue, faults, restarts>>
      /\ ready' = v /\ everReady' = (everReady \/ v) /\ call[r].pc = "idle"
  BY DEF Change, Elsewhere, Messages, Counts
<1>2. clean' => clean /\ Quietly
  BY DEF Change, Quietly
<1>3. call \in [Requests -> Slot] /\ call' = [call EXCEPT ![r] = next]
  BY DEF PersonInv, Shape, Types, Change
<1>4. \A q \in Requests : IF q = r THEN call'[q] = next ELSE call'[q] = call[q]
  BY <1>3
<1>5. call' \in [Requests -> Slot] /\ everReady' \in BOOLEAN /\ clean' \in BOOLEAN
  BY <1>3 DEF PersonInv, Shape, Types, Change
<1>6. v # None /\ next.pc # "patch"
  BY OnboardingAssumption DEF Telling
<1>7. Shape'
  BY <1>1, <1>4, <1>5, <1>6 DEF PersonInv, Shape, Types
<1>8. Settled'
  <2>1. \A q \in Requests : call[q].pc = "settings" => call'[q].pc = "settings"
    BY <1>1, <1>4
  <2> QED BY <1>1, <2>1 DEF PersonInv, Settled
<1>9. Earned'
  <2> SUFFICES ASSUME ~everReady' PROVE Earned'
    BY <1>5 DEF Earned, FlagWasEarned
  <2>1. ~everReady /\ v = FALSE /\ ~next.ready
    BY <1>1
  <2> QED BY <1>1, <1>4, <2>1 DEF PersonInv, Earned, FlagWasEarned
<1>10. Follows'
  <2> SUFFICES ASSUME clean' PROVE Follows'
    BY DEF Follows
  <2>1. \A q \in Requests : q # r => call'[q].pc \notin Telling
    BY <1>2, <1>4 DEF Quietly
  <2>2. ~Quietly'
    BY <1>4 DEF Quietly
  <2>3. \A q \in Requests : call'[q].pc = "patch" => q # r /\ call'[q] = call[q]
    BY <1>4, <1>6
  <2> QED BY <1>1, <1>2, <1>4, <2>1, <2>2, <2>3 DEF PersonInv, Follows, Telling
<1> QED BY <1>7, <1>8, <1>9, <1>10 DEF PersonInv

LEMMA StepChangeProfile ==
    ASSUME NEW r \in Requests, NEW v \in BOOLEAN, PersonInv,
           ChangeProfile(r, v) \/ ChangeSupervisor(r, v)
    PROVE  PersonInv'
<1>1. CASE ChangeProfile(r, v)
  <2> DEFINE next == [Idle EXCEPT !.pc = "reload"]
  <2>1. next \in Slot /\ next.pc = "reload" /\ next.row = None /\ next.ready = FALSE
    BY DEF Idle, Slot, Steps
  <2>2. Change(r, v, next)
    BY <1>1 DEF ChangeProfile
  <2> HIDE DEF next
  <2> QED BY <2>1, <2>2, StepChange DEF Telling
<1>2. CASE ChangeSupervisor(r, v)
  <2> DEFINE next == [Idle EXCEPT !.pc = "publish", !.ready = v]
  <2>1. next \in Slot /\ next.pc = "publish" /\ next.row = None /\ next.ready = v
    BY DEF Idle, Slot, Steps
  <2>2. Change(r, v, next)
    BY <1>2 DEF ChangeSupervisor
  <2> HIDE DEF next
  <2> QED BY <2>1, <2>2, StepChange DEF Telling
<1> QED BY <1>1, <1>2

LEMMA StepReload ==
    ASSUME NEW r \in Requests, PersonInv, ReloadProfile(r)
    PROVE  PersonInv'
<1>1. UNCHANGED <<role, base, settings, baseMsg, ready, detailMsg, queue, everReady, clean,
                  faults, restarts>>
      /\ call[r].pc = "reload"
  BY DEF ReloadProfile, Elsewhere, Messages, Counts
<1> DEFINE next == [Idle EXCEPT !.pc = "publish", !.ready = ready]
<1>2. ready \in BOOLEAN
  BY <1>1 DEF PersonInv, Shape, Types, Telling
<1>3. next \in Slot /\ next.pc = "publish" /\ next.row = None /\ next.ready = ready
  BY <1>2 DEF Idle, Slot, Steps
<1>4. call \in [Requests -> Slot] /\ call' = [call EXCEPT ![r] = next]
  BY DEF PersonInv, Shape, Types, ReloadProfile
<1> HIDE DEF next
<1>5. \A q \in Requests : IF q = r THEN call'[q] = next ELSE call'[q] = call[q]
  BY <1>4
<1>6. call' \in [Requests -> Slot]
  BY <1>3, <1>4
<1>7. Shape'
  BY <1>1, <1>3, <1>5, <1>6 DEF PersonInv, Shape, Types, Telling
<1>8. Settled'
  <2>1. \A q \in Requests : call[q].pc = "settings" => call'[q].pc = "settings"
    BY <1>1, <1>5
  <2> QED BY <1>1, <2>1 DEF PersonInv, Settled
<1>9. Earned'
  BY <1>1, <1>2, <1>3, <1>5 DEF PersonInv, Earned, FlagWasEarned
<1>10. ~Quietly /\ ~Quietly'
  BY <1>1, <1>3, <1>5 DEF Quietly, Telling
<1>11. Follows'
  <2>1. \A q \in Requests : call'[q].pc \in Telling <=> call[q].pc \in Telling
    BY <1>1, <1>3, <1>5 DEF Telling
  <2>2. \A q \in Requests : call'[q].pc = "patch" => call'[q] = call[q]
    BY <1>3, <1>5
  <2>3. \A q \in Requests : call'[q].pc = "publish" => call'[q] = call[q] \/ call'[q] = next
    BY <1>5
  <2> SUFFICES ASSUME clean' PROVE Follows'
    BY DEF Follows
  <2>4. clean
    BY <1>1
  <2>5. \A p, q \in Requests :
          /\ call'[p].pc \in Telling /\ call'[q].pc \in Telling => p = q
          /\ call'[p].pc = "patch" /\ call'[q].pc = "patch" => p = q
    BY <2>1, <2>2, <2>4 DEF PersonInv, Follows
  <2>6. \A q \in Requests : call'[q].pc = "publish" => call'[q].ready = ready
    BY <1>3, <2>3, <2>4 DEF PersonInv, Follows
  <2>7. \A q \in Requests : call'[q].pc = "patch" => call'[q].row.onboarding = base.onboarding
    BY <2>2, <2>4 DEF PersonInv, Follows
  <2>8. \A i \in DOMAIN queue :
          queue[i].row # None => i = 1 /\ \A q \in Requests : call'[q].pc # "patch"
    BY <2>2, <2>4 DEF PersonInv, Follows
  <2> QED BY <1>1, <1>10, <2>5, <2>6, <2>7, <2>8 DEF Follows
<1> QED BY <1>7, <1>8, <1>9, <1>11 DEF PersonInv

LEMMA StepPublish ==
    ASSUME NEW r \in Requests, PersonInv, Publish(r)
    PROVE  PersonInv'
<1>1. UNCHANGED <<role, base, settings, baseMsg, ready, detailMsg, everReady, clean, faults,
                  restarts>>
      /\ call[r].pc = "publish" /\ Len(queue) < MaxEvents
  BY DEF Publish, Messages, Counts
<1> DEFINE e == Event(call[r].ready)
<1>2. call \in [Requests -> Slot] /\ call' = [call EXCEPT ![r] = Idle]
  BY DEF PersonInv, Shape, Types, Publish
<1>3. e \in Item /\ e.ready = call[r].ready /\ e.row = None
  BY <1>2 DEF Event, Item, Slot
<1>4. queue \in Seq(Item) /\ queue' = Append(queue, e)
  BY DEF PersonInv, Shape, Types, Publish
<1> HIDE DEF e
<1>5. /\ queue' \in Seq(Item) /\ Len(queue') = Len(queue) + 1 /\ queue' # <<>>
      /\ \A i \in 1..Len(queue) : queue'[i] = queue[i]
      /\ queue'[Len(queue) + 1] = e
  BY <1>3, <1>4, AppendProperties
<1>6. Len(queue) \in Nat /\ DOMAIN queue = 1..Len(queue) /\ DOMAIN queue' = 1..Len(queue')
  BY <1>4, <1>5, LenProperties
<1>7. \A i \in DOMAIN queue' : (i \in DOMAIN queue /\ queue'[i] = queue[i]) \/ queue'[i] = e
  BY <1>5, <1>6
<1>8. \A q \in Requests : IF q = r THEN call'[q] = Idle ELSE call'[q] = call[q]
  BY <1>2
<1>9. call' \in [Requests -> Slot] /\ Len(queue') <= MaxEvents
  BY <1>1, <1>2, <1>5, <1>6, IdleSlot, OnboardingAssumption
<1>10. ready # None
  BY <1>1 DEF PersonInv, Shape, Telling
<1>11. Shape'
  BY <1>1, <1>3, <1>5, <1>7, <1>8, <1>9, <1>10, IdleSlot DEF PersonInv, Shape, Types
<1>12. Settled'
  <2>1. \A q \in Requests : call[q].pc = "settings" => call'[q].pc = "settings"
    BY <1>1, <1>8
  <2> QED BY <1>1, <2>1 DEF PersonInv, Settled
<1>13. Earned'
  BY <1>1, <1>3, <1>7, <1>8, IdleSlot DEF PersonInv, Earned, FlagWasEarned
<1>14. Follows'
  <2> SUFFICES ASSUME clean' PROVE Follows'
    BY DEF Follows
  <2>1. call[r].ready = ready /\ Quietly'
    BY <1>1, <1>8, IdleSlot DEF PersonInv, Follows, Quietly, Telling
  <2>2. queue'[Len(queue')].ready = ready
    BY <1>3, <1>5, <2>1
  <2>3. \A q \in Requests : call'[q].pc = "patch" => call'[q] = call[q]
    BY <1>8, IdleSlot
  <2>4. \A q \in Requests : call'[q].pc # "publish" /\ call'[q].pc \notin Telling
    BY <2>1 DEF Quietly, Telling
  <2>5. \A i \in DOMAIN queue' : queue'[i].row # None => i \in DOMAIN queue /\ queue'[i] = queue[i]
    BY <1>3, <1>7
  <2> QED BY <1>1, <1>5, <2>2, <2>3, <2>4, <2>5 DEF PersonInv, Follows
<1> QED BY <1>11, <1>12, <1>13, <1>14 DEF PersonInv

(***************************************************************************)
(* Onboarding: the base profile                                            *)
(***************************************************************************)
LEMMA StepPatchLoad ==
    ASSUME NEW r \in Requests, PersonInv, PatchLoad(r)
    PROVE  PersonInv'
<1>1. UNCHANGED <<role, base, settings, baseMsg, ready, detailMsg, queue, everReady, faults,
                  restarts>>
      /\ call[r].pc = "idle" /\ base # None
  BY DEF PatchLoad, Elsewhere, Messages, Counts
<1>2. clean' => clean /\ ~FlagLoaded /\ ~Patching
  BY DEF PatchLoad
<1>3. PICK c \in BOOLEAN :
        call' = [call EXCEPT ![r] = [Idle EXCEPT !.pc = "patch",
                                                 !.row = [base EXCEPT !.counted = c]]]
  BY DEF PatchLoad
<1> DEFINE next == [Idle EXCEPT !.pc = "patch", !.row = [base EXCEPT !.counted = c]]
<1>4. base \in Base
  BY <1>1 DEF PersonInv, Shape, Types
<1>5. /\ next \in Slot /\ next.pc = "patch" /\ next.ready = FALSE
      /\ next.row \in Base /\ next.row.onboarding = base.onboarding
  BY <1>4 DEF Idle, Slot, Steps, Base
<1>6. call \in [Requests -> Slot] /\ call' = [call EXCEPT ![r] = next]
  BY <1>3 DEF PersonInv, Shape, Types
<1> HIDE DEF next
<1>7. \A q \in Requests : IF q = r THEN call'[q] = next ELSE call'[q] = call[q]
  BY <1>6
<1>8. call' \in [Requests -> Slot] /\ clean' \in BOOLEAN
  BY <1>5, <1>6 DEF PatchLoad, PersonInv, Shape, Types
<1>9. Shape'
  BY <1>1, <1>5, <1>7, <1>8 DEF PersonInv, Shape, Types, Telling
<1>10. Settled'
  <2>1. \A q \in Requests : call[q].pc = "settings" => call'[q].pc = "settings"
    BY <1>1, <1>7
  <2> QED BY <1>1, <2>1 DEF PersonInv, Settled
<1>11. Earned'
  BY <1>1, <1>5, <1>7 DEF PersonInv, Earned, FlagWasEarned
<1>12. Follows'
  <2> SUFFICES ASSUME clean' PROVE Follows'
    BY DEF Follows
  <2>1. clean /\ (\A i \in DOMAIN queue : queue[i].row = None)
        /\ \A q \in Requests : call[q].pc # "patch"
    BY <1>2 DEF FlagLoaded, Patching
  <2>2. \A q \in Requests : /\ call'[q].pc \in Telling <=> call[q].pc \in Telling
                            /\ call'[q].pc = "publish" => call'[q] = call[q]
                            /\ call'[q].pc = "patch" => q = r
    BY <1>1, <1>5, <1>7, <2>1 DEF Telling
  <2>3. Quietly' <=> Quietly
    BY <2>2 DEF Quietly
  <2> QED BY <1>1, <1>5, <1>7, <2>1, <2>2, <2>3 DEF PersonInv, Follows
<1> QED BY <1>9, <1>10, <1>11, <1>12 DEF PersonInv

LEMMA StepPatchSave ==
    ASSUME NEW r \in Requests, PersonInv, PatchSave(r)
    PROVE  PersonInv'
<1>1. UNCHANGED <<role, settings, baseMsg, ready, detailMsg, queue, everReady, clean, faults,
                  restarts>>
      /\ call[r].pc = "patch" /\ base' = call[r].row
  BY DEF PatchSave, Messages, Counts
<1>2. call \in [Requests -> Slot] /\ call' = [call EXCEPT ![r] = Idle]
  BY DEF PersonInv, Shape, Types, PatchSave
<1>3. \A q \in Requests : IF q = r THEN call'[q] = Idle ELSE call'[q] = call[q]
  BY <1>2
<1>4. base # None /\ base' \in Base /\ base' # None
  BY <1>1, OnboardingAssumption DEF PersonInv, Shape
<1>5. call' \in [Requests -> Slot]
  BY <1>2, IdleSlot
<1>6. Shape'
  BY <1>1, <1>3, <1>4, <1>5, IdleSlot DEF PersonInv, Shape, Types
<1>7. Settled'
  <2>1. \A q \in Requests : call[q].pc = "settings" => call'[q].pc = "settings"
    BY <1>1, <1>3
  <2> QED BY <1>1, <1>4, <2>1 DEF PersonInv, Settled
<1>8. Earned'
  BY <1>1, <1>3, <1>4, IdleSlot DEF PersonInv, Earned, FlagWasEarned
<1>9. Follows'
  <2> SUFFICES ASSUME clean' PROVE Follows'
    BY DEF Follows
  <2>1. base'.onboarding = base.onboarding
    BY <1>1 DEF PersonInv, Follows
  <2>2. \A q \in Requests : /\ call'[q].pc \in Telling <=> call[q].pc \in Telling
                            /\ call'[q].pc = "publish" => call'[q] = call[q]
                            /\ call'[q].pc # "patch"
    BY <1>1, <1>3, IdleSlot DEF Telling, PersonInv, Follows
  <2>3. Quietly' <=> Quietly
    BY <2>2 DEF Quietly
  <2> QED BY <1>1, <1>4, <2>1, <2>2, <2>3 DEF PersonInv, Follows
<1> QED BY <1>6, <1>7, <1>8, <1>9 DEF PersonInv

\* An event that is handled without a change, that fails, or whose row was saved, leaves.
LEMMA TakenShape ==
    ASSUME Shape, Earned, NEW i \in DOMAIN queue, queue' = RemoveAt(queue, i),
           UNCHANGED <<role, settings, baseMsg, ready, detailMsg, call, everReady, restarts>>,
           base' = base \/ (queue[i].row # None /\ base' = queue[i].row),
           clean' \in BOOLEAN, faults' \in 0..MaxFaults
    PROVE  Shape' /\ Earned'
<1>1. /\ queue' \in Seq(Item) /\ Len(queue') = Len(queue) - 1
      /\ \A j \in DOMAIN queue' : \E k \in DOMAIN queue : queue'[j] = queue[k]
  BY QueueTaken DEF Shape, Types
<1>2. queue[i] \in Item /\ queue # <<>> /\ Len(queue) \in Nat
  BY ElementOfSeq, LenProperties, EmptySeq DEF Shape, Types
<1>3. base' \in Base \cup {None} /\ (base # None => base' # None)
  BY <1>2, OnboardingAssumption DEF Shape, Types, Item
<1>4. Len(queue') <= MaxEvents
  BY <1>1, <1>2, OnboardingAssumption DEF Shape, Types
<1>5. Types'
  BY <1>1, <1>3, <1>4 DEF Shape, Types
<1>6. Shape'
  BY <1>1, <1>2, <1>3, <1>5 DEF Shape
<1>7. Earned'
  <2>1. ~everReady /\ base' # None => ~base'.onboarding
    BY <1>2 DEF Shape, Earned, FlagWasEarned
  <2> QED BY <1>1, <2>1 DEF Earned, FlagWasEarned
<1> QED BY <1>6, <1>7

\* Where nothing overlaps it was the first event, and what it said is in the base profile.
LEMMA TakenFollows ==
    ASSUME PersonInv, NEW i \in DOMAIN queue, queue' = RemoveAt(queue, i),
           UNCHANGED <<ready, call>>, clean' => clean,
           clean' => /\ i = 1
                     /\ \A j \in DOMAIN queue : j # 1 => queue[j].row = None
                     /\ \A q \in Requests : call[q].pc # "patch"
                     /\ base' # None /\ base'.onboarding = queue[1].ready
    PROVE  Follows'
<1> SUFFICES ASSUME clean' PROVE Follows'
  BY DEF Follows
<1>1. i = 1 /\ clean
  OBVIOUS
<1>2. /\ queue' \in Seq(Item) /\ Len(queue') = Len(queue) - 1
      /\ \A j \in DOMAIN queue' : j + 1 \in DOMAIN queue /\ queue'[j] = queue[j + 1]
  BY <1>1, QueueTaken DEF PersonInv, Shape, Types
<1>3. /\ Len(queue) \in Nat /\ DOMAIN queue = 1..Len(queue) /\ DOMAIN queue' = 1..Len(queue')
      /\ queue # <<>>
  BY <1>2, LenProperties, EmptySeq DEF PersonInv, Shape, Types
<1>4. \A j \in DOMAIN queue' : queue'[j].row = None
  BY <1>2, <1>3
<1>5. Quietly' <=> Quietly
  BY DEF Quietly
<1>6. Quietly /\ queue' # <<>> => queue'[Len(queue')].ready = ready
  <2> SUFFICES ASSUME Quietly, queue' # <<>> PROVE queue'[Len(queue')].ready = ready
    OBVIOUS
  <2>1. Len(queue') # 0
    BY <1>2, EmptySeq
  <2>2. Len(queue') \in DOMAIN queue'
    BY <1>2, <1>3, <2>1
  <2>3. queue'[Len(queue')] = queue[Len(queue') + 1]
    BY <1>2, <2>2
  <2>4. Len(queue') + 1 = Len(queue)
    BY <1>2, <1>3
  <2>5. queue[Len(queue)].ready = ready
    BY <1>1, <1>3 DEF PersonInv, Follows
  <2> QED BY <2>3, <2>4, <2>5
<1>7. Quietly /\ queue' = <<>> => base'.onboarding = ready
  <2> SUFFICES ASSUME Quietly, queue' = <<>> PROVE base'.onboarding = ready
    OBVIOUS
  <2>1. Len(queue) = 1
    BY <1>2, <1>3, EmptySeq
  <2>2. queue[Len(queue)].ready = ready
    BY <1>1, <1>3 DEF PersonInv, Follows
  <2> QED BY <2>1, <2>2
<1>8. \A p, q \in Requests :
         /\ call[p].pc \in Telling /\ call[q].pc \in Telling => p = q
         /\ call[q].pc = "publish" => call[q].ready = ready
  BY <1>1 DEF PersonInv, Follows
<1> QED BY <1>4, <1>5, <1>6, <1>7, <1>8 DEF Follows

\* What a step that leaves the creation alone keeps.
LEMMA SettledKept ==
    ASSUME Settled, UNCHANGED <<base, settings, baseMsg, call, restarts>>,
           faults' = 0 => faults = 0
    PROVE  Settled'
BY DEF Settled

LEMMA StepFlagLoad ==
    ASSUME NEW i \in DOMAIN queue, PersonInv, FlagLoad(i)
    PROVE  PersonInv'
<1>1. UNCHANGED <<role, base, settings, baseMsg, ready, detailMsg, call, everReady, faults,
                  restarts>>
      /\ queue[i].row = None
  BY DEF FlagLoad, Messages, Counts
<1>2. clean' = (clean /\ base # None /\ i = 1 /\ ~FlagLoaded /\ ~Patching)
  BY DEF FlagLoad
<1>3. clean' \in BOOLEAN
  BY <1>2 DEF PersonInv, Shape, Types
<1>4. clean' => /\ clean /\ base # None /\ i = 1
                /\ \A j \in DOMAIN queue : queue[j].row = None
                /\ \A q \in Requests : call[q].pc # "patch"
  BY <1>2 DEF FlagLoaded, Patching
<1>5. Settled'
  BY <1>1, SettledKept DEF PersonInv
<1>6. queue \in Seq(Item) /\ queue[i] \in Item /\ DOMAIN queue = 1..Len(queue)
      /\ Len(queue) \in Nat /\ Len(queue) <= MaxEvents
  BY ElementOfSeq, LenProperties DEF PersonInv, Shape, Types
<1>7. CASE base # None /\ Changes(queue[i].ready)
  <2> DEFINE row == [onboarding |-> queue[i].ready, counted |-> TRUE]
             e == [queue[i] EXCEPT !.row = row]
  <2>1. row \in Base /\ row # None /\ row.onboarding = queue[i].ready
    <3>1. queue[i].ready \in BOOLEAN
      BY <1>6 DEF Item
    <3>2. row \in Base
      BY <3>1 DEF Base
    <3> QED BY <3>2, OnboardingAssumption
  <2>2. queue' = [queue EXCEPT ![i].row = row]
    BY <1>7 DEF FlagLoad
  <2> HIDE DEF row
  <2>3. e \in Item /\ e.ready = queue[i].ready /\ e.row = row
    BY <1>6, <2>1 DEF Item
  <2>4. queue' = [queue EXCEPT ![i] = e]
    BY <2>2 DEF e
  <2> HIDE DEF e
  <2>5. /\ queue' \in Seq(Item) /\ Len(queue') = Len(queue)
        /\ DOMAIN queue' = DOMAIN queue
        /\ \A j \in DOMAIN queue : IF j = i THEN queue'[j] = e ELSE queue'[j] = queue[j]
    BY <1>6, <2>3, <2>4, ExceptSeq
  <2>6. queue' # <<>> /\ queue # <<>>
    BY <1>6, <2>5, EmptySeq
  <2>7. Types'
    BY <1>1, <1>3, <1>6, <2>5 DEF PersonInv, Shape, Types
  <2>8. \A j \in DOMAIN queue' : queue'[j].ready = queue[j].ready
    BY <2>3, <2>5
  <2>9. Shape'
    BY <1>1, <1>7, <2>1, <2>3, <2>5, <2>6, <2>7 DEF PersonInv, Shape
  <2>10. Earned'
    BY <1>1, <2>5, <2>8 DEF PersonInv, Earned, FlagWasEarned
  <2>11. Follows'
    <3> SUFFICES ASSUME clean' PROVE Follows'
      BY DEF Follows
    <3>1. \A j \in DOMAIN queue' : queue'[j].row # None => j = 1
      BY <1>4, <2>5
    <3>2. Quietly' <=> Quietly
      BY <1>1 DEF Quietly
    <3>3. Len(queue) \in DOMAIN queue
      BY <1>6, <2>6, EmptySeq
    <3>4. Quietly => queue'[Len(queue')].ready = ready
      BY <1>4, <2>5, <2>6, <2>8, <3>3 DEF PersonInv, Follows
    <3> QED BY <1>1, <1>4, <2>5, <2>6, <3>1, <3>2, <3>4 DEF PersonInv, Follows
  <2> QED BY <1>5, <2>9, <2>10, <2>11 DEF PersonInv
<1>8. CASE ~(base # None /\ Changes(queue[i].ready))
  <2>1. queue' = RemoveAt(queue, i)
    BY <1>8 DEF FlagLoad
  <2>2. faults' \in 0..MaxFaults
    BY <1>1 DEF PersonInv, Shape, Types
  <2>3. Shape' /\ Earned'
    BY <1>1, <1>3, <2>1, <2>2, TakenShape DEF PersonInv
  <2>4. clean' => base.onboarding = queue[1].ready
    BY <1>4, <1>8 DEF Changes
  <2>5. Follows'
    BY <1>1, <1>4, <2>1, <2>4, TakenFollows
  <2> QED BY <1>5, <2>3, <2>5 DEF PersonInv
<1> QED BY <1>7, <1>8

LEMMA StepFlagSave ==
    ASSUME NEW i \in DOMAIN queue, PersonInv, FlagSave(i)
    PROVE  PersonInv'
<1>1. UNCHANGED <<role, settings, baseMsg, ready, detailMsg, call, everReady, clean, faults,
                  restarts>>
      /\ queue[i].row # None /\ base' = queue[i].row /\ queue' = RemoveAt(queue, i)
  BY DEF FlagSave, Messages, Counts
<1>2. clean' \in BOOLEAN /\ faults' \in 0..MaxFaults
  BY <1>1 DEF PersonInv, Shape, Types
<1>3. Shape' /\ Earned'
  BY <1>1, <1>2, TakenShape DEF PersonInv
<1>4. base # None /\ queue[i].row.onboarding = queue[i].ready
  BY <1>1 DEF PersonInv, Shape
<1>5. Settled'
  BY <1>1, <1>4 DEF PersonInv, Settled
<1>6. clean' => /\ i = 1
                /\ \A j \in DOMAIN queue : j # 1 => queue[j].row = None
                /\ \A q \in Requests : call[q].pc # "patch"
  BY <1>1 DEF PersonInv, Follows
<1>7. Follows'
  BY <1>1, <1>4, <1>6, TakenFollows
<1> QED BY <1>3, <1>5, <1>7 DEF PersonInv

LEMMA StepFlagFails ==
    ASSUME NEW i \in DOMAIN queue, PersonInv, FlagFails(i)
    PROVE  PersonInv'
<1>1. UNCHANGED <<role, base, settings, baseMsg, ready, detailMsg, call, everReady, restarts>>
      /\ clean' = FALSE /\ queue' = RemoveAt(queue, i)
      /\ faults < MaxFaults /\ faults' = faults + 1
  BY DEF FlagFails, Messages
<1>2. faults' \in 0..MaxFaults /\ faults' # 0
  BY <1>1, OnboardingAssumption DEF PersonInv, Shape, Types
<1>3. Shape' /\ Earned'
  BY <1>1, <1>2, TakenShape DEF PersonInv
<1> QED BY <1>1, <1>2, <1>3 DEF PersonInv, Settled, Follows

LEMMA StepPersonRestart ==
    ASSUME PersonInv, Restart
    PROVE  PersonInv'
<1>1. UNCHANGED <<role, base, settings, ready, detailMsg, everReady, faults>>
      /\ restarts < MaxRestarts /\ restarts' = restarts + 1
      /\ call' = [r \in Requests |-> Idle]
      /\ queue' = [i \in DOMAIN queue |-> Event(queue[i].ready)]
      /\ baseMsg' \in {"queued", "saved", "acked"}
  BY DEF Restart, PersonInv, Shape, Types
<1>2. clean' => clean /\ \A r \in Requests : call[r].pc = "idle"
  BY DEF Restart
<1>3. clean' \in BOOLEAN
  BY DEF Restart, PersonInv, Shape, Types
<1>4. /\ queue \in Seq(Item) /\ DOMAIN queue = 1..Len(queue) /\ Len(queue) \in Nat
      /\ Len(queue) <= MaxEvents
      /\ \A i \in DOMAIN queue : queue[i] \in Item
  BY ElementOfSeq, LenProperties DEF PersonInv, Shape, Types
<1>5. \A i \in DOMAIN queue : /\ Event(queue[i].ready) \in Item
                              /\ Event(queue[i].ready).ready = queue[i].ready
                              /\ Event(queue[i].ready).row = None
  BY <1>4 DEF Event, Item
<1>6. queue' \in Seq(Item)
  BY <1>1, <1>4, <1>5
<1>7. DOMAIN queue' = DOMAIN queue /\ Len(queue') = Len(queue)
  <2>1. DOMAIN queue' = 1..Len(queue)
    BY <1>1, <1>4
  <2>2. DOMAIN queue' = 1..Len(queue') /\ Len(queue') \in Nat
    BY <1>6, LenProperties
  <2> QED BY <1>4, <2>1, <2>2
<1>8. \A i \in DOMAIN queue' : queue'[i].ready = queue[i].ready /\ queue'[i].row = None
  BY <1>1, <1>5
<1>9. queue' = <<>> <=> queue = <<>>
  BY <1>4, <1>6, <1>7, EmptySeq
<1>10. \A r \in Requests : call'[r] = Idle
  BY <1>1
<1>11. restarts' \in 0..MaxRestarts /\ restarts' # 0
  BY <1>1, OnboardingAssumption DEF PersonInv, Shape, Types
<1>12. call' \in [Requests -> Slot]
  BY <1>1, IdleSlot
<1>13. Types'
  BY <1>1, <1>3, <1>4, <1>6, <1>7, <1>11, <1>12 DEF PersonInv, Shape, Types
<1>14. Shape'
  BY <1>1, <1>8, <1>9, <1>10, <1>13, IdleSlot DEF PersonInv, Shape
<1>15. Earned'
  BY <1>1, <1>7, <1>8, <1>10, IdleSlot DEF PersonInv, Earned, FlagWasEarned
<1>16. Settled'
  BY <1>11 DEF Settled
<1>17. Follows'
  <2> SUFFICES ASSUME clean' PROVE Follows'
    BY DEF Follows
  <2>1. Quietly
    BY <1>2 DEF Quietly, Telling
  <2>2. queue' # <<>> => Len(queue') \in DOMAIN queue'
    BY <1>4, <1>6, <1>7, EmptySeq
  <2>3. queue' # <<>> => queue'[Len(queue')].ready = ready
    BY <1>2, <1>7, <1>8, <1>9, <2>1, <2>2 DEF PersonInv, Follows
  <2>4. \A r \in Requests : call'[r].pc = "idle"
    BY <1>10, IdleSlot
  <2>5. queue' = <<>> /\ ready # None => ready = IF base = None THEN FALSE ELSE base.onboarding
    BY <1>2, <1>9, <2>1 DEF PersonInv, Follows
  <2> QED BY <1>1, <1>8, <2>3, <2>4, <2>5 DEF Follows, Telling
<1> QED BY <1>14, <1>15, <1>16, <1>17 DEF PersonInv

LEMMA PersonStep == PersonInv /\ Next => PersonInv'
<1> SUFFICES ASSUME PersonInv, Next PROVE PersonInv'
  OBVIOUS
<1>1. CASE CreateBase
  BY <1>1, StepCreateBase
<1>2. CASE CreateSettings \/ CreateFails
  BY <1>2, StepCreated
<1>3. CASE CreateStudent \/ CreateCompany \/ CreateSupervisor
  BY <1>3, StepDetail
<1>4. ASSUME NEW r \in Requests,
             \/ PostBase(r) \/ PostSettings(r) \/ PostDetail(r)
             \/ \E v \in BOOLEAN : ChangeProfile(r, v) \/ ChangeSupervisor(r, v)
             \/ ReloadProfile(r) \/ Publish(r) \/ PatchLoad(r) \/ PatchSave(r)
      PROVE  PersonInv'
  BY <1>4, StepPostBase, StepPostSettings, StepDetail, StepChangeProfile, StepReload,
     StepPublish, StepPatchLoad, StepPatchSave
<1>5. ASSUME NEW i \in DOMAIN queue, FlagLoad(i) \/ FlagSave(i) \/ FlagFails(i)
      PROVE  PersonInv'
  BY <1>5, StepFlagLoad, StepFlagSave, StepFlagFails
<1>6. CASE Restart
  BY <1>6, StepPersonRestart
<1>7. \/ CreateBase \/ (CreateSettings \/ CreateFails)
      \/ (CreateStudent \/ CreateCompany \/ CreateSupervisor)
      \/ \E r \in Requests :
           \/ PostBase(r) \/ PostSettings(r) \/ PostDetail(r)
           \/ \E v \in BOOLEAN : ChangeProfile(r, v) \/ ChangeSupervisor(r, v)
           \/ ReloadProfile(r) \/ Publish(r) \/ PatchLoad(r) \/ PatchSave(r)
      \/ \E i \in DOMAIN queue : FlagLoad(i) \/ FlagSave(i) \/ FlagFails(i)
      \/ Restart
  BY DEF Next
<1> QED BY <1>1, <1>2, <1>3, <1>4, <1>5, <1>6, <1>7

LEMMA PersonStutter == PersonInv /\ UNCHANGED Profiles => PersonInv'
<1> SUFFICES ASSUME PersonInv, UNCHANGED Profiles PROVE PersonInv'
  OBVIOUS
<1> USE DEF Profiles
<1>1. Types'
  BY DEF PersonInv, Shape, Types
<1>2. Shape'
  BY <1>1 DEF PersonInv, Shape
<1>3. Earned' /\ Settled'
  BY DEF PersonInv, Earned, FlagWasEarned, Settled
<1>4. Follows'
  BY DEF PersonInv, Quietly, Follows
<1> QED BY <1>2, <1>3, <1>4 DEF PersonInv

(***************************************************************************)
(* The three together                                                      *)
(***************************************************************************)
DeliveryInv ==
    /\ focus \in {"onboarding", "bus", "breaker"}
    /\ focus = "onboarding" => PersonInv
    /\ focus = "bus" => BusInv
    /\ focus = "breaker" => BreakerInv

LEMMA DeliveryStarts == DeliveryInit => DeliveryInv
BY PersonInit, BusInit, BreakerInit DEF DeliveryInit, DeliveryInv

LEMMA DeliveryGoesOn ==
    DeliveryInv /\ [OnboardingNext \/ BusNext \/ BreakerNext]_all => DeliveryInv'
<1> SUFFICES ASSUME DeliveryInv, [OnboardingNext \/ BusNext \/ BreakerNext]_all
             PROVE  DeliveryInv'
  OBVIOUS
<1>1. CASE OnboardingNext
  BY <1>1, PersonStep DEF OnboardingNext, DeliveryInv
<1>2. CASE BusNext
  BY <1>2, BusStep DEF BusNext, DeliveryInv
<1>3. CASE BreakerNext
  BY <1>3, BreakerStep DEF BreakerNext, DeliveryInv
<1>4. CASE UNCHANGED all
  BY <1>4, PersonStutter, BusStutter, BreakerStutter DEF all, DeliveryInv, Transport, Profiles
<1> QED BY <1>1, <1>2, <1>3, <1>4

\* Every reachable state satisfies the invariant of the focus it is in.
THEOREM DeliveryInvariant == DeliverySpec => []DeliveryInv
BY DeliveryStarts, DeliveryGoesOn, PTL DEF DeliverySpec

\* setOnboardingStatus and createProfile of user-service: the flag of the base profile
\* was earned and follows the profile of the role, and a base profile has its settings.
THEOREM ProfilesAlwaysFollow == DeliverySpec => []ProfilesFollow
<1>1. DeliveryInv => ProfilesFollow
  BY PersonHolds DEF DeliveryInv, ProfilesFollow
<1> QED BY <1>1, DeliveryInvariant, PTL

\* The consumer of src/shared: an event that was published is in the queue, in a
\* handler, waiting for its retry, handled or dead, or a restart lost its retry.
THEOREM NothingIsForgotten == DeliverySpec => []NothingForgotten
<1>1. DeliveryInv => NothingForgotten
  BY DEF DeliveryInv, NothingForgotten, BusInv, BreakerInv
<1> QED BY <1>1, DeliveryInvariant, PTL

\* CircuitBreaker.onFailure: a probe that fails opens the breaker again.
THEOREM ProbeThatFailsReopens == DeliverySpec => FailedProbeReopens
<1>1. DeliveryInv /\ [OnboardingNext \/ BusNext \/ BreakerNext]_all
        => [focus = "breaker" => Breaker!ProbeReopens]_all
  BY ProbeStep DEF DeliveryInv, OnboardingNext, BusNext, BreakerNext
<1> QED BY <1>1, DeliveryInvariant, PTL DEF DeliverySpec, FailedProbeReopens
=============================================================================
