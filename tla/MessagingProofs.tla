--------------------------- MODULE MessagingProofs ---------------------------
(***************************************************************************)
(* The chat, the notifications and the follow-up in Services: the          *)
(* invariants of ChatGateway, ChatConversation, ChatChannels,              *)
(* Notifications and FollowUp, which are in those modules under "What      *)
(* every step keeps", hold at first and are kept by every step, for every  *)
(* value of the constants. The variables of a component are v1, v2, ...    *)
(* in the order of its module. The theorems are in ServicesProofs.         *)
(***************************************************************************)
EXTENDS Services, FiniteSetTheorems, SequenceTheorems, TLAPS

(***************************************************************************)
(* ChatGateway: v1 activeUsers, v2 announcing, v3 told, v4 member, v5 room, *)
(* v6 joining, v7 history, v8 shown, v9 caughtUp, v10 message, v11 faults,  *)
(* v12 restarts, v13 raced                                                  *)
(***************************************************************************)
\* The modules count with the same cardinality.
LEMMA SocketsCount == \A S : Sockets!Cardinality(S) = Cardinality(S)
BY DEF Sockets!Cardinality, Cardinality

LEMMA SocketsInit == Sockets!Init => Sockets!GatewayInv
<1> SUFFICES ASSUME Sockets!Init PROVE Sockets!GatewayInv
  OBVIOUS
<1> USE DEF Sockets!Init
<1>1. Sockets!TypeOK
  BY DEF Sockets!TypeOK
<1>2. Sockets!NothingMissed /\ Sockets!StatusIsComing /\ Sockets!JoinsCatchUp
  BY DEF Sockets!NothingMissed, Sockets!StatusIsComing, Sockets!JoinsCatchUp, Sockets!Status
<1> QED BY <1>1, <1>2 DEF Sockets!GatewayInv

\* A change of the status that may have to be sent, and what it leaves to be sent.
LEMMA StatusAnnounced ==
    ASSUME Sockets!TypeOK, Sockets!StatusIsComing, NEW s \in UserSockets,
           NEW status \in {"online", "offline"},
           \/ Sockets!Announce(s, status) /\ Sockets!Status' = status
           \/ UNCHANGED <<v2, v13>> /\ Sockets!Status' = Sockets!Status,
           UNCHANGED v3
    PROVE  /\ Sockets!StatusIsComing'
           /\ v2' \subseteq [socket : UserSockets, status : {"online", "offline"}]
           /\ v13' \in BOOLEAN
<1>1. CASE Sockets!Announce(s, status) /\ Sockets!Status' = status
  <2>1. v2' = v2 \cup {[socket |-> s, status |-> status]} /\ v13' = (v13 \/ v2 # {})
    BY <1>1 DEF Sockets!Announce
  <2>2. ~v13' => v2' = {[socket |-> s, status |-> status]}
    BY <2>1
  <2>3. Sockets!StatusIsComing'
    <3>1. v3' = v3 /\ Sockets!Status' = status /\ v2' # {}
      BY <1>1, <2>1
    <3>2. ~v13' => \A a \in v2' : a.status = Sockets!Status'
      BY <2>2, <3>1
    <3> QED BY <3>1, <3>2 DEF Sockets!StatusIsComing
  <2>4. v13' \in BOOLEAN
    BY <2>1 DEF Sockets!TypeOK
  <2>5. v2' \subseteq [socket : UserSockets, status : {"online", "offline"}]
    BY <2>1 DEF Sockets!TypeOK
  <2> QED BY <2>3, <2>4, <2>5
<1>2. CASE UNCHANGED <<v2, v13>> /\ Sockets!Status' = Sockets!Status
  BY <1>2 DEF Sockets!TypeOK, Sockets!StatusIsComing
<1> QED BY <1>1, <1>2

LEMMA SocketsConnect ==
    ASSUME Sockets!GatewayInv, NEW s \in UserSockets, Sockets!handleConnection(s)
    PROVE  Sockets!GatewayInv'
<1>1. /\ s \notin v1 /\ v1' = v1 \cup {s}
      /\ UNCHANGED <<v3, v4, v5, v6, v7, v8, v9, v10, v11, v12>>
      /\ IF Sockets!First(v1') THEN Sockets!Announce(s, "online") ELSE UNCHANGED <<v2, v13>>
  BY DEF Sockets!handleConnection, Sockets!Rooms
<1>2. Sockets!Status' = "online"
  BY <1>1 DEF Sockets!Status
<1>3. \/ Sockets!Announce(s, "online")
      \/ UNCHANGED <<v2, v13>> /\ Sockets!Status' = Sockets!Status
  <2>1. CASE Sockets!First(v1')
    BY <1>1, <2>1
  <2>2. CASE ~Sockets!First(v1')
    <3>1. v1 # {}
      <4> SUFFICES ASSUME v1 = {} PROVE FALSE
        OBVIOUS
      <4>1. v1' = {s}
        BY <1>1
      <4>2. Cardinality({s}) = 1
        BY FS_Singleton
      <4> QED BY <2>2, <4>1, <4>2, SocketsCount DEF Sockets!First
    <3> QED BY <1>1, <1>2, <2>2, <3>1 DEF Sockets!Status
  <2> QED BY <2>1, <2>2
<1>4. /\ Sockets!StatusIsComing'
      /\ v2' \subseteq [socket : UserSockets, status : {"online", "offline"}]
      /\ v13' \in BOOLEAN
  BY <1>1, <1>2, <1>3, StatusAnnounced DEF Sockets!GatewayInv
<1>5. Sockets!TypeOK'
  BY <1>1, <1>4 DEF Sockets!GatewayInv, Sockets!TypeOK
<1>6. Sockets!NothingMissed' /\ Sockets!JoinsCatchUp'
  BY <1>1 DEF Sockets!GatewayInv, Sockets!NothingMissed, Sockets!JoinsCatchUp
<1> QED BY <1>4, <1>5, <1>6 DEF Sockets!GatewayInv

LEMMA SocketsDisconnect ==
    ASSUME Sockets!GatewayInv, NEW s \in UserSockets, Sockets!handleDisconnect(s)
    PROVE  Sockets!GatewayInv'
<1>1. /\ s \in v1 /\ v1' = v1 \ {s} /\ v5' = v5 \ {s} /\ v9' = v9 \ {s}
      /\ v6' = [v6 EXCEPT ![s] = "no"]
      /\ v7' = [v7 EXCEPT ![s] = {}] /\ v8' = [v8 EXCEPT ![s] = {}]
      /\ UNCHANGED <<v3, v4, v10, v11, v12>>
      /\ IF Sockets!Last(v1') THEN Sockets!Announce(s, "offline") ELSE UNCHANGED <<v2, v13>>
  BY DEF Sockets!handleDisconnect
<1>2. \/ Sockets!Announce(s, "offline") /\ Sockets!Status' = "offline"
      \/ UNCHANGED <<v2, v13>> /\ Sockets!Status' = Sockets!Status
  BY <1>1 DEF Sockets!Last, Sockets!Status
<1>3. /\ Sockets!StatusIsComing'
      /\ v2' \subseteq [socket : UserSockets, status : {"online", "offline"}]
      /\ v13' \in BOOLEAN
  BY <1>1, <1>2, StatusAnnounced DEF Sockets!GatewayInv
<1>4. Sockets!TypeOK'
  BY <1>1, <1>3 DEF Sockets!GatewayInv, Sockets!TypeOK
<1>5. Sockets!NothingMissed' /\ Sockets!JoinsCatchUp'
  BY <1>1 DEF Sockets!GatewayInv, Sockets!TypeOK, Sockets!NothingMissed, Sockets!JoinsCatchUp
<1> QED BY <1>3, <1>4, <1>5 DEF Sockets!GatewayInv

LEMMA SocketsBroadcast ==
    ASSUME Sockets!GatewayInv, NEW a \in v2, Sockets!broadcastUserStatus(a)
    PROVE  Sockets!GatewayInv'
<1>1. /\ v2' = v2 \ {a} /\ UNCHANGED <<v1, v4, v5, v6, v7, v8, v9, v10, v12>>
      /\ (v3' = a.status /\ UNCHANGED v13) \/ (v13' = TRUE /\ UNCHANGED v3)
  BY DEF Sockets!broadcastUserStatus, Sockets!Rooms
<1>2. a.status \in {"online", "offline"}
  BY DEF Sockets!GatewayInv, Sockets!TypeOK
<1>3. v13' \in BOOLEAN
  BY <1>1 DEF Sockets!GatewayInv, Sockets!TypeOK
<1>4. Sockets!TypeOK'
  BY <1>1, <1>2, <1>3 DEF Sockets!GatewayInv, Sockets!TypeOK
<1>5. Sockets!StatusIsComing'
  BY <1>1 DEF Sockets!GatewayInv, Sockets!StatusIsComing, Sockets!Status
<1>6. Sockets!NothingMissed' /\ Sockets!JoinsCatchUp'
  BY <1>1 DEF Sockets!GatewayInv, Sockets!NothingMissed, Sockets!JoinsCatchUp
<1> QED BY <1>4, <1>5, <1>6 DEF Sockets!GatewayInv

\* What leaves the presence of the user alone.
LEMMA StatusKept ==
    ASSUME Sockets!StatusIsComing, UNCHANGED Sockets!Presence
    PROVE  Sockets!StatusIsComing'
BY DEF Sockets!StatusIsComing, Sockets!Status, Sockets!Presence

LEMMA SocketsJoin ==
    ASSUME Sockets!GatewayInv, NEW s \in UserSockets,
           \/ Sockets!JoinStart(s) \/ Sockets!JoinRoom(s) \/ Sockets!JoinHistory(s)
           \/ Sockets!JoinEmit(s) \/ Sockets!handleLeaveConversation(s)
    PROVE  Sockets!GatewayInv'
<1> USE DEF Sockets!GatewayInv, Sockets!TypeOK
<1>1. UNCHANGED Sockets!Presence
  BY DEF Sockets!JoinStart, Sockets!JoinRoom, Sockets!JoinHistory, Sockets!JoinEmit,
     Sockets!handleLeaveConversation
<1>2. CASE Sockets!JoinStart(s)
  BY <1>1, <1>2, StatusKept DEF Sockets!JoinStart, Sockets!Presence, Sockets!NothingMissed,
     Sockets!JoinsCatchUp
<1>3. CASE Sockets!JoinRoom(s)
  BY <1>1, <1>3, StatusKept DEF Sockets!JoinRoom, Sockets!Presence, Sockets!NothingMissed,
     Sockets!JoinsCatchUp
<1>4. CASE Sockets!JoinHistory(s)
  <2>1. Sockets!Inserted \subseteq Sockets!Messages
    BY DEF Sockets!Inserted
  <2>2. \A m \in Sockets!Messages : v10[m] = "sent" => m \in Sockets!Inserted
    BY DEF Sockets!Inserted
  <2>3. Sockets!TypeOK'
    BY <1>1, <1>4, <2>1 DEF Sockets!JoinHistory, Sockets!Presence
  <2>4. Sockets!NothingMissed' /\ Sockets!JoinsCatchUp'
    BY <1>1, <1>4, <2>2 DEF Sockets!JoinHistory, Sockets!Presence, Sockets!NothingMissed,
       Sockets!JoinsCatchUp, Sockets!Messages
  <2> QED BY <1>1, <2>3, <2>4, StatusKept
<1>5. CASE Sockets!JoinEmit(s)
  <2>1. Sockets!TypeOK'
    BY <1>1, <1>5 DEF Sockets!JoinEmit, Sockets!Presence
  <2>2. Sockets!NothingMissed' /\ Sockets!JoinsCatchUp'
    BY <1>1, <1>5 DEF Sockets!JoinEmit, Sockets!Presence, Sockets!NothingMissed,
       Sockets!JoinsCatchUp
  <2> QED BY <1>1, <2>1, <2>2, StatusKept
<1>6. CASE Sockets!handleLeaveConversation(s)
  BY <1>1, <1>6, StatusKept DEF Sockets!handleLeaveConversation, Sockets!Presence,
     Sockets!NothingMissed, Sockets!JoinsCatchUp
<1> QED BY <1>2, <1>3, <1>4, <1>5, <1>6

LEMMA SocketsSend ==
    ASSUME Sockets!GatewayInv, NEW m \in Sockets!Messages,
           Sockets!SendInsert(m) \/ Sockets!SendBroadcast(m)
    PROVE  Sockets!GatewayInv'
<1> USE DEF Sockets!GatewayInv
<1>1. UNCHANGED Sockets!Presence /\ UNCHANGED <<v4, v5, v6, v7, v9>>
  BY DEF Sockets!SendInsert, Sockets!SendBroadcast, Sockets!Rooms
<1>2. CASE Sockets!SendInsert(m)
  <2>1. v10' = [v10 EXCEPT ![m] = "inserted"] /\ v8' = v8 /\ v12' = v12
    BY <1>2 DEF Sockets!SendInsert, Sockets!Rooms
  <2>2. \A n \in Sockets!Messages : v10'[n] = "sent" => v10[n] = "sent"
    BY <2>1 DEF Sockets!TypeOK
  <2>3. Sockets!TypeOK'
    BY <1>1, <2>1 DEF Sockets!TypeOK, Sockets!Presence, Sockets!Messages
  <2>4. Sockets!NothingMissed' /\ Sockets!JoinsCatchUp'
    BY <1>1, <2>1, <2>2 DEF Sockets!NothingMissed, Sockets!JoinsCatchUp, Sockets!Presence,
       Sockets!Messages
  <2> QED BY <1>1, <2>3, <2>4, StatusKept
<1>3. CASE Sockets!SendBroadcast(m)
  <2>1. /\ v10' = [v10 EXCEPT ![m] = "sent"] /\ v12' = v12
        /\ v8' = [s \in UserSockets |-> IF s \in v5 THEN v8[s] \cup {m} ELSE v8[s]]
    BY <1>3 DEF Sockets!SendBroadcast, Sockets!Reached
  <2>2. \A n \in Sockets!Messages : v10'[n] = "sent" => v10[n] = "sent" \/ n = m
    BY <2>1 DEF Sockets!TypeOK
  <2>3. Sockets!TypeOK'
    BY <1>1, <2>1 DEF Sockets!TypeOK, Sockets!Presence, Sockets!Messages
  <2>4. Sockets!NothingMissed' /\ Sockets!JoinsCatchUp'
    BY <1>1, <2>1, <2>2 DEF Sockets!NothingMissed, Sockets!JoinsCatchUp, Sockets!Presence,
       Sockets!TypeOK, Sockets!Messages
  <2> QED BY <1>1, <2>3, <2>4, StatusKept
<1> QED BY <1>2, <1>3

LEMMA SocketsOthers ==
    ASSUME Sockets!GatewayInv, Sockets!Membership \/ Sockets!Restart
    PROVE  Sockets!GatewayInv'
<1> USE DEF Sockets!GatewayInv
<1>1. CASE Sockets!Membership
  <2>1. v4' \in BOOLEAN /\ UNCHANGED Sockets!Presence
        /\ UNCHANGED <<v5, v6, v7, v8, v9, v10, v11, v12>>
    BY <1>1 DEF Sockets!Membership, Sockets!Rooms, Sockets!TypeOK
  <2> QED BY <2>1, StatusKept DEF Sockets!TypeOK, Sockets!NothingMissed, Sockets!JoinsCatchUp,
          Sockets!Presence
<1>2. CASE Sockets!Restart
  BY <1>2 DEF Sockets!Restart, Sockets!TypeOK, Sockets!NothingMissed, Sockets!JoinsCatchUp,
     Sockets!StatusIsComing
<1> QED BY <1>1, <1>2

LEMMA SocketsStep == Sockets!GatewayInv /\ Sockets!Next => Sockets!GatewayInv'
BY SocketsConnect, SocketsDisconnect, SocketsBroadcast, SocketsJoin, SocketsSend, SocketsOthers
DEF Sockets!Next

LEMMA SocketsStutter ==
    ASSUME Sockets!GatewayInv, UNCHANGED all
    PROVE  Sockets!GatewayInv'
BY DEF all, Sockets!GatewayInv, Sockets!TypeOK, Sockets!NothingMissed, Sockets!JoinsCatchUp,
   Sockets!StatusIsComing, Sockets!Status

(***************************************************************************)
(* ChatConversation: v1 mix, v2 participant, v3 message, v4 reactions,      *)
(* v5 lastMessage, v6 call, v7 restarts, v8 notified, v9 raced,             *)
(* v10 doubled, v11 slipped                                                *)
(***************************************************************************)
LEMMA ConversationCount ==
    /\ \A S : Conversation!Cardinality(S) = Cardinality(S)
    /\ \A S : Conversation!IsFiniteSet(S) = IsFiniteSet(S)
BY DEF Conversation!Cardinality, Cardinality, Conversation!IsFiniteSet, IsFiniteSet

\* Sets of slots, and one slot more or less.
LEMMA SlotsAreCounted ==
    ASSUME NEW S \in SUBSET Requests
    PROVE  /\ Conversation!Cardinality(S) \in Nat
           /\ \A T \in SUBSET S : /\ Conversation!Cardinality(T) \in Nat
                                  /\ Conversation!Cardinality(T) <= Conversation!Cardinality(S)
           /\ \A r \in Requests \ S :
                Conversation!Cardinality(S \cup {r}) = Conversation!Cardinality(S) + 1
           /\ \A r \in S : Conversation!Cardinality(S \ {r}) = Conversation!Cardinality(S) - 1
<1>1. IsFiniteSet(S)
  BY ServicesAssumption, ConversationCount, FS_Subset DEF Conversation!ConversationAssumption
<1>2. Cardinality(S) \in Nat
  BY <1>1, FS_CardinalityType
<1>3. \A T \in SUBSET S : Cardinality(T) \in Nat /\ Cardinality(T) <= Cardinality(S)
  BY <1>1, FS_Subset, FS_CardinalityType
<1>4. \A r \in Requests \ S : Cardinality(S \cup {r}) = Cardinality(S) + 1
  BY <1>1, FS_AddElement
<1>5. \A r \in S : Cardinality(S \ {r}) = Cardinality(S) - 1
  BY <1>1, FS_RemoveElement
<1> QED BY <1>2, <1>3, <1>4, <1>5, ConversationCount

LEMMA NobodyIsCounted == Conversation!Cardinality({}) = 0
BY ConversationCount, FS_EmptySet

LEMMA IdleConversation == Conversation!Idle.op = "none"
BY DEF Conversation!Idle

LEMMA ConversationInit == Conversation!Init => Conversation!ConversationInv
<1> SUFFICES ASSUME Conversation!Init PROVE Conversation!ConversationInv
  OBVIOUS
<1> USE DEF Conversation!Init
<1>1. \A r \in Requests : v6[r].op = "none"
  BY IdleConversation
<1>2. v3 \in Seq(Conversation!Message) /\ Len(v3) = 0 /\ Conversation!Ids = {}
  BY EmptySeq DEF Conversation!Ids
<1>3. /\ Conversation!Inserting = {}
      /\ \A x : Conversation!Reacting(x) = {}
      /\ \A u : Conversation!Telling(u) = {} /\ Conversation!Holding(u) = {}
  BY <1>1 DEF Conversation!Inserting, Conversation!Reacting, Conversation!Telling,
     Conversation!Holding, Conversation!Running, Conversation!RowOps
<1>4. Conversation!Cardinality(Requests) \in Nat
  BY SlotsAreCounted
<1>5. 0 <= ConversationMessages
  BY ServicesAssumption DEF Conversation!ConversationAssumption
<1>6. Conversation!TypeOK
  BY <1>1, <1>2, <1>4, <1>5 DEF Conversation!TypeOK, Conversation!Participant, Conversation!Ids
<1>7. Conversation!CallsAreTyped
  BY <1>1 DEF Conversation!CallsAreTyped, Conversation!RowOps
<1>8. Conversation!DeletedSaysNothing
  BY <1>2 DEF Conversation!DeletedSaysNothing
<1>9. Conversation!RoomForMessages
  BY <1>2, <1>3, <1>5, NobodyIsCounted DEF Conversation!RoomForMessages
<1>10. Conversation!ReactionsAddUp
  <2> SUFFICES ASSUME NEW x \in DOMAIN v4
               PROVE  /\ v4[x] + Conversation!Cardinality(Conversation!Reacting(x))
                            <= Conversation!Cardinality(Requests)
                      /\ v4[x] + Conversation!Cardinality(Conversation!Reacting(x)) <= 1
    BY DEF Conversation!ReactionsAddUp
  <2>1. Conversation!Cardinality(Conversation!Reacting(x)) = 0 /\ v4[x] = 0
    BY <1>3, NobodyIsCounted
  <2> QED BY <1>4, <2>1
<1>11. Conversation!UnreadAddsUp
  <2> SUFFICES ASSUME NEW u \in Users
               PROVE  v2[u].unread = v8[u] + IF v2[u].active
                        THEN Conversation!Cardinality(Conversation!Telling(u)) ELSE 0
    BY <1>3 DEF Conversation!UnreadAddsUp
  <2>1. Conversation!Cardinality(Conversation!Telling(u)) = 0
    BY <1>3, NobodyIsCounted
  <2> QED BY <2>1
<1> QED BY <1>6, <1>7, <1>8, <1>9, <1>10, <1>11 DEF Conversation!ConversationInv

LEMMA ConversationHolds ==
    Conversation!ConversationInv
        => /\ Conversation!TypeOK /\ Conversation!UnreadWasNotified
           /\ Conversation!DeletedSaysNothing /\ Conversation!OneReactionEach
<1> SUFFICES ASSUME Conversation!ConversationInv
             PROVE  Conversation!UnreadWasNotified /\ Conversation!OneReactionEach
  BY DEF Conversation!ConversationInv
<1>1. Conversation!UnreadWasNotified
  <2> SUFFICES ASSUME NEW u \in Users \ v9,
                      \A q \in Conversation!Running("send") : v6[q].sender = u \/ v6[q].step # "tell"
               PROVE  v2[u].unread = v8[u]
    BY DEF Conversation!UnreadWasNotified
  <2>1. Conversation!Telling(u) = {}
    BY DEF Conversation!Telling
  <2>2. v8[u] \in Nat
    BY DEF Conversation!ConversationInv, Conversation!TypeOK
  <2> QED BY <2>1, <2>2, NobodyIsCounted DEF Conversation!ConversationInv, Conversation!UnreadAddsUp
<1>2. Conversation!OneReactionEach
  <2> SUFFICES ASSUME NEW x \in DOMAIN v4, x \notin v10 PROVE v4[x] <= 1
    BY DEF Conversation!OneReactionEach
  <2>1. v4[x] + Conversation!Cardinality(Conversation!Reacting(x)) <= 1
    BY DEF Conversation!ConversationInv, Conversation!ReactionsAddUp
  <2>2. Conversation!Cardinality(Conversation!Reacting(x)) \in Nat
    BY SlotsAreCounted DEF Conversation!Reacting, Conversation!Running
  <2>3. v4[x] \in Int
    BY DEF Conversation!ConversationInv, Conversation!TypeOK
  <2> QED BY <2>1, <2>2, <2>3
<1> QED BY <1>1, <1>2

(***************************************************************************)
(* What does not touch a part of it leaves that part as it is              *)
(***************************************************************************)
LEMMA CallGoes ==
    ASSUME Conversation!CallsAreTyped, NEW r \in Requests, NEW c, Conversation!Goes(r, c)
    PROVE  /\ DOMAIN v6' = Requests /\ v6'[r] = c
           /\ \A q \in Requests : q # r => v6'[q] = v6[q]
BY DEF Conversation!CallsAreTyped, Conversation!Goes

LEMMA RoomKept ==
    ASSUME Conversation!RoomForMessages, Conversation!TypeOK, Len(v3') = Len(v3),
           Conversation!Inserting' \subseteq Conversation!Inserting
    PROVE  Conversation!RoomForMessages'
<1>1. Conversation!Inserting \subseteq Requests
  BY DEF Conversation!Inserting, Conversation!Running
<1>2. /\ Conversation!Cardinality(Conversation!Inserting) \in Nat
      /\ Conversation!Cardinality(Conversation!Inserting') \in Nat
      /\ Conversation!Cardinality(Conversation!Inserting')
            <= Conversation!Cardinality(Conversation!Inserting)
  BY <1>1, SlotsAreCounted
<1>3. Len(v3) \in Nat /\ ConversationMessages \in Nat
  BY ServicesAssumption, LenProperties
  DEF Conversation!TypeOK, Conversation!ConversationAssumption
<1> QED BY <1>2, <1>3 DEF Conversation!RoomForMessages

LEMMA ReactionsKept ==
    ASSUME Conversation!ReactionsAddUp, Conversation!TypeOK, UNCHANGED <<v4, v10>>,
           \A x : Conversation!Reacting(x)' \subseteq Conversation!Reacting(x)
    PROVE  Conversation!ReactionsAddUp'
<1> SUFFICES ASSUME NEW x \in DOMAIN v4
             PROVE  /\ v4[x] + Conversation!Cardinality(Conversation!Reacting(x)')
                            <= Conversation!Cardinality(Requests)
                    /\ x \notin v10
                        => v4[x] + Conversation!Cardinality(Conversation!Reacting(x)') <= 1
  BY DEF Conversation!ReactionsAddUp
<1>1. Conversation!Reacting(x) \subseteq Requests
  BY DEF Conversation!Reacting, Conversation!Running
<1>2. /\ Conversation!Cardinality(Conversation!Reacting(x)) \in Nat
      /\ Conversation!Cardinality(Conversation!Reacting(x)') \in Nat
      /\ Conversation!Cardinality(Conversation!Reacting(x)')
            <= Conversation!Cardinality(Conversation!Reacting(x))
      /\ Conversation!Cardinality(Requests) \in Nat
  BY <1>1, SlotsAreCounted
<1>3. v4[x] \in Int
  BY DEF Conversation!TypeOK, Conversation!Ids
<1>4. /\ v4[x] + Conversation!Cardinality(Conversation!Reacting(x))
            <= Conversation!Cardinality(Requests)
      /\ x \notin v10 => v4[x] + Conversation!Cardinality(Conversation!Reacting(x)) <= 1
  BY DEF Conversation!ReactionsAddUp
<1> QED BY <1>2, <1>3, <1>4

\* Requests that touch no count of unread messages.
LEMMA UnreadKept ==
    ASSUME Conversation!UnreadAddsUp, UNCHANGED <<v2, v8>>, v9 \subseteq v9',
           \A u \in Users \ v9' :
              /\ \A q \in Conversation!Holding(u)' :
                    /\ q \in Conversation!Holding(u) /\ v6'[q] = v6[q]
                    /\ Conversation!SendingTo(u)' \subseteq Conversation!SendingTo(u)
              /\ Conversation!Telling(u)' = Conversation!Telling(u)
    PROVE  Conversation!UnreadAddsUp'
<1> SUFFICES ASSUME NEW u \in Users \ v9'
             PROVE  /\ \A q \in Conversation!Holding(u)' :
                        /\ v6'[q].row = v2[u] /\ Conversation!SendingTo(u)' = {}
                        /\ Conversation!Holding(u)' = {q}
                    /\ v2[u].unread = v8[u] + IF v2[u].active
                        THEN Conversation!Cardinality(Conversation!Telling(u)') ELSE 0
  BY DEF Conversation!UnreadAddsUp
<1>1. /\ \A q \in Conversation!Holding(u) :
            /\ v6[q].row = v2[u] /\ Conversation!SendingTo(u) = {}
            /\ Conversation!Holding(u) = {q}
      /\ v2[u].unread = v8[u] + IF v2[u].active
            THEN Conversation!Cardinality(Conversation!Telling(u)) ELSE 0
  BY DEF Conversation!UnreadAddsUp
<1>2. ASSUME NEW q \in Conversation!Holding(u)'
      PROVE  /\ v6'[q].row = v2[u] /\ Conversation!SendingTo(u)' = {}
             /\ Conversation!Holding(u)' = {q}
  BY <1>1
<1> QED BY <1>1, <1>2

\* A slot that gets a call of another kind, or none, is in no set of the old kind, and the
\* other slots stay where they are.
LEMMA OthersStay ==
    ASSUME Conversation!CallsAreTyped, NEW r \in Requests, NEW c, Conversation!Goes(r, c)
    PROVE  /\ Conversation!Running("send") \ {r} = Conversation!Running("send")' \ {r}
           /\ Conversation!Inserting \ {r} = Conversation!Inserting' \ {r}
           /\ \A x : Conversation!Reacting(x) \ {r} = Conversation!Reacting(x)' \ {r}
           /\ \A u : /\ Conversation!Telling(u) \ {r} = Conversation!Telling(u)' \ {r}
                     /\ Conversation!SendingTo(u) \ {r} = Conversation!SendingTo(u)' \ {r}
                     /\ Conversation!Holding(u) \ {r} = Conversation!Holding(u)' \ {r}
BY CallGoes DEF Conversation!Inserting, Conversation!Reacting, Conversation!Telling,
   Conversation!SendingTo, Conversation!Holding, Conversation!Running

\* What a slot does that sends nothing, reacts to nothing or holds no row, before and after,
\* leaves those who do.
LEMMA SlotsStay ==
    ASSUME Conversation!CallsAreTyped, NEW r \in Requests, NEW c, Conversation!Goes(r, c)
    PROVE  /\ v6[r].op # "send" /\ c.op # "send"
                => /\ Conversation!Inserting' = Conversation!Inserting
                   /\ \A u : /\ Conversation!Telling(u)' = Conversation!Telling(u)
                             /\ Conversation!SendingTo(u)' = Conversation!SendingTo(u)
           /\ v6[r].op # "react" /\ c.op # "react"
                => \A x : Conversation!Reacting(x)' = Conversation!Reacting(x)
           /\ v6[r].op \notin Conversation!RowOps /\ c.op \notin Conversation!RowOps
                => \A u : /\ Conversation!Holding(u)' = Conversation!Holding(u)
                          /\ \A q \in Conversation!Holding(u) : v6'[q] = v6[q]
<1>1. /\ v6'[r] = c
      /\ \A q \in Requests : q # r => v6'[q] = v6[q]
  BY CallGoes
<1>2. ASSUME v6[r].op # "send", c.op # "send"
      PROVE  /\ Conversation!Inserting' = Conversation!Inserting
             /\ \A u : /\ Conversation!Telling(u)' = Conversation!Telling(u)
                       /\ Conversation!SendingTo(u)' = Conversation!SendingTo(u)
  <2>1. Conversation!Inserting' = Conversation!Inserting
    <3>1. r \notin Conversation!Inserting /\ r \notin Conversation!Inserting'
      BY <1>1, <1>2 DEF Conversation!Inserting, Conversation!Running
    <3> QED BY <3>1, OthersStay
  <2>2. ASSUME NEW u
        PROVE  /\ Conversation!Telling(u)' = Conversation!Telling(u)
               /\ Conversation!SendingTo(u)' = Conversation!SendingTo(u)
    <3>1. /\ r \notin Conversation!Telling(u) /\ r \notin Conversation!Telling(u)'
          /\ r \notin Conversation!SendingTo(u) /\ r \notin Conversation!SendingTo(u)'
      BY <1>1, <1>2 DEF Conversation!Telling, Conversation!SendingTo, Conversation!Running
    <3>2. /\ Conversation!Telling(u) \ {r} = Conversation!Telling(u)' \ {r}
          /\ Conversation!SendingTo(u) \ {r} = Conversation!SendingTo(u)' \ {r}
      BY OthersStay
    <3> QED BY <3>1, <3>2
  <2> QED BY <2>1, <2>2
<1>3. ASSUME v6[r].op # "react", c.op # "react", NEW x
      PROVE  Conversation!Reacting(x)' = Conversation!Reacting(x)
  <2>1. r \notin Conversation!Reacting(x) /\ r \notin Conversation!Reacting(x)'
    BY <1>1, <1>3 DEF Conversation!Reacting, Conversation!Running
  <2>2. Conversation!Reacting(x) \ {r} = Conversation!Reacting(x)' \ {r}
    BY OthersStay
  <2> QED BY <2>1, <2>2
<1>4. ASSUME v6[r].op \notin Conversation!RowOps, c.op \notin Conversation!RowOps, NEW u
      PROVE  /\ Conversation!Holding(u)' = Conversation!Holding(u)
             /\ \A q \in Conversation!Holding(u) : v6'[q] = v6[q]
  <2>1. r \notin Conversation!Holding(u) /\ r \notin Conversation!Holding(u)'
    BY <1>1, <1>4 DEF Conversation!Holding, Conversation!RowOps
  <2>2. Conversation!Holding(u) \ {r} = Conversation!Holding(u)' \ {r}
    BY OthersStay
  <2>3. Conversation!Holding(u) \subseteq Requests
    BY DEF Conversation!Holding
  <2> QED BY <1>1, <2>1, <2>2, <2>3
<1> QED BY <1>2, <1>3, <1>4

\* A slot gets a call whose fields are those of its kind.
LEMMA CallTyped ==
    ASSUME Conversation!CallsAreTyped, NEW r \in Requests, NEW c, Conversation!Goes(r, c),
           Conversation!Ids \subseteq Conversation!Ids', v11 \subseteq v11',
           c.op = "send" => /\ c.step \in {"insert", "summary", "count", "tell"}
                            /\ c.sender \in Users
                            /\ c.step = "summary" => c.id \in Conversation!Ids',
           c.op \in {"edit", "delete"}
                => /\ c.step \in {"select", "update"}
                   /\ c.id \in Conversation!Ids /\ c.row \in Conversation!Message
                   /\ ~c.row.isDeleted
                   /\ c.id \in v11' \/ c.row.content # "none"
                   /\ c.step = "update" => c.base \in Conversation!Message,
           c.op \in Conversation!RowOps
                => c.whose \in Users /\ c.row \in Conversation!Participant,
           c.op = "react" => c.on \in (1..MaxReacted) \X Users
    PROVE  Conversation!CallsAreTyped'
<1>1. /\ DOMAIN v6' = Requests /\ v6'[r] = c
      /\ \A q \in Requests : q # r => v6'[q] = v6[q]
  BY CallGoes
<1>2. ASSUME NEW q \in Requests
      PROVE  /\ v6'[q].op = "send"
                  => /\ v6'[q].step \in {"insert", "summary", "count", "tell"}
                     /\ v6'[q].sender \in Users
                     /\ v6'[q].step = "summary" => v6'[q].id \in Conversation!Ids'
             /\ v6'[q].op \in {"edit", "delete"}
                  => /\ v6'[q].step \in {"select", "update"}
                     /\ v6'[q].id \in Conversation!Ids' /\ v6'[q].row \in Conversation!Message
                     /\ ~v6'[q].row.isDeleted
                     /\ v6'[q].id \in v11' \/ v6'[q].row.content # "none"
                     /\ v6'[q].step = "update" => v6'[q].base \in Conversation!Message
             /\ v6'[q].op \in Conversation!RowOps
                  => v6'[q].whose \in Users /\ v6'[q].row \in Conversation!Participant
             /\ v6'[q].op = "react" => v6'[q].on \in (1..MaxReacted) \X Users
  <2>1. CASE q = r
    BY <1>1, <2>1
  <2>2. CASE q # r
    <3>1. v6'[q] = v6[q]
      BY <1>1, <2>2
    <3> QED BY <3>1 DEF Conversation!CallsAreTyped
  <2> QED BY <2>1, <2>2
<1> QED BY <1>1, <1>2 DEF Conversation!CallsAreTyped, Conversation!Message,
        Conversation!Participant, Conversation!RowOps

LEMMA ConversationSendStart ==
    ASSUME Conversation!ConversationInv, NEW r \in Requests, NEW u \in Users,
           Conversation!SendStart(r, u)
    PROVE  Conversation!ConversationInv'
<1> DEFINE c == [op |-> "send", step |-> "insert", sender |-> u]
<1> USE DEF Conversation!ConversationInv
<1>1. /\ v6[r].op = "none" /\ Conversation!Goes(r, c)
      /\ Len(v3) + Conversation!Cardinality(Conversation!Inserting) < ConversationMessages
      /\ UNCHANGED <<v1, v2, v3, v4, v5, v7, v8, v10, v11>>
      /\ v9' = v9 \cup {w \in Users \ {u} : Conversation!Holding(w) # {}}
  BY IdleConversation DEF Conversation!SendStart, Conversation!Inserting
<1>2. c.op = "send" /\ c.step = "insert" /\ c.sender = u /\ v6'[r] = c
  BY <1>1, CallGoes
<1> HIDE DEF c
<1>3. /\ r \notin Conversation!Inserting
      /\ Conversation!Inserting' = Conversation!Inserting \cup {r}
  <2>1. r \notin Conversation!Inserting /\ r \in Conversation!Inserting'
    BY <1>1, <1>2 DEF Conversation!Inserting, Conversation!Running
  <2> QED BY <1>1, <2>1, OthersStay
<1>4. \A x : Conversation!Reacting(x)' = Conversation!Reacting(x)
  BY <1>1, <1>2, SlotsStay
<1>5. \A w : /\ Conversation!Telling(w)' = Conversation!Telling(w)
             /\ Conversation!Holding(w)' = Conversation!Holding(w)
  <2>1. \A w : Conversation!Holding(w)' = Conversation!Holding(w)
    BY <1>1, <1>2, SlotsStay DEF Conversation!RowOps
  <2>2. ASSUME NEW w PROVE Conversation!Telling(w)' = Conversation!Telling(w)
    <3>1. r \notin Conversation!Telling(w) /\ r \notin Conversation!Telling(w)'
      BY <1>1, <1>2 DEF Conversation!Telling, Conversation!Running
    <3>2. Conversation!Telling(w) \ {r} = Conversation!Telling(w)' \ {r}
      BY <1>1, OthersStay
    <3> QED BY <3>1, <3>2
  <2> QED BY <2>1, <2>2
<1>6. Conversation!SendingTo(u)' \subseteq Conversation!SendingTo(u)
  <2>1. r \notin Conversation!SendingTo(u)'
    BY <1>2 DEF Conversation!SendingTo
  <2> QED BY <1>1, <2>1, OthersStay
<1>7. Conversation!CallsAreTyped'
  BY <1>1, <1>2, CallTyped DEF Conversation!Ids, Conversation!RowOps
<1>8. Conversation!TypeOK'
  BY <1>1, <1>2, CallGoes DEF Conversation!TypeOK, Conversation!Ids
<1>9. Conversation!RoomForMessages'
  <2>1. /\ Conversation!Cardinality(Conversation!Inserting) \in Nat
        /\ Conversation!Cardinality(Conversation!Inserting')
             = Conversation!Cardinality(Conversation!Inserting) + 1
    BY <1>3, SlotsAreCounted DEF Conversation!Inserting, Conversation!Running
  <2>2. Len(v3) \in Nat /\ ConversationMessages \in Nat
    BY ServicesAssumption, LenProperties
    DEF Conversation!TypeOK, Conversation!ConversationAssumption
  <2> QED BY <1>1, <2>1, <2>2 DEF Conversation!RoomForMessages
<1>10. Conversation!ReactionsAddUp'
  BY <1>1, <1>4, ReactionsKept
<1>11. Conversation!UnreadAddsUp'
  <2>1. ASSUME NEW w \in Users \ v9', NEW q \in Conversation!Holding(w)'
        PROVE  /\ q \in Conversation!Holding(w) /\ v6'[q] = v6[q]
               /\ Conversation!SendingTo(w)' \subseteq Conversation!SendingTo(w)
    <3>1. q \in Conversation!Holding(w) /\ w = u
      BY <1>1, <1>5
    <3>2. q \in Requests /\ q # r
      BY <1>1, <3>1 DEF Conversation!Holding, Conversation!RowOps
    <3> QED BY <1>1, <1>6, <3>1, <3>2, CallGoes
  <2> QED BY <1>1, <1>5, <2>1, UnreadKept
<1>12. Conversation!DeletedSaysNothing'
  BY <1>1 DEF Conversation!DeletedSaysNothing, Conversation!Ids
<1> QED BY <1>7, <1>8, <1>9, <1>10, <1>11, <1>12

\* A send goes on to its next step before it tells anybody.
LEMMA SendGoesOn ==
    ASSUME Conversation!CallsAreTyped, NEW r \in Requests, NEW c, Conversation!Goes(r, c),
           v6[r].op = "send", v6[r].step # "tell",
           c.op = "send", c.step \notin {"insert", "tell"}, c.sender = v6[r].sender
    PROVE  /\ Conversation!Inserting' = Conversation!Inserting \ {r}
           /\ \A x : Conversation!Reacting(x)' = Conversation!Reacting(x)
           /\ \A u : /\ Conversation!Telling(u)' = Conversation!Telling(u)
                     /\ Conversation!SendingTo(u)' = Conversation!SendingTo(u)
                     /\ Conversation!Holding(u)' = Conversation!Holding(u)
                     /\ \A q \in Conversation!Holding(u) : v6'[q] = v6[q]
<1>1. v6'[r] = c
  BY CallGoes
<1>2. Conversation!Inserting' = Conversation!Inserting \ {r}
  <2>1. r \notin Conversation!Inserting'
    BY <1>1 DEF Conversation!Inserting
  <2> QED BY <2>1, OthersStay
<1>3. ASSUME NEW u
      PROVE  /\ Conversation!Telling(u)' = Conversation!Telling(u)
             /\ Conversation!SendingTo(u)' = Conversation!SendingTo(u)
  <2>1. /\ r \notin Conversation!Telling(u) /\ r \notin Conversation!Telling(u)'
        /\ r \in Conversation!SendingTo(u) <=> r \in Conversation!SendingTo(u)'
    BY <1>1 DEF Conversation!Telling, Conversation!SendingTo, Conversation!Running
  <2>2. /\ Conversation!Telling(u) \ {r} = Conversation!Telling(u)' \ {r}
        /\ Conversation!SendingTo(u) \ {r} = Conversation!SendingTo(u)' \ {r}
    BY OthersStay
  <2>3. Conversation!Telling(u)' = Conversation!Telling(u)
    BY <2>1, <2>2
  <2>4. Conversation!SendingTo(u)' = Conversation!SendingTo(u)
    BY <2>1, <2>2
  <2> QED BY <2>3, <2>4
<1> QED BY <1>2, <1>3, SlotsStay DEF Conversation!RowOps

LEMMA ConversationSendInsert ==
    ASSUME Conversation!ConversationInv, NEW r \in Requests, Conversation!SendInsert(r)
    PROVE  Conversation!ConversationInv'
<1> DEFINE c == [op |-> "send", step |-> "summary", sender |-> v6[r].sender, id |-> Len(v3')]
           e == [sender |-> v6[r].sender, content |-> "text", isDeleted |-> FALSE]
<1> USE DEF Conversation!ConversationInv
<1>1. /\ v6[r].op = "send" /\ v6[r].step = "insert" /\ Conversation!Goes(r, c)
      /\ v3' = Append(v3, e) /\ UNCHANGED <<v1, v2, v4, v5, v7, v8, v9, v10, v11>>
  BY DEF Conversation!SendInsert, Conversation!History
<1>2. v6[r].sender \in Users
  BY <1>1 DEF Conversation!CallsAreTyped
<1>3. /\ c.op = "send" /\ c.step = "summary" /\ c.sender = v6[r].sender /\ c.id = Len(v3')
      /\ v6'[r] = c
  BY <1>1, CallGoes
<1>4. e \in Conversation!Message /\ e.isDeleted = FALSE /\ e.content = "text"
  BY <1>2 DEF Conversation!Message
<1> HIDE DEF c, e
<1>5. /\ v3 \in Seq(Conversation!Message) /\ Len(v3) \in Nat
      /\ v3' \in Seq(Conversation!Message) /\ Len(v3') = Len(v3) + 1
      /\ v3'[Len(v3) + 1] = e /\ \A m \in 1..Len(v3) : v3'[m] = v3[m]
  BY <1>1, <1>4, AppendProperties, LenProperties DEF Conversation!TypeOK, Conversation!Ids
<1>6. /\ Conversation!Inserting' = Conversation!Inserting \ {r}
      /\ \A x : Conversation!Reacting(x)' = Conversation!Reacting(x)
      /\ \A u : /\ Conversation!Telling(u)' = Conversation!Telling(u)
                /\ Conversation!SendingTo(u)' = Conversation!SendingTo(u)
                /\ Conversation!Holding(u)' = Conversation!Holding(u)
                /\ \A q \in Conversation!Holding(u) : v6'[q] = v6[q]
  BY <1>1, <1>3, SendGoesOn
<1>7. Conversation!RoomForMessages'
  <2>1. r \in Conversation!Inserting
    BY <1>1 DEF Conversation!Inserting, Conversation!Running
  <2>2. /\ Conversation!Cardinality(Conversation!Inserting) \in Nat
        /\ Conversation!Cardinality(Conversation!Inserting')
             = Conversation!Cardinality(Conversation!Inserting) - 1
    BY <1>6, <2>1, SlotsAreCounted DEF Conversation!Inserting, Conversation!Running
  <2>3. ConversationMessages \in Nat
    BY ServicesAssumption DEF Conversation!ConversationAssumption
  <2> QED BY <1>5, <2>2, <2>3 DEF Conversation!RoomForMessages
<1>8. Len(v3') <= ConversationMessages
  <2>1. Conversation!Cardinality(Conversation!Inserting') \in Nat
    BY SlotsAreCounted, <1>6 DEF Conversation!Inserting, Conversation!Running
  <2>2. ConversationMessages \in Nat
    BY ServicesAssumption DEF Conversation!ConversationAssumption
  <2> QED BY <1>5, <1>7, <2>1, <2>2 DEF Conversation!RoomForMessages
<1>9. Conversation!CallsAreTyped'
  <2>1. Conversation!Ids \subseteq Conversation!Ids' /\ Len(v3') \in Conversation!Ids'
    BY <1>5 DEF Conversation!Ids
  <2> QED BY <1>1, <1>2, <1>3, <2>1, CallTyped DEF Conversation!RowOps
<1>10. Conversation!TypeOK'
  <2>1. v11 \subseteq Conversation!Ids'
    BY <1>5 DEF Conversation!TypeOK, Conversation!Ids
  <2>2. v11' \subseteq Conversation!Ids'
    BY <1>1, <2>1
  <2>3. v5' \in 0..Len(v3')
    BY <1>1, <1>5 DEF Conversation!TypeOK
  <2>4. \A q \in Requests :
          v6'[q].op \in {"none", "send", "edit", "delete", "react"} \cup Conversation!RowOps
    BY <1>1, <1>3, CallGoes DEF Conversation!TypeOK
  <2> QED BY <1>1, <1>5, <1>8, <2>2, <2>3, <2>4 DEF Conversation!TypeOK
<1>11. Conversation!DeletedSaysNothing'
  <2> SUFFICES ASSUME NEW m \in Conversation!Ids' \ v11
               PROVE  v3'[m].isDeleted <=> v3'[m].content = "none"
    BY <1>1 DEF Conversation!DeletedSaysNothing
  <2>1. CASE m = Len(v3) + 1
    BY <1>4, <1>5, <2>1
  <2>2. CASE m # Len(v3) + 1
    <3>1. m \in 1..Len(v3)
      BY <1>5, <2>2 DEF Conversation!Ids
    <3>2. v3'[m] = v3[m]
      BY <1>5, <3>1
    <3> QED BY <3>1, <3>2 DEF Conversation!DeletedSaysNothing, Conversation!Ids
  <2> QED BY <2>1, <2>2
<1>12. Conversation!ReactionsAddUp'
  BY <1>1, <1>6, ReactionsKept
<1>13. Conversation!UnreadAddsUp'
  BY <1>1, <1>6, UnreadKept
<1> QED BY <1>7, <1>9, <1>10, <1>11, <1>12, <1>13

LEMMA ConversationSendSummary ==
    ASSUME Conversation!ConversationInv, NEW r \in Requests, Conversation!SendSummary(r)
    PROVE  Conversation!ConversationInv'
<1> DEFINE c == [op |-> "send", step |-> "count", sender |-> v6[r].sender]
<1> USE DEF Conversation!ConversationInv
<1>1. /\ v6[r].op = "send" /\ v6[r].step = "summary" /\ Conversation!Goes(r, c)
      /\ v5' = v6[r].id /\ UNCHANGED <<v1, v2, v3, v4, v7, v8, v9, v10, v11>>
  BY DEF Conversation!SendSummary, Conversation!History
<1>2. v6[r].sender \in Users /\ v6[r].id \in Conversation!Ids
  BY <1>1 DEF Conversation!CallsAreTyped
<1>3. c.op = "send" /\ c.step = "count" /\ c.sender = v6[r].sender /\ v6'[r] = c
  BY <1>1, CallGoes
<1> HIDE DEF c
<1>4. /\ Conversation!Inserting' = Conversation!Inserting \ {r}
      /\ \A x : Conversation!Reacting(x)' = Conversation!Reacting(x)
      /\ \A u : /\ Conversation!Telling(u)' = Conversation!Telling(u)
                /\ Conversation!SendingTo(u)' = Conversation!SendingTo(u)
                /\ Conversation!Holding(u)' = Conversation!Holding(u)
                /\ \A q \in Conversation!Holding(u) : v6'[q] = v6[q]
  BY <1>1, <1>3, SendGoesOn
<1>5. Conversation!CallsAreTyped'
  BY <1>1, <1>2, <1>3, CallTyped DEF Conversation!RowOps, Conversation!Ids
<1>6. Conversation!TypeOK'
  <2>1. v5' \in 0..Len(v3)
    BY <1>1, <1>2, LenProperties DEF Conversation!Ids, Conversation!TypeOK
  <2> QED BY <1>1, <1>3, <2>1, CallGoes DEF Conversation!TypeOK, Conversation!Ids
<1>7. Conversation!RoomForMessages' /\ Conversation!ReactionsAddUp' /\ Conversation!UnreadAddsUp'
  BY <1>1, <1>4, RoomKept, ReactionsKept, UnreadKept
<1>8. Conversation!DeletedSaysNothing'
  BY <1>1 DEF Conversation!DeletedSaysNothing, Conversation!Ids
<1> QED BY <1>5, <1>6, <1>7, <1>8

\* A send that counts, and the next that tells: those it is for are counted or told one more.
LEMMA ConversationSendCount ==
    ASSUME Conversation!ConversationInv, NEW r \in Requests, Conversation!SendCount(r)
    PROVE  Conversation!ConversationInv'
<1> DEFINE c == [op |-> "send", step |-> "tell", sender |-> v6[r].sender]
<1> USE DEF Conversation!ConversationInv
<1>1. /\ v6[r].op = "send" /\ v6[r].step = "count" /\ Conversation!Goes(r, c)
      /\ v2' = [u \in Users |-> IF u # v6[r].sender /\ v2[u].active
                                THEN [v2[u] EXCEPT !.unread = @ + 1] ELSE v2[u]]
      /\ UNCHANGED <<v1, v3, v4, v5, v7, v8, v9, v10, v11>>
  BY DEF Conversation!SendCount, Conversation!History
<1>2. v6[r].sender \in Users
  BY <1>1 DEF Conversation!CallsAreTyped
<1>3. c.op = "send" /\ c.step = "tell" /\ c.sender = v6[r].sender /\ v6'[r] = c
  BY <1>1, CallGoes
<1> HIDE DEF c
<1>4. \A u \in Users : v2[u] \in Conversation!Participant
  BY DEF Conversation!TypeOK, Conversation!Ids
<1>5. \A u \in Users :
        /\ v2'[u] \in Conversation!Participant /\ v2'[u].active = v2[u].active
        /\ v2'[u].unread = v2[u].unread + (IF u # v6[r].sender /\ v2[u].active THEN 1 ELSE 0)
        /\ u = v6[r].sender => v2'[u] = v2[u]
  BY <1>1, <1>4 DEF Conversation!Participant
<1>6. Conversation!CallsAreTyped'
  BY <1>1, <1>2, <1>3, CallTyped DEF Conversation!RowOps, Conversation!Ids
<1>7. Conversation!TypeOK'
  <2>1. v2' \in [Users -> Conversation!Participant]
    BY <1>1, <1>5
  <2> QED BY <1>1, <1>3, <2>1, CallGoes DEF Conversation!TypeOK, Conversation!Ids
<1>8. Conversation!RoomForMessages'
  <2>1. Conversation!Inserting' \subseteq Conversation!Inserting
    <3>1. r \notin Conversation!Inserting'
      BY <1>3 DEF Conversation!Inserting
    <3> QED BY <1>1, <3>1, OthersStay
  <2> QED BY <1>1, <2>1, RoomKept
<1>9. Conversation!ReactionsAddUp'
  BY <1>1, <1>3, SlotsStay, ReactionsKept
<1>10. Conversation!UnreadAddsUp'
  <2>9. v8' = v8 /\ v9' = v9
    BY <1>1
  <2> SUFFICES ASSUME NEW u \in Users \ v9
               PROVE  /\ \A q \in Conversation!Holding(u)' :
                          /\ v6'[q].row = v2'[u] /\ Conversation!SendingTo(u)' = {}
                          /\ Conversation!Holding(u)' = {q}
                      /\ v2'[u].unread = v8[u] + IF v2'[u].active
                          THEN Conversation!Cardinality(Conversation!Telling(u)') ELSE 0
    BY <2>9 DEF Conversation!UnreadAddsUp
  <2>1. /\ \A q \in Conversation!Holding(u) :
              /\ v6[q].row = v2[u] /\ Conversation!SendingTo(u) = {}
              /\ Conversation!Holding(u) = {q}
        /\ v2[u].unread = v8[u] + IF v2[u].active
              THEN Conversation!Cardinality(Conversation!Telling(u)) ELSE 0
    BY DEF Conversation!UnreadAddsUp
  <2>2. Conversation!Holding(u)' = Conversation!Holding(u)
        /\ \A q \in Conversation!Holding(u) : v6'[q] = v6[q]
    BY <1>1, <1>3, SlotsStay DEF Conversation!RowOps
  <2>3. r \notin Conversation!Telling(u) /\ (r \in Conversation!Telling(u)' <=> u # v6[r].sender)
    BY <1>1, <1>3 DEF Conversation!Telling, Conversation!Running
  <2>4. /\ Conversation!Telling(u) \ {r} = Conversation!Telling(u)' \ {r}
        /\ Conversation!SendingTo(u) \ {r} = Conversation!SendingTo(u)' \ {r}
    BY <1>1, OthersStay
  <2>5. Conversation!Telling(u) \in SUBSET Requests
    BY DEF Conversation!Telling, Conversation!Running
  <2>6. v8[u] \in Nat /\ v2[u].active \in BOOLEAN
    BY <1>4 DEF Conversation!TypeOK, Conversation!Participant, Conversation!Ids
  <2>7. CASE u = v6[r].sender
    <3>1. v2'[u] = v2[u]
      BY <1>5, <2>7
    <3>2. Conversation!Telling(u)' = Conversation!Telling(u)
      BY <2>3, <2>4, <2>7
    <3>3. r \notin Conversation!SendingTo(u)'
      BY <1>3, <2>7 DEF Conversation!SendingTo
    <3>4. Conversation!SendingTo(u)' \subseteq Conversation!SendingTo(u)
      BY <2>4, <3>3
    <3> QED BY <2>1, <2>2, <3>1, <3>2, <3>4
  <2>8. CASE u # v6[r].sender
    <3>1. r \in Conversation!SendingTo(u)
      BY <1>1, <2>8 DEF Conversation!SendingTo, Conversation!Running
    <3>2. Conversation!Holding(u) = {}
      BY <2>1, <3>1
    <3>3. Conversation!Telling(u)' = Conversation!Telling(u) \cup {r}
      BY <2>3, <2>4, <2>8
    <3>4. /\ Conversation!Cardinality(Conversation!Telling(u)) \in Nat
          /\ Conversation!Cardinality(Conversation!Telling(u)')
               = Conversation!Cardinality(Conversation!Telling(u)) + 1
      BY <2>3, <2>5, <3>3, SlotsAreCounted
    <3>5. v2'[u].active = v2[u].active
          /\ v2'[u].unread = v2[u].unread + (IF v2[u].active THEN 1 ELSE 0)
      BY <1>5, <2>8
    <3>6. v2'[u].unread = v8[u] + IF v2'[u].active
            THEN Conversation!Cardinality(Conversation!Telling(u)') ELSE 0
      <4>1. CASE v2[u].active
        BY <2>1, <2>6, <3>4, <3>5, <4>1
      <4>2. CASE ~v2[u].active
        BY <2>1, <2>6, <3>5, <4>2
      <4> QED BY <4>1, <4>2
    <3>7. Conversation!Holding(u)' = {}
      BY <2>2, <3>2
    <3> QED BY <3>6, <3>7
  <2> QED BY <2>7, <2>8
<1>11. Conversation!DeletedSaysNothing'
  BY <1>1 DEF Conversation!DeletedSaysNothing, Conversation!Ids
<1> QED BY <1>6, <1>7, <1>8, <1>9, <1>10, <1>11

LEMMA ConversationSendTell ==
    ASSUME Conversation!ConversationInv, NEW r \in Requests, Conversation!SendTell(r)
    PROVE  Conversation!ConversationInv'
<1> DEFINE c == Conversation!Idle
<1> USE DEF Conversation!ConversationInv
<1>1. /\ v6[r].op = "send" /\ v6[r].step = "tell" /\ Conversation!Goes(r, c)
      /\ v8' = [u \in Users |-> IF u \in Conversation!Others(v6[r].sender)
                                THEN v8[u] + 1 ELSE v8[u]]
      /\ UNCHANGED <<v1, v2, v3, v4, v5, v7, v9, v10, v11>>
  BY DEF Conversation!SendTell
<1>2. c.op = "none" /\ v6'[r] = c
  BY <1>1, CallGoes, IdleConversation
<1> HIDE DEF c
<1>3. \A u \in Users : v8[u] \in Nat
  BY DEF Conversation!TypeOK, Conversation!Ids
<1>4. \A u \in Users : v8'[u] = v8[u] + IF u # v6[r].sender /\ v2[u].active THEN 1 ELSE 0
  BY <1>1, <1>3 DEF Conversation!Others
<1>5. Conversation!CallsAreTyped'
  BY <1>1, <1>2, CallTyped DEF Conversation!RowOps, Conversation!Ids
<1>6. Conversation!TypeOK'
  <2>1. v8' \in [Users -> Nat]
    BY <1>1, <1>3
  <2> QED BY <1>1, <1>2, <2>1, CallGoes DEF Conversation!TypeOK, Conversation!Ids
<1>7. Conversation!RoomForMessages'
  <2>1. Conversation!Inserting' \subseteq Conversation!Inserting
    <3>1. r \notin Conversation!Inserting'
      BY <1>2 DEF Conversation!Inserting, Conversation!Running
    <3> QED BY <1>1, <3>1, OthersStay
  <2> QED BY <1>1, <2>1, RoomKept
<1>8. Conversation!ReactionsAddUp'
  BY <1>1, <1>2, SlotsStay, ReactionsKept
<1>9. Conversation!UnreadAddsUp'
  <2> SUFFICES ASSUME NEW u \in Users \ v9
               PROVE  /\ \A q \in Conversation!Holding(u)' :
                          /\ v6'[q].row = v2[u] /\ Conversation!SendingTo(u)' = {}
                          /\ Conversation!Holding(u)' = {q}
                      /\ v2[u].unread = v8'[u] + IF v2[u].active
                          THEN Conversation!Cardinality(Conversation!Telling(u)') ELSE 0
    BY <1>1 DEF Conversation!UnreadAddsUp
  <2>1. /\ \A q \in Conversation!Holding(u) :
              /\ v6[q].row = v2[u] /\ Conversation!SendingTo(u) = {}
              /\ Conversation!Holding(u) = {q}
        /\ v2[u].unread = v8[u] + IF v2[u].active
              THEN Conversation!Cardinality(Conversation!Telling(u)) ELSE 0
    BY DEF Conversation!UnreadAddsUp
  <2>2. Conversation!Holding(u)' = Conversation!Holding(u)
        /\ \A q \in Conversation!Holding(u) : v6'[q] = v6[q]
    BY <1>1, <1>2, SlotsStay DEF Conversation!RowOps
  <2>3. /\ r \notin Conversation!Telling(u)' /\ r \notin Conversation!SendingTo(u)'
        /\ r \in Conversation!Telling(u) <=> u # v6[r].sender
    BY <1>1, <1>2 DEF Conversation!Telling, Conversation!SendingTo, Conversation!Running
  <2>4. /\ Conversation!Telling(u)' = Conversation!Telling(u) \ {r}
        /\ Conversation!SendingTo(u)' \subseteq Conversation!SendingTo(u)
    BY <1>1, <2>3, OthersStay
  <2>5. Conversation!Telling(u) \in SUBSET Requests
    BY DEF Conversation!Telling, Conversation!Running
  <2>6. \A q \in Conversation!Holding(u)' :
          /\ v6'[q].row = v2[u] /\ Conversation!SendingTo(u)' = {}
          /\ Conversation!Holding(u)' = {q}
    BY <2>1, <2>2, <2>4
  <2>7. Conversation!Cardinality(Conversation!Telling(u)) \in Nat /\ v8[u] \in Nat
    BY <1>3, <2>5, SlotsAreCounted
  <2>8. Conversation!Cardinality(Conversation!Telling(u)')
          = Conversation!Cardinality(Conversation!Telling(u))
              - (IF u # v6[r].sender THEN 1 ELSE 0)
    <3>1. CASE u # v6[r].sender
      BY <2>3, <2>4, <2>5, <3>1, SlotsAreCounted
    <3>2. CASE u = v6[r].sender
      <4>1. Conversation!Telling(u)' = Conversation!Telling(u)
        BY <2>3, <2>4, <3>2
      <4> QED BY <2>7, <3>2, <4>1
    <3> QED BY <3>1, <3>2
  <2>9. v2[u].unread = v8'[u] + IF v2[u].active
            THEN Conversation!Cardinality(Conversation!Telling(u)') ELSE 0
    <3>1. v8'[u] = v8[u] + IF u # v6[r].sender /\ v2[u].active THEN 1 ELSE 0
      BY <1>4
    <3>2. CASE v2[u].active
      BY <2>1, <2>7, <2>8, <3>1, <3>2
    <3>3. CASE ~v2[u].active
      BY <2>1, <2>7, <3>1, <3>3
    <3> QED BY <3>2, <3>3
  <2> QED BY <2>6, <2>9
<1>10. Conversation!DeletedSaysNothing'
  BY <1>1 DEF Conversation!DeletedSaysNothing, Conversation!Ids
<1> QED BY <1>5, <1>6, <1>7, <1>8, <1>9, <1>10

\* What neither sends, nor reacts, nor holds a row, before and after.
LEMMA ElsewhereKept ==
    ASSUME Conversation!ConversationInv, NEW r \in Requests, NEW c, Conversation!Goes(r, c),
           UNCHANGED <<v2, v4, v8, v9, v10>>, Len(v3') = Len(v3),
           v6[r].op \in {"none", "edit", "delete"}, c.op \in {"none", "edit", "delete"}
    PROVE  /\ Conversation!RoomForMessages' /\ Conversation!ReactionsAddUp'
           /\ Conversation!UnreadAddsUp'
BY SlotsStay, RoomKept, ReactionsKept, UnreadKept
DEF Conversation!ConversationInv, Conversation!RowOps

LEMMA ConversationChangeLoad ==
    ASSUME Conversation!ConversationInv, NEW r \in Requests, NEW op \in {"edit", "delete"},
           NEW m \in Conversation!Ids, Conversation!ChangeLoad(r, op, m)
    PROVE  Conversation!ConversationInv'
<1> DEFINE c == [op |-> op, step |-> "select", id |-> m, row |-> v3[m]]
<1> USE DEF Conversation!ConversationInv
<1>1. /\ v6[r].op = "none" /\ Conversation!Goes(r, c) /\ ~v3[m].isDeleted
      /\ UNCHANGED <<v1, v2, v3, v4, v5, v7, v8, v9, v10, v11>>
  BY IdleConversation DEF Conversation!ChangeLoad, Conversation!History
<1>2. c.op = op /\ c.step = "select" /\ c.id = m /\ c.row = v3[m] /\ v6'[r] = c
  BY <1>1, CallGoes
<1> HIDE DEF c
<1>3. v3[m] \in Conversation!Message /\ (m \in v11 \/ v3[m].content # "none")
  BY <1>1, ElementOfSeq DEF Conversation!TypeOK, Conversation!Ids, Conversation!DeletedSaysNothing
<1>4. Conversation!CallsAreTyped'
  BY <1>1, <1>2, <1>3, CallTyped DEF Conversation!RowOps, Conversation!Ids
<1>5. Conversation!TypeOK'
  BY <1>1, <1>2, CallGoes DEF Conversation!TypeOK, Conversation!Ids
<1>6. Conversation!RoomForMessages' /\ Conversation!ReactionsAddUp' /\ Conversation!UnreadAddsUp'
  BY <1>1, <1>2, ElsewhereKept
<1>7. Conversation!DeletedSaysNothing'
  BY <1>1 DEF Conversation!DeletedSaysNothing, Conversation!Ids
<1> QED BY <1>4, <1>5, <1>6, <1>7

\* The first statement of a save: the row is read again.
LEMMA ConversationSaveSelect ==
    ASSUME Conversation!ConversationInv, NEW r \in Requests, Conversation!SaveSelect(r)
    PROVE  Conversation!ConversationInv'
<1> DEFINE c == [op |-> v6[r].op, step |-> "update", id |-> v6[r].id, row |-> v6[r].row,
                 base |-> v3[v6[r].id]]
<1> USE DEF Conversation!ConversationInv
<1>1. /\ v6[r].op \in {"edit", "delete"} /\ Conversation!Goes(r, c)
      /\ UNCHANGED <<v1, v2, v3, v4, v5, v7, v8, v9, v10, v11>>
  BY DEF Conversation!SaveSelect, Conversation!Changing, Conversation!History
<1>2. /\ c.op = v6[r].op /\ c.step = "update" /\ c.id = v6[r].id /\ c.row = v6[r].row
      /\ c.base = v3[v6[r].id] /\ v6'[r] = c
  BY <1>1, CallGoes
<1> HIDE DEF c
<1>3. /\ v6[r].id \in Conversation!Ids /\ v6[r].row \in Conversation!Message
      /\ ~v6[r].row.isDeleted
      /\ v6[r].id \in v11 \/ v6[r].row.content # "none"
  BY <1>1 DEF Conversation!CallsAreTyped
<1>4. v3[v6[r].id] \in Conversation!Message
  BY <1>3, ElementOfSeq DEF Conversation!TypeOK, Conversation!Ids
<1>5. Conversation!CallsAreTyped'
  BY <1>1, <1>2, <1>3, <1>4, CallTyped DEF Conversation!RowOps, Conversation!Ids
<1>6. Conversation!TypeOK'
  BY <1>1, <1>2, CallGoes DEF Conversation!TypeOK, Conversation!Ids
<1>7. Conversation!RoomForMessages' /\ Conversation!ReactionsAddUp' /\ Conversation!UnreadAddsUp'
  BY <1>1, <1>2, ElsewhereKept
<1>8. Conversation!DeletedSaysNothing'
  BY <1>1 DEF Conversation!DeletedSaysNothing, Conversation!Ids
<1> QED BY <1>5, <1>6, <1>7, <1>8

\* What a save is to leave: nothing of a message that it deletes, and text otherwise.
LEMMA SavedIsWhole ==
    ASSUME NEW d, d.op \in {"edit", "delete"}, d.row \in Conversation!Message,
           ~d.row.isDeleted
    PROVE  /\ Conversation!Saved(d) \in Conversation!Message
           /\ Conversation!Saved(d).isDeleted <=> Conversation!Saved(d).content = "none"
<1> DEFINE edited == Conversation!Edited(d.row)
           deleted == Conversation!Deleted(d.row)
<1>1. /\ edited \in Conversation!Message /\ deleted \in Conversation!Message
      /\ edited.isDeleted = d.row.isDeleted /\ edited.content = "edited"
      /\ deleted.isDeleted = TRUE /\ deleted.content = "none"
  BY DEF Conversation!Message, Conversation!Edited, Conversation!Deleted
<1>2. \/ Conversation!Saved(d) = edited
      \/ Conversation!Saved(d) = deleted
  BY DEF Conversation!Saved
<1> HIDE DEF edited, deleted
<1> QED BY <1>1, <1>2

\* The second one writes what is to differ from the row as the first had read it: all that
\* it is to leave, if the row is still that.
LEMMA MergedIsTyped ==
    ASSUME NEW row \in Conversation!Message, NEW base \in Conversation!Message,
           NEW saved \in Conversation!Message
    PROVE  /\ Conversation!Merged(row, base, saved) \in Conversation!Message
           /\ row = base => Conversation!Merged(row, base, saved) = saved
<1>1. /\ DOMAIN row = {"sender", "content", "isDeleted"}
      /\ DOMAIN saved = {"sender", "content", "isDeleted"}
  BY DEF Conversation!Message
<1>2. Conversation!Merged(row, base, saved)
        = [k \in {"sender", "content", "isDeleted"} |->
             IF saved[k] # base[k] THEN saved[k] ELSE row[k]]
  BY <1>1 DEF Conversation!Merged
<1>3. Conversation!Merged(row, base, saved) \in Conversation!Message
  BY <1>2 DEF Conversation!Message
<1>4. ASSUME row = base PROVE Conversation!Merged(row, base, saved) = saved
  BY <1>2, <1>4 DEF Conversation!Message
<1> QED BY <1>3, <1>4

LEMMA ConversationSaveUpdate ==
    ASSUME Conversation!ConversationInv, NEW r \in Requests, Conversation!SaveUpdate(r)
    PROVE  Conversation!ConversationInv'
<1> DEFINE c == Conversation!Idle
           m == v6[r].id
           saved == Conversation!Saved(v6[r])
           e == Conversation!Merged(v3[m], v6[r].base, saved)
<1> USE DEF Conversation!ConversationInv
<1>1. /\ v6[r].op \in {"edit", "delete"} /\ v6[r].step = "update" /\ Conversation!Goes(r, c)
      /\ v3' = [v3 EXCEPT ![m] = e]
      /\ v11' = IF v3[m] # v6[r].base THEN v11 \cup {m} ELSE v11
      /\ UNCHANGED <<v1, v2, v4, v5, v7, v8, v9, v10>>
  BY DEF Conversation!SaveUpdate, Conversation!Changing
<1>2. c.op = "none" /\ v6'[r] = c
  BY <1>1, CallGoes, IdleConversation
<1>3. /\ m \in Conversation!Ids /\ v6[r].row \in Conversation!Message
      /\ ~v6[r].row.isDeleted
      /\ v6[r].base \in Conversation!Message
  BY <1>1 DEF Conversation!CallsAreTyped
<1>4. v3[m] \in Conversation!Message
  BY <1>3, ElementOfSeq DEF Conversation!TypeOK, Conversation!Ids
<1>5. saved \in Conversation!Message /\ (saved.isDeleted <=> saved.content = "none")
  BY <1>1, <1>3, SavedIsWhole
<1>6. /\ e \in Conversation!Message
      /\ v3[m] = v6[r].base => e = saved
  BY <1>3, <1>4, <1>5, MergedIsTyped
<1> HIDE DEF c, m, saved, e
<1>7. /\ v3' \in Seq(Conversation!Message) /\ Len(v3') = Len(v3)
      /\ v3'[m] = e /\ \A k \in 1..Len(v3) : k # m => v3'[k] = v3[k]
  BY <1>1, <1>3, <1>6, ExceptSeq DEF Conversation!TypeOK, Conversation!Ids
<1>8. Conversation!CallsAreTyped'
  BY <1>1, <1>2, <1>7, CallTyped DEF Conversation!RowOps, Conversation!Ids
<1>9. Conversation!TypeOK'
  <2>1. v11' \subseteq Conversation!Ids'
    BY <1>1, <1>3, <1>7 DEF Conversation!TypeOK, Conversation!Ids
  <2> QED BY <1>1, <1>2, <1>7, <2>1, CallGoes DEF Conversation!TypeOK, Conversation!Ids
<1>10. Conversation!RoomForMessages' /\ Conversation!ReactionsAddUp' /\ Conversation!UnreadAddsUp'
  BY <1>1, <1>2, <1>7, ElsewhereKept
<1>11. Conversation!DeletedSaysNothing'
  <2> SUFFICES ASSUME NEW k \in (1..Len(v3)) \ v11'
               PROVE  v3'[k].isDeleted <=> v3'[k].content = "none"
    BY <1>7 DEF Conversation!DeletedSaysNothing, Conversation!Ids
  <2>1. CASE k = m
    <3>1. v3[m] = v6[r].base
      BY <1>1, <2>1
    <3> QED BY <1>5, <1>6, <1>7, <2>1, <3>1
  <2>2. CASE k # m
    <3>1. v3'[k] = v3[k] /\ k \notin v11
      BY <1>1, <1>7, <2>2
    <3> QED BY <3>1 DEF Conversation!DeletedSaysNothing, Conversation!Ids
  <2> QED BY <2>1, <2>2
<1> QED BY <1>8, <1>9, <1>10, <1>11

LEMMA ConversationRowLoad ==
    ASSUME Conversation!ConversationInv, NEW r \in Requests, NEW op \in Conversation!RowOps,
           NEW u \in Users, Conversation!RowLoad(r, op, u)
    PROVE  Conversation!ConversationInv'
<1> DEFINE c == [op |-> op, whose |-> u, row |-> v2[u]]
<1> USE DEF Conversation!ConversationInv
<1>1. /\ v6[r].op = "none" /\ Conversation!Goes(r, c)
      /\ UNCHANGED <<v1, v2, v3, v4, v5, v7, v8, v10, v11>>
      /\ v9' = IF Conversation!Holding(u) # {}
                    \/ \E q \in Conversation!Running("send") : v6[q].sender # u
               THEN v9 \cup {u} ELSE v9
  BY IdleConversation DEF Conversation!RowLoad
<1>2. c.op = op /\ c.whose = u /\ c.row = v2[u] /\ v6'[r] = c
      /\ op \in {"read", "archive", "rejoin"}
  BY <1>1, CallGoes DEF Conversation!RowOps
<1> HIDE DEF c
<1>3. /\ Conversation!Inserting' = Conversation!Inserting
      /\ \A w : /\ Conversation!Telling(w)' = Conversation!Telling(w)
                /\ Conversation!SendingTo(w)' = Conversation!SendingTo(w)
      /\ \A x : Conversation!Reacting(x)' = Conversation!Reacting(x)
  BY <1>1, <1>2, SlotsStay
<1>4. Conversation!CallsAreTyped'
  BY <1>1, <1>2, CallTyped DEF Conversation!RowOps, Conversation!Ids, Conversation!TypeOK
<1>5. Conversation!TypeOK'
  BY <1>1, <1>2, CallGoes DEF Conversation!TypeOK, Conversation!RowOps, Conversation!Ids
<1>6. Conversation!RoomForMessages' /\ Conversation!ReactionsAddUp'
  BY <1>1, <1>3, RoomKept, ReactionsKept
<1>7. Conversation!UnreadAddsUp'
  <2> SUFFICES ASSUME NEW w \in Users \ v9'
               PROVE  /\ \A q \in Conversation!Holding(w)' :
                          /\ v6'[q].row = v2[w] /\ Conversation!SendingTo(w)' = {}
                          /\ Conversation!Holding(w)' = {q}
                      /\ v2[w].unread = v8[w] + IF v2[w].active
                          THEN Conversation!Cardinality(Conversation!Telling(w)') ELSE 0
    BY <1>1 DEF Conversation!UnreadAddsUp
  <2>1. w \in Users \ v9
    BY <1>1
  <2>2. /\ \A q \in Conversation!Holding(w) :
              /\ v6[q].row = v2[w] /\ Conversation!SendingTo(w) = {}
              /\ Conversation!Holding(w) = {q}
        /\ v2[w].unread = v8[w] + IF v2[w].active
              THEN Conversation!Cardinality(Conversation!Telling(w)) ELSE 0
    BY <2>1 DEF Conversation!UnreadAddsUp
  <2>3. ASSUME NEW q \in Conversation!Holding(w)'
        PROVE  /\ v6'[q].row = v2[w] /\ Conversation!SendingTo(w)' = {}
               /\ Conversation!Holding(w)' = {q}
    <3>1. Conversation!Holding(w) \ {r} = Conversation!Holding(w)' \ {r}
      BY <1>1, OthersStay
    <3>2. r \notin Conversation!Holding(w) /\ (r \in Conversation!Holding(w)' <=> w = u)
      BY <1>1, <1>2 DEF Conversation!Holding, Conversation!RowOps
    <3>3. CASE w = u
      <4>1. /\ Conversation!Holding(w) = {}
            /\ \A p \in Conversation!Running("send") : v6[p].sender = w
        BY <1>1, <3>3
      <4>2. Conversation!SendingTo(w) = {}
        BY <4>1 DEF Conversation!SendingTo
      <4>3. Conversation!Holding(w)' = {r}
        BY <3>1, <3>2, <3>3, <4>1
      <4> QED BY <1>2, <1>3, <3>3, <4>2, <4>3
    <3>4. CASE w # u
      <4>1. Conversation!Holding(w)' = Conversation!Holding(w)
        BY <3>1, <3>2, <3>4
      <4>2. q \in Requests /\ q # r
        BY <3>2, <4>1 DEF Conversation!Holding
      <4>3. v6'[q] = v6[q]
        BY <1>1, <4>2, CallGoes
      <4> QED BY <1>3, <2>2, <4>1, <4>3
    <3> QED BY <3>3, <3>4
  <2> QED BY <1>3, <2>2, <2>3
<1>8. Conversation!DeletedSaysNothing'
  BY <1>1 DEF Conversation!DeletedSaysNothing, Conversation!Ids
<1> QED BY <1>4, <1>5, <1>6, <1>7, <1>8

LEMMA ConversationRowSave ==
    ASSUME Conversation!ConversationInv, NEW r \in Requests,
           Conversation!ReadSave(r) \/ Conversation!ArchiveSave(r) \/ Conversation!RejoinSave(r)
    PROVE  Conversation!ConversationInv'
<1> DEFINE c == Conversation!Idle
           u == v6[r].whose
           old == v6[r].row
<1> USE DEF Conversation!ConversationInv
<1>1. /\ v6[r].op \in Conversation!RowOps /\ Conversation!Goes(r, c)
      /\ UNCHANGED <<v1, v3, v4, v5, v7, v9, v10, v11>>
  BY DEF Conversation!ReadSave, Conversation!ArchiveSave, Conversation!RejoinSave,
     Conversation!RowSave, Conversation!RowOps
<1>2. c.op = "none" /\ v6'[r] = c
  BY <1>1, CallGoes, IdleConversation
<1>3. u \in Users /\ old \in Conversation!Participant
  BY <1>1 DEF Conversation!CallsAreTyped
<1>4. PICK row \in Conversation!Participant :
        /\ v2' = [v2 EXCEPT ![u] = row]
        /\ \/ v8' = [v8 EXCEPT ![u] = 0] /\ row.unread = 0
           \/ v8' = v8 /\ row.unread = old.unread
  <2>1. CASE Conversation!ReadSave(r)
    <3>1. [old EXCEPT !.unread = 0] \in Conversation!Participant
          /\ [old EXCEPT !.unread = 0].unread = 0
      BY <1>3 DEF Conversation!Participant
    <3> QED BY <2>1, <3>1 DEF Conversation!ReadSave, Conversation!RowSave
  <2>2. CASE Conversation!ArchiveSave(r)
    <3>1. [old EXCEPT !.active = FALSE] \in Conversation!Participant
          /\ [old EXCEPT !.active = FALSE].unread = old.unread
      BY <1>3 DEF Conversation!Participant
    <3> QED BY <2>2, <3>1 DEF Conversation!ArchiveSave, Conversation!RowSave
  <2>3. CASE Conversation!RejoinSave(r)
    <3>1. [old EXCEPT !.active = TRUE] \in Conversation!Participant
          /\ [old EXCEPT !.active = TRUE].unread = old.unread
      BY <1>3 DEF Conversation!Participant
    <3> QED BY <2>3, <3>1 DEF Conversation!RejoinSave, Conversation!RowSave
  <2> QED BY <2>1, <2>2, <2>3
<1> HIDE DEF c
<1>5. /\ Conversation!Inserting' = Conversation!Inserting
      /\ \A w : /\ Conversation!Telling(w)' = Conversation!Telling(w)
                /\ Conversation!SendingTo(w)' = Conversation!SendingTo(w)
      /\ \A x : Conversation!Reacting(x)' = Conversation!Reacting(x)
  BY <1>1, <1>2, SlotsStay DEF Conversation!RowOps
<1>6. Conversation!CallsAreTyped'
  BY <1>1, <1>2, CallTyped DEF Conversation!RowOps, Conversation!Ids
<1>7. Conversation!TypeOK'
  <2>1. v2' \in [Users -> Conversation!Participant]
    BY <1>4 DEF Conversation!TypeOK
  <2>2. v8' \in [Users -> Nat]
    BY <1>4 DEF Conversation!TypeOK
  <2> QED BY <1>1, <1>2, <2>1, <2>2, CallGoes DEF Conversation!TypeOK, Conversation!Ids
<1>8. Conversation!RoomForMessages' /\ Conversation!ReactionsAddUp'
  BY <1>1, <1>5, RoomKept, ReactionsKept
<1>9. Conversation!UnreadAddsUp'
  <2> SUFFICES ASSUME NEW w \in Users \ v9
               PROVE  /\ \A q \in Conversation!Holding(w)' :
                          /\ v6'[q].row = v2'[w] /\ Conversation!SendingTo(w)' = {}
                          /\ Conversation!Holding(w)' = {q}
                      /\ v2'[w].unread = v8'[w] + IF v2'[w].active
                          THEN Conversation!Cardinality(Conversation!Telling(w)') ELSE 0
    BY <1>1 DEF Conversation!UnreadAddsUp
  <2>1. /\ \A q \in Conversation!Holding(w) :
              /\ v6[q].row = v2[w] /\ Conversation!SendingTo(w) = {}
              /\ Conversation!Holding(w) = {q}
        /\ v2[w].unread = v8[w] + IF v2[w].active
              THEN Conversation!Cardinality(Conversation!Telling(w)) ELSE 0
    BY DEF Conversation!UnreadAddsUp
  <2>2. Conversation!Holding(w) \ {r} = Conversation!Holding(w)' \ {r}
    BY <1>1, OthersStay
  <2>3. r \notin Conversation!Holding(w)' /\ (r \in Conversation!Holding(w) <=> w = u)
    BY <1>1, <1>2 DEF Conversation!Holding, Conversation!RowOps
  <2>4. CASE w = u
    <3>1. /\ old = v2[w] /\ Conversation!SendingTo(w) = {} /\ Conversation!Holding(w) = {r}
      BY <2>1, <2>3, <2>4
    <3>2. Conversation!Holding(w)' = {}
      BY <2>2, <2>3, <2>4, <3>1
    <3>3. Conversation!Telling(w) = {}
      BY <3>1 DEF Conversation!Telling, Conversation!SendingTo
    <3>4. Conversation!Cardinality(Conversation!Telling(w)) = 0
          /\ Conversation!Cardinality(Conversation!Telling(w)') = 0
      BY <1>5, <3>3, NobodyIsCounted
    <3>5. v2'[w] = row /\ v8[w] \in Nat
      BY <1>3, <1>4, <2>4 DEF Conversation!TypeOK, Conversation!Ids
    <3>6. v2[w].unread = v8[w]
      BY <2>1, <2>4, <3>4, <3>5
    <3>7. row.unread = v8'[w] /\ v8'[w] \in Nat
      BY <1>3, <1>4, <2>4, <3>1, <3>5, <3>6 DEF Conversation!TypeOK, Conversation!Ids
    <3>8. v2'[w].unread = v8'[w] + IF v2'[w].active
            THEN Conversation!Cardinality(Conversation!Telling(w)') ELSE 0
      BY <3>4, <3>5, <3>7
    <3> QED BY <3>2, <3>8
  <2>5. CASE w # u
    <3>1. Conversation!Holding(w)' = Conversation!Holding(w)
      BY <2>2, <2>3, <2>5
    <3>2. ASSUME NEW q \in Conversation!Holding(w) PROVE v6'[q] = v6[q]
      <4>1. q \in Requests /\ q # r
        BY <2>3, <2>5 DEF Conversation!Holding
      <4> QED BY <1>1, <4>1, CallGoes
    <3>3. v2'[w] = v2[w] /\ v8'[w] = v8[w]
      BY <1>4, <2>5 DEF Conversation!TypeOK, Conversation!Ids
    <3> QED BY <1>5, <2>1, <3>1, <3>2, <3>3
  <2> QED BY <2>4, <2>5
<1>10. Conversation!DeletedSaysNothing'
  BY <1>1 DEF Conversation!DeletedSaysNothing, Conversation!Ids
<1> QED BY <1>6, <1>7, <1>8, <1>9, <1>10

LEMMA ConversationReactLoad ==
    ASSUME Conversation!ConversationInv, NEW r \in Requests, NEW u \in Users,
           NEW m \in Conversation!Ids \cap 1..MaxReacted, Conversation!ReactLoad(r, m, u)
    PROVE  Conversation!ConversationInv'
<1> DEFINE y == <<m, u>>
           c == [op |-> "react", on |-> y]
<1> USE DEF Conversation!ConversationInv
<1>1. /\ v6[r].op = "none" /\ Conversation!Goes(r, c) /\ v4[y] = 0
      /\ UNCHANGED <<v1, v2, v3, v4, v5, v7, v8, v9, v11>>
      /\ v10' = IF \E q \in Conversation!Running("react") : v6[q].on = y
                THEN v10 \cup {y} ELSE v10
  BY IdleConversation DEF Conversation!ReactLoad, Conversation!FirstOf
<1>2. c.op = "react" /\ c.on = y /\ v6'[r] = c /\ y \in (1..MaxReacted) \X Users
  BY <1>1, CallGoes
<1> HIDE DEF c, y
<1>3. /\ Conversation!Inserting' = Conversation!Inserting
      /\ \A w : /\ Conversation!Telling(w)' = Conversation!Telling(w)
                /\ Conversation!SendingTo(w)' = Conversation!SendingTo(w)
                /\ Conversation!Holding(w)' = Conversation!Holding(w)
                /\ \A q \in Conversation!Holding(w) : v6'[q] = v6[q]
  BY <1>1, <1>2, SlotsStay DEF Conversation!RowOps
<1>4. Conversation!CallsAreTyped'
  BY <1>1, <1>2, CallTyped DEF Conversation!RowOps, Conversation!Ids
<1>5. Conversation!TypeOK'
  BY <1>1, <1>2, CallGoes DEF Conversation!TypeOK, Conversation!Ids
<1>6. Conversation!RoomForMessages' /\ Conversation!UnreadAddsUp'
  BY <1>1, <1>3, RoomKept, UnreadKept
<1>7. Conversation!ReactionsAddUp'
  <2> SUFFICES ASSUME NEW x \in DOMAIN v4
               PROVE  /\ v4[x] + Conversation!Cardinality(Conversation!Reacting(x)')
                              <= Conversation!Cardinality(Requests)
                      /\ x \notin v10'
                          => v4[x] + Conversation!Cardinality(Conversation!Reacting(x)') <= 1
    BY <1>1 DEF Conversation!ReactionsAddUp
  <2>1. Conversation!Reacting(x) \ {r} = Conversation!Reacting(x)' \ {r}
    BY <1>1, OthersStay
  <2>2. r \notin Conversation!Reacting(x) /\ (r \in Conversation!Reacting(x)' <=> x = y)
    BY <1>1, <1>2 DEF Conversation!Reacting, Conversation!Running
  <2>3. /\ v4[x] + Conversation!Cardinality(Conversation!Reacting(x))
              <= Conversation!Cardinality(Requests)
        /\ x \notin v10 => v4[x] + Conversation!Cardinality(Conversation!Reacting(x)) <= 1
    BY DEF Conversation!ReactionsAddUp
  <2>4. CASE x # y
    <3>1. Conversation!Reacting(x)' = Conversation!Reacting(x)
      BY <2>1, <2>2, <2>4
    <3>2. x \notin v10' => x \notin v10
      BY <1>1
    <3> QED BY <2>3, <3>1, <3>2
  <2>5. CASE x = y
    <3>1. Conversation!Reacting(x)' \in SUBSET Requests
      BY DEF Conversation!Reacting, Conversation!Running
    <3>2. /\ Conversation!Cardinality(Conversation!Reacting(x)')
              <= Conversation!Cardinality(Requests)
          /\ Conversation!Cardinality(Conversation!Reacting(x)') \in Nat
      BY <3>1, SlotsAreCounted
    <3>3. v4[x] = 0
      BY <1>1, <2>5
    <3>4. ASSUME x \notin v10'
          PROVE  Conversation!Cardinality(Conversation!Reacting(x)') = 1
      <4>1. Conversation!Reacting(x) = {}
        BY <1>1, <2>5, <3>4 DEF Conversation!Reacting
      <4>2. Conversation!Reacting(x)' = {} \cup {r}
        BY <2>1, <2>2, <2>5, <4>1
      <4>3. {} \in SUBSET Requests /\ r \in Requests \ {}
        OBVIOUS
      <4>4. Conversation!Cardinality({} \cup {r}) = Conversation!Cardinality({}) + 1
        BY <4>3, SlotsAreCounted
      <4> QED BY <4>2, <4>4, NobodyIsCounted
    <3> QED BY <3>2, <3>3, <3>4, SlotsAreCounted
  <2> QED BY <2>4, <2>5
<1>8. Conversation!DeletedSaysNothing'
  BY <1>1 DEF Conversation!DeletedSaysNothing, Conversation!Ids
<1> QED BY <1>4, <1>5, <1>6, <1>7, <1>8

LEMMA ConversationReactSave ==
    ASSUME Conversation!ConversationInv, NEW r \in Requests, Conversation!ReactSave(r)
    PROVE  Conversation!ConversationInv'
<1> DEFINE c == Conversation!Idle
           y == v6[r].on
<1> USE DEF Conversation!ConversationInv
<1>1. /\ v6[r].op = "react" /\ Conversation!Goes(r, c)
      /\ v4' = [v4 EXCEPT ![y] = @ + 1]
      /\ UNCHANGED <<v1, v2, v3, v5, v7, v8, v9, v10, v11>>
  BY DEF Conversation!ReactSave, Conversation!History
<1>2. c.op = "none" /\ v6'[r] = c
  BY <1>1, CallGoes, IdleConversation
<1>3. y \in (1..MaxReacted) \X Users
  BY <1>1 DEF Conversation!CallsAreTyped
<1> HIDE DEF c, y
<1>4. /\ Conversation!Inserting' = Conversation!Inserting
      /\ \A w : /\ Conversation!Telling(w)' = Conversation!Telling(w)
                /\ Conversation!SendingTo(w)' = Conversation!SendingTo(w)
                /\ Conversation!Holding(w)' = Conversation!Holding(w)
                /\ \A q \in Conversation!Holding(w) : v6'[q] = v6[q]
  BY <1>1, <1>2, SlotsStay DEF Conversation!RowOps
<1>5. Conversation!CallsAreTyped'
  BY <1>1, <1>2, CallTyped DEF Conversation!RowOps, Conversation!Ids
<1>6. Conversation!RoomForMessages' /\ Conversation!UnreadAddsUp'
  BY <1>1, <1>4, RoomKept, UnreadKept
<1>7. DOMAIN v4' = DOMAIN v4 /\ v4 \in [(1..MaxReacted) \X Users -> Nat]
      /\ \A x \in DOMAIN v4 : v4'[x] = v4[x] + IF x = y THEN 1 ELSE 0
  <2>1. Conversation!Cardinality(Requests) \in Nat
    BY SlotsAreCounted
  <2>2. v4 \in [(1..MaxReacted) \X Users -> Nat]
    BY <2>1 DEF Conversation!TypeOK, Conversation!Ids
  <2> QED BY <1>1, <1>3, <2>2
<1>8. \A x \in DOMAIN v4 :
        /\ Conversation!Cardinality(Conversation!Reacting(x)) \in Nat
        /\ Conversation!Cardinality(Conversation!Reacting(x)') \in Nat
        /\ v4'[x] + Conversation!Cardinality(Conversation!Reacting(x)')
             = v4[x] + Conversation!Cardinality(Conversation!Reacting(x))
  <2> SUFFICES ASSUME NEW x \in DOMAIN v4
               PROVE  /\ Conversation!Cardinality(Conversation!Reacting(x)) \in Nat
                      /\ Conversation!Cardinality(Conversation!Reacting(x)') \in Nat
                      /\ v4'[x] + Conversation!Cardinality(Conversation!Reacting(x)')
                           = v4[x] + Conversation!Cardinality(Conversation!Reacting(x))
    OBVIOUS
  <2>1. Conversation!Reacting(x) \ {r} = Conversation!Reacting(x)' \ {r}
    BY <1>1, OthersStay
  <2>2. r \notin Conversation!Reacting(x)' /\ (r \in Conversation!Reacting(x) <=> x = y)
    BY <1>1, <1>2 DEF Conversation!Reacting, Conversation!Running, y
  <2>3. Conversation!Reacting(x)' = Conversation!Reacting(x) \ {r}
    BY <2>1, <2>2
  <2>4. Conversation!Reacting(x) \in SUBSET Requests
    BY DEF Conversation!Reacting, Conversation!Running
  <2>5. Conversation!Cardinality(Conversation!Reacting(x)) \in Nat
    BY <2>4, SlotsAreCounted
  <2>6. v4'[x] = v4[x] + (IF x = y THEN 1 ELSE 0) /\ v4[x] \in Nat
    BY <1>7
  <2>7. CASE x = y
    <3>1. r \in Conversation!Reacting(x)
      BY <2>2, <2>7
    <3>2. /\ Conversation!Cardinality(Conversation!Reacting(x) \ {r})
                = Conversation!Cardinality(Conversation!Reacting(x)) - 1
          /\ Conversation!Cardinality(Conversation!Reacting(x) \ {r}) \in Nat
      BY <2>4, <3>1, SlotsAreCounted
    <3> QED BY <2>3, <2>5, <2>6, <2>7, <3>2
  <2>8. CASE x # y
    <3>1. Conversation!Reacting(x)' = Conversation!Reacting(x)
      BY <2>2, <2>3, <2>8
    <3> QED BY <2>5, <2>6, <2>8, <3>1
  <2> QED BY <2>7, <2>8
<1>9. Conversation!ReactionsAddUp'
  BY <1>1, <1>7, <1>8 DEF Conversation!ReactionsAddUp
<1>10. Conversation!TypeOK'
  <2>1. Conversation!Cardinality(Requests) \in Nat
    BY SlotsAreCounted
  <2>2. ASSUME NEW x \in DOMAIN v4 PROVE v4'[x] \in 0..Conversation!Cardinality(Requests)
    <3>1. v4'[x] + Conversation!Cardinality(Conversation!Reacting(x)')
            <= Conversation!Cardinality(Requests)
      BY <1>7, <1>9 DEF Conversation!ReactionsAddUp
    <3>2. v4'[x] \in Nat
      BY <1>7
    <3> QED BY <1>8, <2>1, <3>1, <3>2
  <2>3. v4' \in [(1..MaxReacted) \X Users -> 0..Conversation!Cardinality(Requests)]
    BY <1>1, <1>7, <2>2
  <2> QED BY <1>1, <1>2, <2>3, CallGoes DEF Conversation!TypeOK, Conversation!Ids
<1>11. Conversation!DeletedSaysNothing'
  BY <1>1 DEF Conversation!DeletedSaysNothing, Conversation!Ids
<1> QED BY <1>5, <1>6, <1>9, <1>10, <1>11

LEMMA ConversationReactionGoes ==
    ASSUME Conversation!ConversationInv, NEW u \in Users,
           NEW m \in Conversation!Ids \cap 1..MaxReacted, Conversation!removeReaction(m, u)
    PROVE  Conversation!ConversationInv'
<1> DEFINE y == <<m, u>>
<1> USE DEF Conversation!ConversationInv
<1>1. /\ v4[y] > 0 /\ v4' = [v4 EXCEPT ![y] = @ - 1]
      /\ UNCHANGED <<v1, v2, v3, v5, v6, v7, v8, v9, v10, v11>>
  BY DEF Conversation!removeReaction, Conversation!History
<1>2. y \in (1..MaxReacted) \X Users
  OBVIOUS
<1> HIDE DEF y
<1>3. Conversation!Cardinality(Requests) \in Nat
  BY SlotsAreCounted
<1>4. /\ v4' \in [(1..MaxReacted) \X Users -> 0..Conversation!Cardinality(Requests)]
      /\ DOMAIN v4' = DOMAIN v4 /\ \A x \in DOMAIN v4 : v4[x] \in Nat /\ v4'[x] <= v4[x]
  BY <1>1, <1>2, <1>3 DEF Conversation!TypeOK, Conversation!Ids
<1>5. Conversation!TypeOK' /\ Conversation!CallsAreTyped'
  BY <1>1, <1>4 DEF Conversation!TypeOK, Conversation!CallsAreTyped, Conversation!Ids
<1>6. Conversation!RoomForMessages' /\ Conversation!DeletedSaysNothing'
  BY <1>1 DEF Conversation!RoomForMessages, Conversation!DeletedSaysNothing,
     Conversation!Ids, Conversation!Inserting, Conversation!Running
<1>7. Conversation!UnreadAddsUp'
  BY <1>1 DEF Conversation!UnreadAddsUp, Conversation!Holding, Conversation!SendingTo,
     Conversation!Telling, Conversation!Running
<1>8. Conversation!ReactionsAddUp'
  <2> SUFFICES ASSUME NEW x \in DOMAIN v4
               PROVE  /\ v4'[x] + Conversation!Cardinality(Conversation!Reacting(x))
                              <= Conversation!Cardinality(Requests)
                      /\ x \notin v10
                          => v4'[x] + Conversation!Cardinality(Conversation!Reacting(x)) <= 1
    BY <1>1, <1>4 DEF Conversation!ReactionsAddUp, Conversation!Reacting, Conversation!Running
  <2>1. Conversation!Cardinality(Conversation!Reacting(x)) \in Nat
    BY SlotsAreCounted DEF Conversation!Reacting, Conversation!Running
  <2>2. v4[x] \in Nat /\ v4'[x] \in Nat /\ v4'[x] <= v4[x]
    BY <1>3, <1>4
  <2>3. /\ v4[x] + Conversation!Cardinality(Conversation!Reacting(x))
              <= Conversation!Cardinality(Requests)
        /\ x \notin v10 => v4[x] + Conversation!Cardinality(Conversation!Reacting(x)) <= 1
    BY DEF Conversation!ReactionsAddUp
  <2> QED BY <1>3, <2>1, <2>2, <2>3
<1> QED BY <1>5, <1>6, <1>7, <1>8

LEMMA ConversationRestart ==
    ASSUME Conversation!ConversationInv, Conversation!Restart
    PROVE  Conversation!ConversationInv'
<1> USE DEF Conversation!ConversationInv
<1>1. /\ v6' = [r \in Requests |-> Conversation!Idle]
      /\ v9' = IF Conversation!Running("send") # {} THEN Users ELSE v9
      /\ UNCHANGED <<v1, v2, v3, v4, v5, v8, v10, v11>>
  BY DEF Conversation!Restart
<1>2. DOMAIN v6' = Requests /\ \A r \in Requests : v6'[r].op = "none"
  BY <1>1, IdleConversation
<1>3. /\ Conversation!Inserting' = {}
      /\ \A x : Conversation!Reacting(x)' = {}
      /\ \A u : Conversation!Telling(u)' = {} /\ Conversation!Holding(u)' = {}
  BY <1>2 DEF Conversation!Inserting, Conversation!Reacting, Conversation!Telling,
     Conversation!Holding, Conversation!Running, Conversation!RowOps
<1>4. Conversation!CallsAreTyped'
  BY <1>2 DEF Conversation!CallsAreTyped, Conversation!RowOps
<1>5. Conversation!TypeOK'
  BY <1>1, <1>2 DEF Conversation!TypeOK, Conversation!Ids
<1>6. Conversation!RoomForMessages' /\ Conversation!ReactionsAddUp'
  BY <1>1, <1>3, RoomKept, ReactionsKept
<1>7. Conversation!UnreadAddsUp'
  <2> SUFFICES ASSUME NEW u \in Users \ v9'
               PROVE  v2[u].unread = v8[u] + IF v2[u].active
                        THEN Conversation!Cardinality(Conversation!Telling(u)') ELSE 0
    BY <1>1, <1>3 DEF Conversation!UnreadAddsUp
  <2>1. u \in Users \ v9 /\ Conversation!Running("send") = {}
    BY <1>1
  <2>2. Conversation!Telling(u) = {}
    BY <2>1 DEF Conversation!Telling
  <2> QED BY <1>3, <2>1, <2>2 DEF Conversation!UnreadAddsUp
<1>8. Conversation!DeletedSaysNothing'
  BY <1>1 DEF Conversation!DeletedSaysNothing, Conversation!Ids
<1> QED BY <1>4, <1>5, <1>6, <1>7, <1>8

LEMMA ConversationStep ==
    Conversation!ConversationInv /\ Conversation!Next => Conversation!ConversationInv'
<1> SUFFICES ASSUME Conversation!ConversationInv, Conversation!Next
             PROVE  Conversation!ConversationInv'
  OBVIOUS
<1>1. CASE Conversation!Restart
  BY <1>1, ConversationRestart
<1>2. ASSUME NEW r \in Requests, Conversation!Send(r) PROVE Conversation!ConversationInv'
  BY <1>2, ConversationSendStart, ConversationSendInsert, ConversationSendSummary,
     ConversationSendCount, ConversationSendTell DEF Conversation!Send
<1>3. ASSUME NEW r \in Requests, NEW m \in Conversation!Ids,
             Conversation!ChangeLoad(r, "edit", m) \/ Conversation!ChangeLoad(r, "delete", m)
      PROVE  Conversation!ConversationInv'
  BY <1>3, ConversationChangeLoad
<1>4. ASSUME NEW r \in Requests, Conversation!SaveSelect(r) \/ Conversation!SaveUpdate(r)
      PROVE  Conversation!ConversationInv'
  BY <1>4, ConversationSaveSelect, ConversationSaveUpdate
<1>5. ASSUME NEW r \in Requests, NEW op \in Conversation!RowOps, NEW u \in Users,
             Conversation!RowLoad(r, op, u)
      PROVE  Conversation!ConversationInv'
  BY <1>5, ConversationRowLoad
<1>6. ASSUME NEW r \in Requests,
             \/ Conversation!ReadSave(r) \/ Conversation!ArchiveSave(r)
             \/ Conversation!RejoinSave(r)
      PROVE  Conversation!ConversationInv'
  BY <1>6, ConversationRowSave
<1>7. ASSUME NEW r \in Requests, NEW u \in Users, NEW m \in Conversation!Ids \cap 1..MaxReacted,
             Conversation!ReactLoad(r, m, u)
      PROVE  Conversation!ConversationInv'
  BY <1>7, ConversationReactLoad
<1>8. ASSUME NEW r \in Requests, Conversation!ReactSave(r) PROVE Conversation!ConversationInv'
  BY <1>8, ConversationReactSave
<1>9. ASSUME NEW u \in Users, NEW m \in Conversation!Ids \cap 1..MaxReacted,
             Conversation!removeReaction(m, u)
      PROVE  Conversation!ConversationInv'
  BY <1>9, ConversationReactionGoes
<1> QED BY <1>1, <1>2, <1>3, <1>4, <1>5, <1>6, <1>7, <1>8, <1>9 DEF Conversation!Next

LEMMA ConversationStutter ==
    ASSUME Conversation!ConversationInv, UNCHANGED all
    PROVE  Conversation!ConversationInv'
<1> USE DEF Conversation!ConversationInv
<1>1. UNCHANGED <<v1, v2, v3, v4, v5, v6, v7, v8, v9, v10, v11>>
  BY DEF all
<1>2. Conversation!TypeOK' /\ Conversation!CallsAreTyped'
  BY <1>1 DEF Conversation!TypeOK, Conversation!CallsAreTyped, Conversation!Ids
<1>3. Conversation!RoomForMessages' /\ Conversation!DeletedSaysNothing'
  BY <1>1 DEF Conversation!RoomForMessages, Conversation!DeletedSaysNothing,
     Conversation!Ids, Conversation!Inserting, Conversation!Running
<1>4. Conversation!UnreadAddsUp' /\ Conversation!ReactionsAddUp'
  BY <1>1 DEF Conversation!UnreadAddsUp, Conversation!Holding, Conversation!SendingTo,
     Conversation!Telling, Conversation!ReactionsAddUp, Conversation!Reacting,
     Conversation!Running
<1> QED BY <1>2, <1>3, <1>4

(***************************************************************************)
(* ChatChannels: v1 scenario, v2 jurado, v3 happened, v4 event, v5 channel, *)
(* v6 faults, v7 restarts, v8 overlapped, v9 early                          *)
(***************************************************************************)
LEMMA EventsAreTyped ==
    ASSUME Channels!ChannelsInv, NEW e \in Channels!Events
    PROVE  e.kind \in Channels!Kinds /\ e.of \in Applications
BY ServicesAssumption
DEF Channels!ChannelsInv, Channels!HandlersFit, Channels!Events, Channels!ChannelsAssumption

LEMMA ChannelsInit == Channels!Init => Channels!ChannelsInv
<1> SUFFICES ASSUME Channels!Init PROVE Channels!ChannelsInv
  OBVIOUS
<1> USE DEF Channels!Init
<1>1. \A e \in Channels!Events : v4[e] = Channels!Nowhere /\ v4[e].at = "none"
  BY DEF Channels!Nowhere
<1>2. v5 \in Seq(Channels!Channel) /\ Len(v5) = 0 /\ DOMAIN v5 = {}
  <2>1. v5 = <<>>
    OBVIOUS
  <2>2. v5 \in Seq(Channels!Channel) /\ Len(v5) = 0
    BY <2>1, EmptySeq
  <2> QED BY <2>2, LenProperties
<1>3. Channels!TypeOK
  <2>1. Len(v5) <= MaxChannels
    BY <1>2, ServicesAssumption DEF Channels!ChannelsAssumption
  <2>2. \A e \in Channels!Events : v4[e] = Channels!Nowhere <=> e \notin v3
    BY <1>1
  <2>3. v3 \subseteq Channels!Events /\ DOMAIN v4 = Channels!Events
    OBVIOUS
  <2> QED BY <1>2, <2>1, <2>2, <2>3 DEF Channels!TypeOK
<1>4. Channels!HandlersFit
  BY <1>1 DEF Channels!HandlersFit, Channels!Fits
<1>5. Channels!JuradoMeetsAsesor /\ Channels!OneChannelEach
  BY <1>2 DEF Channels!JuradoMeetsAsesor, Channels!OneChannelEach
<1>6. Channels!InTurn
  BY <1>1, <1>2 DEF Channels!InTurn, Channels!Alone, Channels!Handling, Channels!Complete,
     Channels!Opening
<1>7. \A e \in Channels!Events : Channels!BothComeIn(e)
  BY <1>1 DEF Channels!BothComeIn
<1> QED BY <1>3, <1>4, <1>5, <1>6, <1>7 DEF Channels!ChannelsInv

LEMMA HandlerGoes ==
    ASSUME Channels!TypeOK, UNCHANGED v1, NEW e \in Channels!Events, NEW h, Channels!Goes(e, h)
    PROVE  /\ Channels!Events' = Channels!Events /\ DOMAIN v4' = Channels!Events
           /\ v4'[e] = h
           /\ \A f \in Channels!Events : f # e => v4'[f] = v4[f]
BY DEF Channels!TypeOK, Channels!Goes, Channels!Events

\* Channels are not renamed, and nobody leaves them.
LEMMA OthersStillFit ==
    ASSUME Channels!ChannelsInv, NEW f \in Channels!Events, v4'[f] = v4[f],
           DOMAIN v5 \subseteq DOMAIN v5',
           \A c \in DOMAIN v5 : v5'[c].name = v5[c].name
                                /\ v5[c].members \subseteq v5'[c].members
    PROVE  Channels!Fits(f)' /\ Channels!BothComeIn(f)'
<1>1. Channels!Fits(f) /\ Channels!BothComeIn(f)
  BY DEF Channels!ChannelsInv, Channels!HandlersFit
<1>2. v4[f].at \in {"join", "owner", "members", "close"}
        => /\ v4[f].channel \in DOMAIN v5 /\ v5'[v4[f].channel].name = v5[v4[f].channel].name
           /\ v5[v4[f].channel].members \subseteq v5'[v4[f].channel].members
  BY <1>1 DEF Channels!Fits
<1>3. Channels!Fits(f)'
  <2>1. v4[f].at = "join"
          => v4[f] \in [at : {"join"}, channel : DOMAIN v5', todo : SUBSET Channels!People,
                        then : Channels!Afterwards(f.kind)]
    BY <1>1 DEF Channels!Fits
  <2> QED BY <1>1, <1>2, <2>1 DEF Channels!Fits
<1>4. Channels!BothComeIn(f)'
  BY <1>1, <1>2 DEF Channels!BothComeIn, Channels!Inside
<1> QED BY <1>3, <1>4

\* What every step of a handler has in common.
LEMMA HandlerSteps ==
    ASSUME Channels!ChannelsInv, NEW e \in Channels!Handling, NEW h, Channels!Goes(e, h),
           UNCHANGED <<v1, v2, v3, v8, v9>>, v6' \in Nat, v6' = 0 => v6 = 0,
           v5' \in Seq(Channels!Channel), Len(v5') <= MaxChannels, DOMAIN v5 \subseteq DOMAIN v5',
           \A c \in DOMAIN v5 : v5'[c].name = v5[c].name
                                /\ v5[c].members \subseteq v5'[c].members,
           Channels!Fits(e)', h.at # "none", Channels!BothComeIn(e)',
           v6' = 0 /\ e.kind = "supervisorAccepted" /\ h = Channels!Done
                /\ e.of \in v9 /\ v2[e.of] = "accepted"
              => \E c \in DOMAIN v5' : v5'[c].name = Channels!Private
                                       /\ Channels!Both(e.of) \subseteq v5'[c].members,
           ~v8 => Channels!Opening(e)' /\ Channels!Complete' /\ Channels!OneChannelEach'
    PROVE  Channels!ChannelsInv'
<1> USE DEF Channels!ChannelsInv
<1>1. e \in Channels!Events /\ v4[e].at \notin {"none", "queued", "done"}
  BY DEF Channels!Handling
<1>2. /\ Channels!Events' = Channels!Events /\ DOMAIN v4' = Channels!Events
      /\ v4'[e] = h
      /\ \A f \in Channels!Events : f # e => v4'[f] = v4[f]
  BY <1>1, HandlerGoes
<1>3. Channels!TypeOK'
  <2>1. \A f \in Channels!Events : v4'[f] = Channels!Nowhere <=> f \notin v3
    <3> SUFFICES ASSUME NEW f \in Channels!Events
                 PROVE  v4'[f] = Channels!Nowhere <=> f \notin v3
      OBVIOUS
    <3>1. v4[f] = Channels!Nowhere <=> f \notin v3
      BY DEF Channels!TypeOK
    <3>2. CASE f = e
      BY <1>1, <1>2, <3>1, <3>2 DEF Channels!Nowhere
    <3>3. CASE f # e
      BY <1>2, <3>1, <3>3
    <3> QED BY <3>2, <3>3
  <2> QED BY <1>2, <2>1 DEF Channels!TypeOK, Channels!Nowhere
<1>4. ASSUME NEW f \in Channels!Events PROVE Channels!Fits(f)' /\ Channels!BothComeIn(f)'
  <2>1. CASE f = e
    BY <2>1
  <2>2. CASE f # e
    BY <1>2, <2>2, OthersStillFit
  <2> QED BY <2>1, <2>2
<1>5. Channels!HandlersFit'
  BY <1>2, <1>4 DEF Channels!HandlersFit
<1>6. Channels!JuradoMeetsAsesor'
  <2> SUFFICES ASSUME v6' = 0, NEW f \in v3, f.kind = "supervisorAccepted",
                      v4'[f] = Channels!Done, f.of \in v9, v2[f.of] = "accepted"
               PROVE  \E c \in DOMAIN v5' : v5'[c].name = Channels!Private
                                            /\ Channels!Both(f.of) \subseteq v5'[c].members
    BY DEF Channels!JuradoMeetsAsesor, Channels!Done, Channels!Both, Channels!Person
  <2>1. CASE f = e
    BY <1>2, <2>1
  <2>2. CASE f # e
    <3>1. v4[f] = Channels!Done
      BY <1>2, <2>2 DEF Channels!TypeOK
    <3>2. \E c \in DOMAIN v5 : v5[c].name = Channels!Private
                               /\ Channels!Both(f.of) \subseteq v5[c].members
      BY <3>1 DEF Channels!JuradoMeetsAsesor
    <3> QED BY <3>2
  <2> QED BY <2>1, <2>2
<1>7. Channels!InTurn' /\ Channels!OneChannelEach'
  <2>1. CASE v8
    BY <2>1 DEF Channels!InTurn, Channels!OneChannelEach
  <2>2. CASE ~v8
    <3>1. \A f \in Channels!Events : f # e => v4'[f].at \in {"none", "queued", "done"}
      <4>1. Channels!Alone
        BY <2>2 DEF Channels!InTurn
      <4> QED BY <1>2, <4>1 DEF Channels!Alone, Channels!Handling
    <3>2. Channels!Alone'
      BY <1>2, <3>1 DEF Channels!Alone, Channels!Handling
    <3>3. ASSUME NEW f \in Channels!Events PROVE Channels!Opening(f)'
      <4>1. CASE f = e
        BY <2>2, <4>1
      <4>2. CASE f # e
        BY <3>1, <4>2 DEF Channels!Opening, Channels!Opens
      <4> QED BY <4>1, <4>2
    <3> QED BY <1>2, <2>2, <3>2, <3>3 DEF Channels!InTurn
  <2> QED BY <2>1, <2>2 DEF Channels!TypeOK
<1> QED BY <1>2, <1>3, <1>4, <1>5, <1>6, <1>7

\* Of those, the ones that open no channel: all channels are what they were, or are closed.
LEMMA HandlerLooks ==
    ASSUME Channels!ChannelsInv, NEW e \in Channels!Handling, NEW h, Channels!Goes(e, h),
           UNCHANGED <<v1, v2, v3, v8, v9>>, v6' \in Nat, v6' = 0 => v6 = 0,
           v5' \in Seq(Channels!Channel), Len(v5') = Len(v5),
           \A c \in DOMAIN v5 : /\ v5'[c].name = v5[c].name
                                /\ v5[c].members \subseteq v5'[c].members
                                /\ v5[c].name \in Channels!Directs
                                     => v5'[c].members = v5[c].members
                                /\ v5'[c].isActive => v5[c].isActive,
           Channels!Fits(e)', h.at \notin {"none", "owner", "members"}, Channels!BothComeIn(e)',
           v6' = 0 /\ e.kind = "supervisorAccepted" /\ h = Channels!Done
                /\ e.of \in v9 /\ v2[e.of] = "accepted"
              => \E c \in DOMAIN v5' : v5'[c].name = Channels!Private
                                       /\ Channels!Both(e.of) \subseteq v5'[c].members,
           v4[e].at \notin {"owner", "members"},
           ~v8 /\ h.at = "insert"
              => \A c \in DOMAIN v5 : v5[c].name = h.name => Channels!NotFor(c, e.of)'
    PROVE  Channels!ChannelsInv'
<1> USE DEF Channels!ChannelsInv
<1>1. /\ e \in Channels!Events /\ v4[e].at \notin {"none", "queued", "done"}
      /\ Channels!Events' = Channels!Events /\ v4'[e] = h
      /\ \A f \in Channels!Events : f # e => v4'[f] = v4[f]
  BY HandlerGoes DEF Channels!Handling
<1>2. DOMAIN v5' = DOMAIN v5 /\ Len(v5') <= MaxChannels
  BY LenProperties DEF Channels!TypeOK
<1>3. ASSUME ~v8 PROVE Channels!Opening(e)' /\ Channels!Complete' /\ Channels!OneChannelEach'
  <2>1. Channels!Opening(e)'
    BY <1>1, <1>2, <1>3 DEF Channels!Opening, Channels!Opens
  <2>2. Channels!Complete'
    <3> SUFFICES ASSUME NEW c \in DOMAIN v5, v5[c].name \in Channels!Directs
                 PROVE  \E a \in Applications :
                            v5'[c].members = Channels!For(v5'[c].name, a)
      BY <1>2 DEF Channels!Complete, Channels!Directs, Channels!For, Channels!Creator,
         Channels!Invited, Channels!Person, Channels!Company, Channels!Team, Channels!Private
    <3>1. \A f \in Channels!Events : v4[f].at \notin {"owner", "members"}
      BY <1>3 DEF Channels!InTurn, Channels!Alone, Channels!Handling
    <3>2. \E a \in Applications : v5[c].members = Channels!For(v5[c].name, a)
      BY <1>3, <3>1 DEF Channels!InTurn, Channels!Complete, Channels!Opens
    <3> QED BY <3>2
  <2>3. Channels!OneChannelEach'
    <3> SUFFICES ASSUME NEW c \in DOMAIN v5, NEW d \in DOMAIN v5, c # d,
                        v5'[c].name = v5'[d].name, v5'[c].isActive, v5'[d].isActive
                 PROVE  /\ v5'[c].name \in Channels!Directs
                        /\ v5'[c].members \cap v5'[d].members \subseteq {Channels!Company}
      BY <1>2 DEF Channels!OneChannelEach, Channels!Directs, Channels!Company
    <3>1. v5[c].name = v5[d].name /\ v5[c].isActive /\ v5[d].isActive
      OBVIOUS
    <3>2. v5[c].name \in Channels!Directs
          /\ v5[c].members \cap v5[d].members \subseteq {Channels!Company}
      BY <1>3, <3>1 DEF Channels!OneChannelEach
    <3> QED BY <3>1, <3>2
  <2> QED BY <2>1, <2>2, <2>3
<1>4. \A c \in DOMAIN v5 : v5'[c].name = v5[c].name /\ v5[c].members \subseteq v5'[c].members
  OBVIOUS
<1> QED BY <1>2, <1>3, <1>4, HandlerSteps

\* What a handler does next, and what it knows then.
LEMMA AfterwardsAre ==
    ASSUME NEW kind \in Channels!Kinds, NEW t \in Channels!Afterwards(kind)
    PROVE  /\ t.at \in {"done", "assignments", "look"}
           /\ t.at = "done" => t = Channels!Done
           /\ t.at = "assignments" => kind = "supervisorAccepted"
           /\ t.at = "look" => t \in Channels!Looks({"look", "insert"})
                               /\ t.name \in Channels!Names(kind)
<1>1. CASE t = Channels!Done
  BY <1>1 DEF Channels!Done
<1>2. CASE kind = "supervisorAccepted" /\ t = [at |-> "assignments"]
  BY <1>2
<1>3. CASE t \in Channels!Looks({"look"}) /\ t.name \in Channels!Names(kind)
  BY <1>3 DEF Channels!Looks
<1> QED BY <1>1, <1>2, <1>3 DEF Channels!Afterwards

LEMMA AfterFits ==
    ASSUME NEW kind \in Channels!Kinds, NEW h \in Channels!Looks({"look", "insert"}),
           h.name \in Channels!Names(kind)
    PROVE  /\ Channels!After(h) \in Channels!Afterwards(kind)
           /\ kind = "supervisorAccepted" /\ Channels!After(h) = Channels!Done
                => h.name = Channels!Private
<1> DEFINE looks(n) == [at |-> "look", name |-> n, company |-> TRUE]
           asks == [at |-> "assignments"]
<1>1. asks # Channels!Done /\ \A n : looks(n) # Channels!Done
  <2>1. asks.at = "assignments" /\ \A n : looks(n).at = "look"
    OBVIOUS
  <2> QED BY <2>1 DEF Channels!Done
<1>2. /\ looks("asesor-company") \in Channels!Looks({"look"})
      /\ looks(Channels!Team) \in Channels!Looks({"look"})
      /\ \A n : looks(n).name = n
  BY DEF Channels!Looks, Channels!Directs
<1>3. kind = "supervisorAccepted"
        => /\ asks \in Channels!Afterwards(kind)
           /\ looks("asesor-company") \in Channels!Afterwards(kind)
           /\ looks(Channels!Team) \in Channels!Afterwards(kind)
  BY <1>2 DEF Channels!Afterwards, Channels!Names
<1>4. \/ kind = "supervisorAccepted"
            /\ h.name \in {"asesor-student", "asesor-company", Channels!Team, Channels!Private}
      \/ kind # "supervisorAccepted" /\ h.name \in {"company-student", Channels!Private}
  BY DEF Channels!Names, Channels!Kinds
<1>5. \/ h.name = "asesor-student" /\ Channels!After(h) = looks("asesor-company")
      \/ h.name = "asesor-student" /\ Channels!After(h) = asks
      \/ h.name = "asesor-company" /\ Channels!After(h) = looks(Channels!Team)
      \/ h.name = Channels!Team /\ Channels!After(h) = asks
      \/ /\ h.name \in {"company-student", Channels!Private}
         /\ Channels!After(h) = Channels!Done
  <2>1. h.name = "asesor-student" => h.company \in BOOLEAN
    BY DEF Channels!Looks, Channels!Team, Channels!Private
  <2> QED BY <1>4, <2>1 DEF Channels!After, Channels!Team, Channels!Private
<1>6. Channels!Done \in Channels!Afterwards(kind)
  BY DEF Channels!Afterwards
<1>7. Channels!Team \notin {"asesor-student", "asesor-company", "company-student",
                           Channels!Private}
      /\ Channels!Private \notin {"asesor-student", "asesor-company", "company-student"}
  BY DEF Channels!Team, Channels!Private
<1> HIDE DEF looks, asks
<1> QED BY <1>1, <1>3, <1>4, <1>5, <1>6, <1>7

LEMMA AfterwardsFits ==
    ASSUME Channels!ChannelsInv, NEW e \in Channels!Events,
           v4'[e] \in Channels!Afterwards(e.kind)
    PROVE  /\ v4'[e].at \notin {"none", "insert", "join", "owner", "members", "close"}
           /\ Channels!Fits(e)' /\ Channels!BothComeIn(e)'
<1> DEFINE t == v4'[e]
<1>1. /\ t.at \in {"done", "assignments", "look"}
      /\ t.at = "done" => t = Channels!Done
      /\ t.at = "assignments" => e.kind = "supervisorAccepted"
      /\ t.at = "look" => t \in Channels!Looks({"look", "insert"})
                          /\ t.name \in Channels!Names(e.kind)
  BY EventsAreTyped, AfterwardsAre
<1> QED BY <1>1 DEF Channels!Fits, Channels!BothComeIn

LEMMA ChannelsCompany ==
    ASSUME Channels!ChannelsInv, NEW e \in Channels!Events, Channels!getCompanyUserId(e)
    PROVE  Channels!ChannelsInv'
<1> USE DEF Channels!ChannelsInv
<1>1. PICK known \in BOOLEAN :
        /\ IF known THEN v6' = v6 ELSE v6' = v6 + 1
        /\ Channels!Goes(e, [at |-> "look", name |-> "asesor-student", company |-> known])
  BY DEF Channels!getCompanyUserId, Channels!Fails
<1> DEFINE h == [at |-> "look", name |-> "asesor-student", company |-> known]
<1>2. v4[e].at = "company" /\ UNCHANGED <<v1, v2, v3, v5, v8, v9>>
  BY DEF Channels!getCompanyUserId, Channels!Desk
<1>3. e \in Channels!Handling /\ e.kind = "supervisorAccepted"
  BY <1>2 DEF Channels!Handling, Channels!HandlersFit, Channels!Fits
<1>4. /\ h.at = "look" /\ h.name = "asesor-student" /\ h # Channels!Done
      /\ h \in Channels!Looks({"look"})
  BY DEF Channels!Looks, Channels!Directs, Channels!Done
<1>5. Channels!Goes(e, h)
  BY <1>1
<1> HIDE DEF h
<1>6. v4'[e] = h /\ h \in Channels!Afterwards(e.kind)
  BY <1>2, <1>3, <1>4, <1>5, HandlerGoes DEF Channels!Afterwards, Channels!Names
<1>7. Channels!Fits(e)' /\ Channels!BothComeIn(e)'
  BY <1>6, AfterwardsFits
<1>8. v6 \in Nat /\ v6' \in Nat /\ (v6' = 0 => v6 = 0)
  BY <1>1 DEF Channels!TypeOK
<1>9. v5' \in Seq(Channels!Channel)
  BY <1>2 DEF Channels!TypeOK
<1> QED BY <1>2, <1>3, <1>4, <1>5, <1>7, <1>8, <1>9, HandlerLooks

LEMMA ChannelsAssignments ==
    ASSUME Channels!ChannelsInv, NEW e \in Channels!Events, Channels!Assignments(e)
    PROVE  Channels!ChannelsInv'
<1> USE DEF Channels!ChannelsInv
<1> DEFINE private == [at |-> "look", name |-> Channels!Private]
<1>1. PICK h : /\ Channels!Goes(e, h)
               /\ \/ h = Channels!Done /\ v6' = v6 + 1
                  \/ h = Channels!Done /\ v6' = v6 /\ v2[e.of] # "accepted"
                  \/ h = private /\ v6' = v6
  BY DEF Channels!Assignments, Channels!Fails, Channels!Active
<1>2. v4[e].at = "assignments" /\ UNCHANGED <<v1, v2, v3, v5, v8, v9>>
  BY DEF Channels!Assignments, Channels!Desk
<1>3. e \in Channels!Handling /\ e.kind = "supervisorAccepted"
  BY <1>2 DEF Channels!Handling, Channels!HandlersFit, Channels!Fits
<1>4. private.at = "look" /\ private.name = Channels!Private
      /\ private \in Channels!Looks({"look"})
  BY DEF Channels!Looks
<1>5. private \in Channels!Afterwards(e.kind)
  BY <1>3, <1>4 DEF Channels!Afterwards, Channels!Names
<1> HIDE DEF private
<1>6. v4'[e] = h /\ h \in Channels!Afterwards(e.kind) /\ h.at \in {"look", "done"}
  BY <1>1, <1>2, <1>4, <1>5, HandlerGoes DEF Channels!Afterwards, Channels!Done
<1>7. Channels!Fits(e)' /\ Channels!BothComeIn(e)'
  BY <1>6, AfterwardsFits
<1>8. v6 \in Nat /\ v6' \in Nat /\ (v6' = 0 => v6 = 0)
  BY <1>1 DEF Channels!TypeOK
<1>9. v6' = 0 /\ v2[e.of] = "accepted" => h # Channels!Done
  <2>1. private # Channels!Done
    BY <1>4 DEF Channels!Done
  <2>2. v6 + 1 # 0
    BY <1>8
  <2> QED BY <1>1, <2>1, <2>2
<1>10. v5' \in Seq(Channels!Channel)
  BY <1>2 DEF Channels!TypeOK
<1> QED BY <1>1, <1>2, <1>3, <1>6, <1>7, <1>8, <1>9, <1>10, HandlerLooks

LEMMA ChannelsLook ==
    ASSUME Channels!ChannelsInv, NEW e \in Channels!Events, Channels!Look(e)
    PROVE  Channels!ChannelsInv'
<1> USE DEF Channels!ChannelsInv
<1> DEFINE opens == [v4[e] EXCEPT !.at = "insert"]
           after == Channels!After(v4[e])
<1>1. v4[e].at = "look" /\ UNCHANGED <<v1, v2, v3, v5, v6, v8, v9>>
  BY DEF Channels!Look, Channels!Desk
<1>2. /\ v4[e] \in Channels!Looks({"look", "insert"}) /\ v4[e].name \in Channels!Names(e.kind)
      /\ e \in Channels!Handling /\ e.kind \in Channels!Kinds /\ e.of \in Applications
  BY <1>1, EventsAreTyped DEF Channels!Handling, Channels!HandlersFit, Channels!Fits
<1>3. /\ after \in Channels!Afterwards(e.kind)
      /\ e.kind = "supervisorAccepted" /\ after = Channels!Done
           => v4[e].name = Channels!Private
  BY <1>2, AfterFits
<1>4. /\ v6 \in Nat /\ v6' \in Nat /\ (v6' = 0 => v6 = 0)
      /\ v5' \in Seq(Channels!Channel)
  BY <1>1 DEF Channels!TypeOK
<1>5. CASE /\ Channels!Found(e) = {} /\ Channels!Goes(e, opens)
           /\ e.kind \in {"supervisorAccepted", "applicationAccepted"}
  <2>1. opens \in Channels!Looks({"look", "insert"}) /\ opens.at = "insert"
        /\ opens.name = v4[e].name
    BY <1>2 DEF Channels!Looks
  <2> HIDE DEF opens
  <2>2. v4'[e] = opens
    BY <1>1, <1>5, HandlerGoes
  <2>3. Channels!Fits(e)' /\ Channels!BothComeIn(e)'
    BY <1>2, <2>1, <2>2 DEF Channels!Fits, Channels!BothComeIn
  <2>4. ASSUME NEW c \in DOMAIN v5, v5[c].name = opens.name PROVE Channels!NotFor(c, e.of)'
    <3>1. c \notin Channels!Found(e)
      BY <1>5
    <3>2. IF v4[e].name \in Channels!Directs
          THEN ~(Channels!For(v4[e].name, e.of) \subseteq v5[c].members) ELSE ~v5[c].isActive
      BY <2>1, <2>4, <3>1 DEF Channels!Found
    <3> QED BY <1>1, <2>1, <2>4, <3>2 DEF Channels!NotFor, Channels!For, Channels!Creator,
            Channels!Invited, Channels!Person, Channels!Company, Channels!Directs,
            Channels!Team, Channels!Private
  <2>5. opens # Channels!Done
    BY <2>1 DEF Channels!Done
  <2> QED BY <1>1, <1>2, <1>4, <1>5, <2>1, <2>3, <2>4, <2>5, HandlerLooks
<1>6. CASE /\ Channels!Goes(e, Channels!Done)
           /\ e.kind \notin {"supervisorAccepted", "applicationAccepted"}
  <2>1. v4'[e] = Channels!Done /\ Channels!Done \in Channels!Afterwards(e.kind)
    BY <1>1, <1>6, HandlerGoes DEF Channels!Afterwards
  <2>2. Channels!Fits(e)' /\ Channels!BothComeIn(e)' /\ Channels!Done.at = "done"
    BY <2>1, AfterwardsFits DEF Channels!Done
  <2> QED BY <1>1, <1>2, <1>4, <1>6, <2>2, HandlerLooks
<1>7. ASSUME NEW c \in Channels!Found(e), e.kind = "juradoDisconnected",
             Channels!Goes(e, [at |-> "close", channel |-> c])
      PROVE  Channels!ChannelsInv'
  <2> DEFINE h == [at |-> "close", channel |-> c]
  <2>1. h.at = "close" /\ h.channel = c /\ Channels!Goes(e, h)
    BY <1>7
  <2> HIDE DEF h
  <2>2. v4'[e] = h
    BY <1>1, <2>1, HandlerGoes
  <2>3. c \in DOMAIN v5 /\ v5[c].name = Channels!Private
    BY <1>2, <1>7 DEF Channels!Found, Channels!Names
  <2>4. Channels!Fits(e)' /\ Channels!BothComeIn(e)'
    BY <1>1, <1>7, <2>1, <2>2, <2>3 DEF Channels!Fits, Channels!BothComeIn
  <2> QED BY <1>1, <1>2, <1>4, <1>7, <2>1, <2>4, HandlerLooks
<1>8. CASE Channels!Joins(e) = {} /\ Channels!Goes(e, after)
  <2>1. v4'[e] = after
    BY <1>1, <1>8, HandlerGoes
  <2>2. /\ after.at \notin {"none", "insert", "join", "owner", "members", "close"}
        /\ Channels!Fits(e)' /\ Channels!BothComeIn(e)'
    BY <1>3, <2>1, AfterwardsFits
  <2>3. e.kind = "supervisorAccepted" => after # Channels!Done
    <3>1. e.kind = "supervisorAccepted" => v4[e].name # Channels!Private
      BY <1>8 DEF Channels!Joins, Channels!Private, Channels!Team
    <3> QED BY <1>3, <3>1
  <2> HIDE DEF after
  <2> QED BY <1>1, <1>2, <1>4, <1>8, <2>2, <2>3, HandlerLooks
<1>9. ASSUME NEW c \in Channels!Found(e), Channels!Joins(e) # {},
             Channels!Goes(e, [at |-> "join", channel |-> c, todo |-> Channels!Joins(e),
                               then |-> after])
      PROVE  Channels!ChannelsInv'
  <2> DEFINE h == [at |-> "join", channel |-> c, todo |-> Channels!Joins(e), then |-> after]
  <2>1. /\ h.at = "join" /\ h.channel = c /\ h.todo = Channels!Joins(e) /\ h.then = after
        /\ Channels!Goes(e, h)
    BY <1>9
  <2>2. c \in DOMAIN v5 /\ v5[c].name = v4[e].name
    BY <1>9 DEF Channels!Found
  <2>3. v4[e].name \in Channels!Groups
    BY <1>9 DEF Channels!Joins, Channels!Groups, Channels!Team, Channels!Private
  <2>4. Channels!Joins(e) \subseteq Channels!People
    BY <1>2 DEF Channels!Joins, Channels!People, Channels!Person
  <2>5. h \in [at : {"join"}, channel : DOMAIN v5, todo : SUBSET Channels!People,
               then : Channels!Afterwards(e.kind)]
    BY <1>3, <2>2, <2>4
  <2>6. e.kind = "supervisorAccepted" /\ v4[e].name = Channels!Private
            => Channels!Both(e.of) \subseteq Channels!Joins(e)
    BY DEF Channels!Joins, Channels!Both, Channels!Private, Channels!Team
  <2> HIDE DEF h, after
  <2>7. v4'[e] = h
    BY <1>1, <2>1, HandlerGoes
  <2>8. Channels!Fits(e)'
    BY <1>1, <1>3, <2>1, <2>2, <2>3, <2>5, <2>7 DEF Channels!Fits
  <2>9. Channels!BothComeIn(e)'
    BY <1>1, <2>1, <2>2, <2>6, <2>7
    DEF Channels!BothComeIn, Channels!Inside, Channels!Both, Channels!Person
  <2>10. h # Channels!Done
    BY <2>1 DEF Channels!Done
  <2> QED BY <1>1, <1>2, <1>4, <2>1, <2>8, <2>9, <2>10, HandlerLooks
<1> QED BY <1>5, <1>6, <1>7, <1>8, <1>9 DEF Channels!Look

\* Somebody enters a channel.
LEMMA Enter ==
    ASSUME Channels!TypeOK, NEW c \in DOMAIN v5, NEW S \in SUBSET Channels!People,
           v5' = [v5 EXCEPT ![c].members = @ \cup S]
    PROVE  /\ v5' \in Seq(Channels!Channel) /\ Len(v5') = Len(v5) /\ DOMAIN v5' = DOMAIN v5
           /\ Len(v5') <= MaxChannels
           /\ \A d \in DOMAIN v5 : /\ v5'[d].name = v5[d].name
                                   /\ v5'[d].isActive = v5[d].isActive
                                   /\ v5[d].members \subseteq v5'[d].members
                                   /\ d # c => v5'[d] = v5[d]
           /\ v5'[c].members = v5[c].members \cup S
<1> DEFINE entered == [v5[c] EXCEPT !.members = @ \cup S]
<1>1. v5 \in Seq(Channels!Channel) /\ DOMAIN v5 = 1..Len(v5) /\ v5[c] \in Channels!Channel
  BY LenProperties, ElementOfSeq DEF Channels!TypeOK
<1>2. /\ entered \in Channels!Channel
      /\ entered.name = v5[c].name /\ entered.isActive = v5[c].isActive
      /\ entered.members = v5[c].members \cup S
  BY <1>1 DEF Channels!Channel
<1>3. v5' = [v5 EXCEPT ![c] = entered]
  OBVIOUS
<1> HIDE DEF entered
<1>4. /\ v5' \in Seq(Channels!Channel) /\ Len(v5') = Len(v5) /\ v5'[c] = entered
      /\ \A d \in 1..Len(v5) : d # c => v5'[d] = v5[d]
  <2>1. c \in 1..Len(v5)
    BY <1>1
  <2>2. /\ [v5 EXCEPT ![c] = entered] \in Seq(Channels!Channel)
        /\ Len([v5 EXCEPT ![c] = entered]) = Len(v5)
        /\ \A d \in 1..Len(v5) :
             [v5 EXCEPT ![c] = entered][d] = IF d = c THEN entered ELSE v5[d]
    BY <1>1, <1>2, <2>1, ExceptSeq
  <2> QED BY <1>3, <2>1, <2>2
<1>5. DOMAIN v5' = DOMAIN v5
  BY <1>1, <1>4, LenProperties
<1> QED BY <1>1, <1>2, <1>4, <1>5 DEF Channels!TypeOK

LEMMA ChannelsJoin ==
    ASSUME Channels!ChannelsInv, NEW e \in Channels!Events, Channels!Join(e)
    PROVE  Channels!ChannelsInv'
<1> USE DEF Channels!ChannelsInv
<1> DEFINE c == v4[e].channel
           stays(p) == [v4[e] EXCEPT !.todo = @ \ {p}]
<1>1. v4[e].at = "join" /\ UNCHANGED <<v1, v2, v3, v6, v8, v9>>
  BY DEF Channels!Join, Channels!Desk
<1>2. /\ v4[e] \in [at : {"join"}, channel : DOMAIN v5, todo : SUBSET Channels!People,
                    then : Channels!Afterwards(e.kind)]
      /\ v5[c].name \in Channels!Groups /\ e \in Channels!Handling
      /\ e.kind = "supervisorAccepted" /\ v4[e].then = Channels!Done
           => v5[c].name = Channels!Private
      /\ e.kind = "supervisorAccepted" /\ v5[c].name = Channels!Private
           => Channels!Both(e.of) \subseteq v5[c].members \cup v4[e].todo
  BY <1>1 DEF Channels!Handling, Channels!HandlersFit, Channels!Fits, Channels!BothComeIn,
     Channels!Inside
<1>3. PICK p \in v4[e].todo :
        /\ v5' = [v5 EXCEPT ![c].members = @ \cup {p}]
        /\ Channels!Goes(e, IF v4[e].todo = {p} THEN v4[e].then ELSE stays(p))
  BY DEF Channels!Join
<1>4. c \in DOMAIN v5 /\ {p} \in SUBSET Channels!People
  BY <1>2
<1>5. /\ v5' \in Seq(Channels!Channel) /\ Len(v5') = Len(v5) /\ DOMAIN v5' = DOMAIN v5
      /\ \A d \in DOMAIN v5 : /\ v5'[d].name = v5[d].name
                              /\ v5'[d].isActive = v5[d].isActive
                              /\ v5[d].members \subseteq v5'[d].members
                              /\ d # c => v5'[d] = v5[d]
      /\ v5'[c].members = v5[c].members \cup {p}
  BY <1>3, <1>4, Enter
<1>6. \A d \in DOMAIN v5 : v5[d].name \in Channels!Directs => v5'[d].members = v5[d].members
  BY <1>2, <1>5 DEF Channels!Directs, Channels!Groups
<1>7. v6 \in Nat /\ v6' \in Nat /\ (v6' = 0 => v6 = 0)
  BY <1>1 DEF Channels!TypeOK
<1>8. CASE v4[e].todo = {p}
  <2> DEFINE h == v4[e].then
  <2>1. Channels!Goes(e, h)
    BY <1>3, <1>8
  <2>2. v4'[e] = h /\ h \in Channels!Afterwards(e.kind)
    BY <1>1, <1>2, <2>1, HandlerGoes
  <2>3. /\ h.at \notin {"none", "insert", "join", "owner", "members", "close"}
        /\ Channels!Fits(e)' /\ Channels!BothComeIn(e)'
    BY <2>2, AfterwardsFits
  <2>4. e.kind = "supervisorAccepted" /\ h = Channels!Done
          => v5'[c].name = Channels!Private /\ Channels!Both(e.of) \subseteq v5'[c].members
    BY <1>2, <1>4, <1>5, <1>8
  <2> HIDE DEF h, c
  <2> QED BY <1>1, <1>2, <1>4, <1>5, <1>6, <1>7, <2>1, <2>3, <2>4, HandlerLooks
<1>9. CASE v4[e].todo # {p}
  <2> DEFINE h == stays(p)
  <2>1. Channels!Goes(e, h)
    BY <1>3, <1>9
  <2>2. /\ h \in [at : {"join"}, channel : DOMAIN v5, todo : SUBSET Channels!People,
                  then : Channels!Afterwards(e.kind)]
        /\ h.at = "join" /\ h.channel = c /\ h.todo = v4[e].todo \ {p} /\ h.then = v4[e].then
    BY <1>2
  <2> HIDE DEF h, c
  <2>3. v4'[e] = h
    BY <1>1, <2>1, HandlerGoes
  <2>4. Channels!Fits(e)'
    BY <1>2, <1>4, <1>5, <2>2, <2>3 DEF Channels!Fits
  <2>5. Channels!BothComeIn(e)'
    <3>1. v5'[c].name = v5[c].name /\ v5'[c].members = v5[c].members \cup {p}
      BY <1>4, <1>5
    <3>2. v5[c].members \cup v4[e].todo \subseteq v5'[c].members \cup h.todo
      BY <2>2, <3>1
    <3> QED BY <1>1, <1>2, <2>2, <2>3, <3>1, <3>2
            DEF Channels!BothComeIn, Channels!Inside, Channels!Both, Channels!Person, c
  <2>6. h # Channels!Done
    BY <2>2 DEF Channels!Done
  <2> QED BY <1>1, <1>2, <1>5, <1>6, <1>7, <2>1, <2>2, <2>4, <2>5, <2>6, HandlerLooks
<1> QED BY <1>8, <1>9

LEMMA ChannelsClose ==
    ASSUME Channels!ChannelsInv, NEW e \in Channels!Events, Channels!Close(e)
    PROVE  Channels!ChannelsInv'
<1> USE DEF Channels!ChannelsInv
<1> DEFINE c == v4[e].channel
           closed == [v5[c] EXCEPT !.isActive = FALSE]
<1>1. /\ v4[e].at = "close" /\ UNCHANGED <<v1, v2, v3, v6, v8, v9>>
      /\ v5' = [v5 EXCEPT ![c] = closed] /\ Channels!Goes(e, Channels!Done)
  BY DEF Channels!Close, Channels!Desk
<1>2. e \in Channels!Handling /\ c \in DOMAIN v5 /\ e.kind = "juradoDisconnected"
      /\ v5[c].name = Channels!Private
  BY <1>1 DEF Channels!Handling, Channels!HandlersFit, Channels!Fits
<1>3. v5 \in Seq(Channels!Channel) /\ DOMAIN v5 = 1..Len(v5) /\ v5[c] \in Channels!Channel
  BY <1>2, LenProperties, ElementOfSeq DEF Channels!TypeOK
<1>4. /\ closed \in Channels!Channel /\ closed.name = v5[c].name
      /\ closed.isActive = FALSE /\ closed.members = v5[c].members
  BY <1>3 DEF Channels!Channel
<1> HIDE DEF closed
<1>5. /\ v5' \in Seq(Channels!Channel) /\ Len(v5') = Len(v5) /\ v5'[c] = closed
      /\ \A d \in 1..Len(v5) : d # c => v5'[d] = v5[d]
  BY <1>1, <1>2, <1>3, <1>4, ExceptSeq
<1>6. \A d \in DOMAIN v5 : /\ v5'[d].name = v5[d].name /\ v5'[d].members = v5[d].members
                           /\ v5'[d].isActive => v5[d].isActive
  BY <1>3, <1>4, <1>5
<1>7. v4'[e] = Channels!Done /\ Channels!Done.at = "done"
  BY <1>1, <1>2, HandlerGoes DEF Channels!Handling, Channels!Done
<1>8. Channels!Fits(e)' /\ Channels!BothComeIn(e)'
  BY <1>7 DEF Channels!Fits, Channels!BothComeIn
<1>9. v6 \in Nat /\ v6' \in Nat /\ (v6' = 0 => v6 = 0)
  BY <1>1 DEF Channels!TypeOK
<1> HIDE DEF c
<1> QED BY <1>1, <1>2, <1>5, <1>6, <1>7, <1>8, <1>9, HandlerLooks

(***************************************************************************)
(* Channels that are opened                                                *)
(***************************************************************************)
LEMMA WhoIsInvited ==
    ASSUME NEW a
    PROVE  /\ Channels!Invited("company-student", a) = {Channels!Person("student", a)}
           /\ Channels!Invited("asesor-student", a) = {Channels!Person("student", a)}
           /\ Channels!Invited("asesor-company", a) = {Channels!Company}
           /\ Channels!Invited(Channels!Team, a)
                = {Channels!Person("student", a), Channels!Company}
           /\ Channels!Invited(Channels!Private, a) = {Channels!Person("jurado", a)}
BY DEF Channels!Invited, Channels!Team, Channels!Private

LEMMA PeopleDiffer ==
    /\ Channels!Company \in Channels!People
    /\ \A a \in Applications :
         \A part \in {"student", "asesor", "jurado"} :
            /\ Channels!Person(part, a) \in Channels!People
            /\ Channels!Person(part, a) # Channels!Company
            /\ \A b \in Applications : \A other \in {"student", "asesor", "jurado"} :
                  Channels!Person(part, a) = Channels!Person(other, b) => a = b /\ part = other
<1> SUFFICES ASSUME NEW a \in Applications, NEW part \in {"student", "asesor", "jurado"}
             PROVE  /\ Channels!Company \in Channels!People
                    /\ Channels!Person(part, a) \in Channels!People
                    /\ Channels!Person(part, a) # Channels!Company
                    /\ \A b \in Applications : \A other \in {"student", "asesor", "jurado"} :
                          Channels!Person(part, a) = Channels!Person(other, b)
                              => a = b /\ part = other
  BY DEF Channels!Company, Channels!People
<1>1. Channels!Company \in Channels!People /\ Channels!Person(part, a) \in Channels!People
  BY DEF Channels!Company, Channels!Person, Channels!People
<1>2. Channels!Company.part = "company" /\ Channels!Person(part, a).part = part
  BY DEF Channels!Company, Channels!Person
<1>3. \A b \in Applications : \A other \in {"student", "asesor", "jurado"} :
        Channels!Person(part, a) = Channels!Person(other, b) => a = b /\ part = other
  BY DEF Channels!Person
<1> QED BY <1>1, <1>2, <1>3

LEMMA PairsApart ==
    ASSUME NEW name \in Channels!Directs, NEW a \in Applications, NEW b \in Applications, a # b
    PROVE  Channels!For(name, a) \cap Channels!For(name, b) \subseteq {Channels!Company}
<1>1. CASE name = "company-student"
  BY <1>1, WhoIsInvited, PeopleDiffer DEF Channels!For, Channels!Creator
<1>2. CASE name = "asesor-student"
  BY <1>2, WhoIsInvited, PeopleDiffer DEF Channels!For, Channels!Creator
<1>3. CASE name = "asesor-company"
  BY <1>3, WhoIsInvited, PeopleDiffer DEF Channels!For, Channels!Creator
<1> QED BY <1>1, <1>2, <1>3 DEF Channels!Directs

LEMMA ForPeople ==
    ASSUME NEW a \in Applications, NEW name \in Channels!Directs \cup Channels!Groups
    PROVE  /\ Channels!Creator(name, a) \in Channels!People
           /\ Channels!Invited(name, a) \subseteq Channels!People
           /\ Channels!For(name, a) = {Channels!Creator(name, a)} \cup Channels!Invited(name, a)
<1>1. Channels!Creator(name, a) \in Channels!People
  BY PeopleDiffer DEF Channels!Creator
<1>2. \/ name \in {"company-student", "asesor-student", "asesor-company"}
      \/ name = Channels!Team \/ name = Channels!Private
  BY DEF Channels!Directs, Channels!Groups, Channels!Team, Channels!Private
<1>3. Channels!Invited(name, a) \subseteq Channels!People
  BY <1>2, WhoIsInvited, PeopleDiffer
<1> QED BY <1>1, <1>3 DEF Channels!For

LEMMA ChannelsInsert ==
    ASSUME Channels!ChannelsInv, NEW e \in Channels!Events, Channels!Insert(e)
    PROVE  Channels!ChannelsInv'
<1> USE DEF Channels!ChannelsInv
<1> DEFINE name == v4[e].name
           c == Len(v5) + 1
           new == [name |-> name, members |-> {}, isActive |-> TRUE]
           h == [at |-> "owner", channel |-> Len(v5'), owner |-> Channels!Creator(name, e.of),
                 todo |-> Channels!Invited(name, e.of), then |-> Channels!After(v4[e])]
<1>1. /\ v4[e].at = "insert" /\ Len(v5) < MaxChannels /\ v5' = Append(v5, new)
      /\ UNCHANGED <<v1, v2, v3, v6, v8, v9>> /\ Channels!Goes(e, h)
  BY DEF Channels!Insert, Channels!Desk
<1>2. /\ e \in Channels!Handling /\ e.kind \in Channels!Kinds /\ e.of \in Applications
      /\ v4[e] \in Channels!Looks({"look", "insert"}) /\ name \in Channels!Names(e.kind)
  BY <1>1, EventsAreTyped DEF Channels!Handling, Channels!HandlersFit, Channels!Fits
<1>3. name \in Channels!Directs \cup Channels!Groups
  BY <1>2 DEF Channels!Looks, Channels!Groups, Channels!Team, Channels!Private
<1>4. /\ new \in Channels!Channel /\ new.name = name /\ new.members = {} /\ new.isActive = TRUE
  BY <1>3 DEF Channels!Channel
<1> HIDE DEF new
<1>5. /\ v5 \in Seq(Channels!Channel) /\ Len(v5) \in Nat /\ DOMAIN v5 = 1..Len(v5)
      /\ v5' \in Seq(Channels!Channel) /\ Len(v5') = c /\ DOMAIN v5' = 1..c /\ c \in DOMAIN v5'
      /\ v5'[c] = new /\ \A d \in DOMAIN v5 : v5'[d] = v5[d]
      /\ DOMAIN v5' \ {c} = DOMAIN v5
  <2>1. v5 \in Seq(Channels!Channel) /\ Len(v5) \in Nat /\ DOMAIN v5 = 1..Len(v5)
    BY LenProperties DEF Channels!TypeOK
  <2>2. /\ v5' \in Seq(Channels!Channel) /\ Len(v5') = c
        /\ v5'[c] = new /\ \A d \in 1..Len(v5) : v5'[d] = v5[d]
    BY <1>1, <1>4, <2>1, AppendProperties
  <2>3. DOMAIN v5' = 1..c
    BY <2>2, LenProperties
  <2> QED BY <2>1, <2>2, <2>3
<1>6. /\ h.at = "owner" /\ h.channel = c /\ h.owner = Channels!Creator(name, e.of)
      /\ h.todo = Channels!Invited(name, e.of) /\ h.then = Channels!After(v4[e])
  BY <1>5
<1> HIDE DEF h, c, name
<1>7. v4'[e] = h
  BY <1>1, HandlerGoes
<1>8. /\ h.then \in Channels!Afterwards(e.kind)
      /\ e.kind = "supervisorAccepted" /\ h.then = Channels!Done => name = Channels!Private
  BY <1>2, <1>6, AfterFits DEF name
<1>9. /\ h.owner \in Channels!People /\ h.todo \subseteq Channels!People
      /\ {h.owner} \cup h.todo = Channels!For(name, e.of)
  BY <1>2, <1>3, <1>6, ForPeople
<1>10. v5'[c].name = name /\ v5'[c].members = {} /\ c \in DOMAIN v5'
  BY <1>4, <1>5
<1>11. Channels!Fits(e)'
  BY <1>6, <1>7, <1>8, <1>9, <1>10 DEF Channels!Fits
<1>12. Channels!Inside(e)' = Channels!For(name, e.of)
  BY <1>6, <1>7, <1>9, <1>10 DEF Channels!Inside
<1>13. Channels!BothComeIn(e)'
  <2>1. name = Channels!Private => Channels!For(name, e.of) = Channels!Both(e.of)
    BY DEF Channels!For, Channels!Creator, Channels!Invited, Channels!Both, Channels!Private,
       Channels!Team
  <2>2. Channels!Both(e.of)' = Channels!Both(e.of)
    BY DEF Channels!Both, Channels!Person
  <2> QED BY <1>6, <1>7, <1>10, <1>12, <2>1, <2>2 DEF Channels!BothComeIn
<1>14. ASSUME ~v8 PROVE Channels!Opening(e)' /\ Channels!Complete' /\ Channels!OneChannelEach'
  <2>1. /\ Channels!Opening(e) /\ Channels!Complete
        /\ \A f \in Channels!Handling : f = e
    BY <1>2, <1>14 DEF Channels!InTurn, Channels!Alone, Channels!Handling
  <2>2. \A d \in DOMAIN v5 : v5[d].name = name => Channels!NotFor(d, e.of)
    BY <1>1, <2>1 DEF Channels!Opening, name
  <2>3. \A d \in DOMAIN v5 : Channels!NotFor(d, e.of) => Channels!NotFor(d, e.of)'
    BY <1>5 DEF Channels!NotFor, Channels!For, Channels!Creator, Channels!Invited,
       Channels!Person, Channels!Company, Channels!Directs, Channels!Team, Channels!Private
  <2>4. Channels!Opening(e)'
    <3> SUFFICES ASSUME NEW b \in DOMAIN v5', Channels!Opens(e, b)'
                 PROVE  /\ \A d \in DOMAIN v5' \ {b} :
                              v5'[d].name = v5'[b].name => Channels!NotFor(d, e.of)'
                        /\ v5'[b].name \in Channels!Directs
                             => Channels!Inside(e)' = Channels!For(v5'[b].name, e.of)
      BY <1>6, <1>7 DEF Channels!Opening, Channels!Directs, Channels!For, Channels!Creator,
         Channels!Invited, Channels!Person, Channels!Company, Channels!Team, Channels!Private
    <3>1. b = c
      BY <1>6, <1>7 DEF Channels!Opens
    <3> QED BY <1>5, <1>10, <1>12, <2>2, <2>3, <3>1
  <2>5. Channels!Complete'
    <3> SUFFICES ASSUME NEW d \in DOMAIN v5', v5'[d].name \in Channels!Directs
                 PROVE  \/ \E a \in Applications :
                                v5'[d].members = Channels!For(v5'[d].name, a)
                        \/ Channels!Opens(e, d)'
      <4>1. e \in Channels!Events'
        BY <1>1 DEF Channels!Events
      <4> QED BY <4>1 DEF Channels!Complete, Channels!Directs, Channels!For, Channels!Creator,
              Channels!Invited, Channels!Person, Channels!Company, Channels!Team,
              Channels!Private
    <3>1. CASE d = c
      BY <1>6, <1>7, <3>1 DEF Channels!Opens
    <3>2. CASE d # c
      <4>1. d \in DOMAIN v5 /\ v5'[d] = v5[d]
        BY <1>5, <3>2
      <4>2. ~\E f \in Channels!Events : Channels!Opens(f, d)
        BY <1>1, <2>1 DEF Channels!Opens, Channels!Handling
      <4> QED BY <2>1, <4>1, <4>2 DEF Channels!Complete
    <3> QED BY <3>1, <3>2
  <2>6. Channels!OneChannelEach'
    <3> SUFFICES ASSUME NEW b \in DOMAIN v5', NEW d \in DOMAIN v5', b # d,
                        v5'[b].name = v5'[d].name, v5'[b].isActive, v5'[d].isActive
                 PROVE  /\ v5'[b].name \in Channels!Directs
                        /\ v5'[b].members \cap v5'[d].members \subseteq {Channels!Company}
      BY DEF Channels!OneChannelEach, Channels!Directs, Channels!Company
    <3>1. CASE b \in DOMAIN v5 /\ d \in DOMAIN v5
      BY <1>5, <1>14, <3>1 DEF Channels!OneChannelEach
    <3>2. ASSUME NEW f \in DOMAIN v5, v5'[f].name = name, v5'[f].isActive
          PROVE  name \in Channels!Directs
      <4>1. Channels!NotFor(f, e.of) /\ v5[f].name = name /\ v5[f].isActive
        BY <1>5, <2>2, <3>2
      <4> QED BY <4>1 DEF Channels!NotFor
    <3>3. CASE b = c
      BY <1>5, <1>10, <3>2, <3>3
    <3>4. CASE d = c
      BY <1>5, <1>10, <3>2, <3>4
    <3> QED BY <1>5, <3>1, <3>3, <3>4
  <2> QED BY <2>4, <2>5, <2>6
<1>15. h # Channels!Done /\ Len(v5') <= MaxChannels
       /\ v6 \in Nat /\ v6' \in Nat /\ (v6' = 0 => v6 = 0)
  <2>1. MaxChannels \in Nat
    BY ServicesAssumption DEF Channels!ChannelsAssumption
  <2> QED BY <1>1, <1>5, <1>6, <2>1 DEF Channels!Done, Channels!TypeOK, c
<1>16. DOMAIN v5 \subseteq DOMAIN v5' /\ \A d \in DOMAIN v5 : v5'[d] = v5[d]
  BY <1>5
<1> QED BY <1>1, <1>2, <1>5, <1>6, <1>11, <1>13, <1>14, <1>15, <1>16, HandlerSteps

\* While a channel is opened, in turn, the others are complete and for somebody else.
LEMMA OpensAlone ==
    ASSUME Channels!ChannelsInv, ~v8, NEW e \in Channels!Events, NEW c \in DOMAIN v5,
           Channels!Opens(e, c), NEW S \in SUBSET Channels!People, S \subseteq Channels!Inside(e),
           v5' = [v5 EXCEPT ![c].members = @ \cup S]
    PROVE  /\ Channels!OneChannelEach'
           /\ \A d \in DOMAIN v5 : d # c /\ v5[d].name \in Channels!Directs
                => \E a \in Applications : v5[d].members = Channels!For(v5[d].name, a)
           /\ \A d \in DOMAIN v5 \ {c} :
                v5'[d].name = v5'[c].name => Channels!NotFor(d, e.of)'
           /\ v5[c].name \in Channels!Directs
                => Channels!Inside(e) = Channels!For(v5[c].name, e.of)
<1> USE DEF Channels!ChannelsInv
<1>1. /\ DOMAIN v5' = DOMAIN v5
      /\ \A d \in DOMAIN v5 : /\ v5'[d].name = v5[d].name
                              /\ v5'[d].isActive = v5[d].isActive
                              /\ d # c => v5'[d] = v5[d]
      /\ v5'[c].members = v5[c].members \cup S
  BY Enter
<1>2. e \in Channels!Handling
  BY DEF Channels!Handling, Channels!Opens
<1>3. /\ Channels!Opening(e) /\ Channels!Complete /\ e.of \in Applications
      /\ \A f \in Channels!Handling : f = e
  BY <1>2, EventsAreTyped DEF Channels!InTurn, Channels!Alone
<1>4. /\ \A d \in DOMAIN v5 \ {c} : v5[d].name = v5[c].name => Channels!NotFor(d, e.of)
      /\ v5[c].name \in Channels!Directs
           => Channels!Inside(e) = Channels!For(v5[c].name, e.of)
  BY <1>3 DEF Channels!Opening
<1>5. ASSUME NEW d \in DOMAIN v5, d # c, v5[d].name \in Channels!Directs
      PROVE  \E a \in Applications : v5[d].members = Channels!For(v5[d].name, a)
  <2>1. ~\E f \in Channels!Events : Channels!Opens(f, d)
    BY <1>3, <1>5 DEF Channels!Opens, Channels!Handling
  <2> QED BY <1>3, <1>5, <2>1 DEF Channels!Complete
<1>6. \A d \in DOMAIN v5 \ {c} : v5'[d].name = v5'[c].name => Channels!NotFor(d, e.of)'
  BY <1>1, <1>4 DEF Channels!NotFor, Channels!For, Channels!Creator, Channels!Invited,
     Channels!Person, Channels!Company, Channels!Directs, Channels!Team, Channels!Private
<1>7. v5[c].members \subseteq Channels!Inside(e)
  BY DEF Channels!Inside, Channels!Opens
<1>8. ASSUME NEW d \in DOMAIN v5 \ {c}, v5[d].name = v5[c].name, v5[d].isActive
      PROVE  /\ v5[c].name \in Channels!Directs
             /\ v5'[c].members \cap v5[d].members \subseteq {Channels!Company}
  <2>1. Channels!NotFor(d, e.of)
    BY <1>4, <1>8
  <2>2. /\ v5[c].name \in Channels!Directs
        /\ ~(Channels!For(v5[c].name, e.of) \subseteq v5[d].members)
    BY <1>8, <2>1 DEF Channels!NotFor
  <2>3. PICK a \in Applications : v5[d].members = Channels!For(v5[c].name, a)
    BY <1>5, <1>8, <2>2
  <2>4. v5'[c].members \subseteq Channels!For(v5[c].name, e.of)
    BY <1>1, <1>4, <1>7, <2>2
  <2>5. Channels!For(v5[c].name, e.of) \cap Channels!For(v5[c].name, a)
            \subseteq {Channels!Company}
    BY <1>3, <2>2, <2>3, PairsApart
  <2> QED BY <2>2, <2>3, <2>4, <2>5
<1>9. Channels!OneChannelEach'
  <2> SUFFICES ASSUME NEW b \in DOMAIN v5, NEW d \in DOMAIN v5, b # d,
                      v5'[b].name = v5'[d].name, v5'[b].isActive, v5'[d].isActive
               PROVE  /\ v5'[b].name \in Channels!Directs
                      /\ v5'[b].members \cap v5'[d].members \subseteq {Channels!Company}
    BY <1>1 DEF Channels!OneChannelEach, Channels!Directs, Channels!Company
  <2>1. /\ v5[b].name = v5[d].name /\ v5[b].isActive /\ v5[d].isActive
        /\ v5'[b].name = v5[b].name
        /\ b # c => v5'[b] = v5[b]
        /\ d # c => v5'[d] = v5[d]
    BY <1>1
  <2>2. CASE b = c
    <3>1. /\ v5[c].name \in Channels!Directs
          /\ v5'[c].members \cap v5[d].members \subseteq {Channels!Company}
      BY <1>8, <2>1, <2>2
    <3> QED BY <2>1, <2>2, <3>1
  <2>3. CASE d = c
    <3>1. /\ v5[c].name \in Channels!Directs
          /\ v5'[c].members \cap v5[b].members \subseteq {Channels!Company}
      BY <1>8, <2>1, <2>3
    <3> QED BY <2>1, <2>3, <3>1
  <2>4. CASE b # c /\ d # c
    BY <2>1, <2>4 DEF Channels!OneChannelEach
  <2> QED BY <2>2, <2>3, <2>4
<1> QED BY <1>4, <1>5, <1>6, <1>9

LEMMA ChannelsOwner ==
    ASSUME Channels!ChannelsInv, NEW e \in Channels!Events, Channels!Owner(e)
    PROVE  Channels!ChannelsInv'
<1> USE DEF Channels!ChannelsInv
<1> DEFINE c == v4[e].channel
           S == {v4[e].owner}
           h == [at |-> "members", channel |-> c, todo |-> v4[e].todo, then |-> v4[e].then]
<1>1. /\ v4[e].at = "owner" /\ v5' = [v5 EXCEPT ![c].members = @ \cup S]
      /\ UNCHANGED <<v1, v2, v3, v6, v8, v9>> /\ Channels!Goes(e, h)
  BY DEF Channels!Owner, Channels!Desk
<1>2. /\ e \in Channels!Handling /\ c \in DOMAIN v5 /\ S \in SUBSET Channels!People
      /\ v4[e].todo \subseteq Channels!People /\ v4[e].then \in Channels!Afterwards(e.kind)
      /\ e.kind = "supervisorAccepted" /\ v4[e].then = Channels!Done
           => v5[c].name = Channels!Private
      /\ Channels!BothComeIn(e)
  BY <1>1 DEF Channels!Handling, Channels!HandlersFit, Channels!Fits
<1>3. /\ h.at = "members" /\ h.channel = c /\ h.todo = v4[e].todo /\ h.then = v4[e].then
      /\ h # Channels!Done
  BY DEF Channels!Done
<1>4. Channels!Inside(e) = v5[c].members \cup v4[e].todo \cup S
      /\ Channels!Opens(e, c)
  BY <1>1 DEF Channels!Inside, Channels!Opens
<1> HIDE DEF h, c, S
<1>5. v4'[e] = h
  BY <1>1, HandlerGoes
<1>6. /\ v5' \in Seq(Channels!Channel) /\ Len(v5') <= MaxChannels
      /\ DOMAIN v5' = DOMAIN v5
      /\ \A d \in DOMAIN v5 : v5'[d].name = v5[d].name /\ v5[d].members \subseteq v5'[d].members
      /\ v5'[c].members = v5[c].members \cup S
  BY <1>1, <1>2, Enter
<1>7. v5'[c].name = v5[c].name
  BY <1>2, <1>6
<1>8. Channels!Inside(e)' = Channels!Inside(e)
  BY <1>3, <1>4, <1>5, <1>6 DEF Channels!Inside
<1>9. Channels!Fits(e)'
  BY <1>2, <1>3, <1>5, <1>6, <1>7 DEF Channels!Fits
<1>10. Channels!BothComeIn(e)'
  BY <1>1, <1>2, <1>3, <1>5, <1>7, <1>8
  DEF Channels!BothComeIn, Channels!Both, Channels!Person, c
<1>11. ASSUME ~v8 PROVE Channels!Opening(e)' /\ Channels!Complete' /\ Channels!OneChannelEach'
  <2>1. /\ Channels!OneChannelEach'
        /\ \A d \in DOMAIN v5 : d # c /\ v5[d].name \in Channels!Directs
             => \E a \in Applications : v5[d].members = Channels!For(v5[d].name, a)
        /\ \A d \in DOMAIN v5 \ {c} :
             v5'[d].name = v5'[c].name => Channels!NotFor(d, e.of)'
        /\ v5[c].name \in Channels!Directs
             => Channels!Inside(e) = Channels!For(v5[c].name, e.of)
    BY <1>1, <1>2, <1>4, <1>11, OpensAlone
  <2>2. Channels!Opening(e)'
    <3> SUFFICES ASSUME NEW b \in DOMAIN v5', Channels!Opens(e, b)'
                 PROVE  /\ \A d \in DOMAIN v5' \ {b} :
                              v5'[d].name = v5'[b].name => Channels!NotFor(d, e.of)'
                        /\ v5'[b].name \in Channels!Directs
                             => Channels!Inside(e)' = Channels!For(v5'[b].name, e.of)
      BY <1>3, <1>5 DEF Channels!Opening, Channels!Directs, Channels!For, Channels!Creator,
         Channels!Invited, Channels!Person, Channels!Company, Channels!Team, Channels!Private
    <3>1. b = c
      BY <1>3, <1>5 DEF Channels!Opens
    <3> QED BY <1>6, <1>7, <1>8, <2>1, <3>1
  <2>3. Channels!Complete'
    <3> SUFFICES ASSUME NEW d \in DOMAIN v5', v5'[d].name \in Channels!Directs
                 PROVE  \/ \E a \in Applications :
                                v5'[d].members = Channels!For(v5'[d].name, a)
                        \/ Channels!Opens(e, d)'
      <4>1. e \in Channels!Events'
        BY <1>1 DEF Channels!Events
      <4> QED BY <4>1 DEF Channels!Complete, Channels!Directs, Channels!For, Channels!Creator,
              Channels!Invited, Channels!Person, Channels!Company, Channels!Team,
              Channels!Private
    <3>1. CASE d = c
      BY <1>3, <1>5, <3>1 DEF Channels!Opens
    <3>2. CASE d # c
      <4>1. d \in DOMAIN v5 /\ v5'[d] = v5[d]
        BY <1>1, <1>2, <1>6, <3>2, Enter
      <4> QED BY <2>1, <3>2, <4>1
    <3> QED BY <3>1, <3>2
  <2> QED BY <2>1, <2>2, <2>3
<1>12. v6 \in Nat /\ v6' \in Nat /\ (v6' = 0 => v6 = 0)
  BY <1>1 DEF Channels!TypeOK
<1> QED BY <1>1, <1>2, <1>3, <1>6, <1>9, <1>10, <1>11, <1>12, HandlerSteps

LEMMA ChannelsMembers ==
    ASSUME Channels!ChannelsInv, NEW e \in Channels!Events, Channels!Members(e)
    PROVE  Channels!ChannelsInv'
<1> USE DEF Channels!ChannelsInv
<1> DEFINE c == v4[e].channel
           S == v4[e].todo
           h == v4[e].then
<1>1. /\ v4[e].at = "members" /\ v5' = [v5 EXCEPT ![c].members = @ \cup S]
      /\ UNCHANGED <<v1, v2, v3, v6, v8, v9>> /\ Channels!Goes(e, h)
  BY DEF Channels!Members, Channels!Desk
<1>2. /\ e \in Channels!Handling /\ c \in DOMAIN v5 /\ S \in SUBSET Channels!People
      /\ h \in Channels!Afterwards(e.kind)
      /\ e.kind = "supervisorAccepted" /\ h = Channels!Done => v5[c].name = Channels!Private
      /\ Channels!BothComeIn(e) /\ e.of \in Applications
  BY <1>1, EventsAreTyped DEF Channels!Handling, Channels!HandlersFit, Channels!Fits
<1>3. Channels!Inside(e) = v5[c].members \cup S /\ Channels!Opens(e, c)
  BY <1>1 DEF Channels!Inside, Channels!Opens
<1>4. e.kind = "supervisorAccepted" /\ h = Channels!Done
        => Channels!Both(e.of) \subseteq v5[c].members \cup S
  BY <1>1, <1>2, <1>3 DEF Channels!BothComeIn
<1> HIDE DEF h, c, S
<1>5. v4'[e] = h
  BY <1>1, HandlerGoes
<1>6. /\ v5' \in Seq(Channels!Channel) /\ Len(v5') <= MaxChannels
      /\ DOMAIN v5' = DOMAIN v5
      /\ \A d \in DOMAIN v5 : v5'[d].name = v5[d].name /\ v5[d].members \subseteq v5'[d].members
      /\ v5'[c].members = v5[c].members \cup S
  BY <1>1, <1>2, Enter
<1>7. /\ h.at \notin {"none", "insert", "join", "owner", "members", "close"}
      /\ Channels!Fits(e)' /\ Channels!BothComeIn(e)'
  BY <1>2, <1>5, AfterwardsFits
<1>8. ASSUME ~v8 PROVE Channels!Opening(e)' /\ Channels!Complete' /\ Channels!OneChannelEach'
  <2>1. /\ Channels!OneChannelEach'
        /\ \A d \in DOMAIN v5 : d # c /\ v5[d].name \in Channels!Directs
             => \E a \in Applications : v5[d].members = Channels!For(v5[d].name, a)
        /\ v5[c].name \in Channels!Directs
             => Channels!Inside(e) = Channels!For(v5[c].name, e.of)
    BY <1>1, <1>2, <1>3, <1>8, OpensAlone
  <2>2. Channels!Opening(e)'
    BY <1>5, <1>7 DEF Channels!Opening, Channels!Opens
  <2>3. Channels!Complete'
    <3> SUFFICES ASSUME NEW d \in DOMAIN v5', v5'[d].name \in Channels!Directs
                 PROVE  \E a \in Applications :
                            v5'[d].members = Channels!For(v5'[d].name, a)
      BY DEF Channels!Complete, Channels!Directs, Channels!For, Channels!Creator,
         Channels!Invited, Channels!Person, Channels!Company, Channels!Team, Channels!Private
    <3>1. CASE d = c
      <4>1. v5'[c].name = v5[c].name /\ v5[c].name \in Channels!Directs
        BY <1>2, <1>6, <3>1
      <4>2. v5'[c].members = Channels!For(v5'[c].name, e.of)
        BY <1>3, <1>6, <2>1, <4>1
      <4> QED BY <1>2, <3>1, <4>2
    <3>2. CASE d # c
      <4>1. d \in DOMAIN v5 /\ v5'[d] = v5[d]
        BY <1>1, <1>2, <1>6, <3>2, Enter
      <4> QED BY <2>1, <3>2, <4>1
    <3> QED BY <3>1, <3>2
  <2> QED BY <2>1, <2>2, <2>3
<1>9. v6 \in Nat /\ v6' \in Nat /\ (v6' = 0 => v6 = 0)
  BY <1>1 DEF Channels!TypeOK
<1>10. e.kind = "supervisorAccepted" /\ h = Channels!Done
         => v5'[c].name = Channels!Private /\ Channels!Both(e.of) \subseteq v5'[c].members
  BY <1>2, <1>4, <1>6
<1>11. c \in DOMAIN v5'
  BY <1>2, <1>6
<1> QED BY <1>1, <1>2, <1>6, <1>7, <1>8, <1>9, <1>10, <1>11, HandlerSteps

(***************************************************************************)
(* What happens elsewhere, and the events that are taken or left           *)
(***************************************************************************)
\* Channels are as they were, and an event that is not handled stays so.
LEMMA ChannelsQuiet ==
    ASSUME Channels!ChannelsInv, UNCHANGED <<v1, v5>>, DOMAIN v4' = Channels!Events,
           \A f \in Channels!Events :
              v4'[f] = v4[f] \/ v4'[f] = Channels!Queued \/ v4'[f] = Channels!Done
                \/ (v4'[f] = [at |-> "company"] /\ f.kind = "supervisorAccepted")
                \/ (/\ v4'[f] \in Channels!Looks({"look"})
                    /\ v4'[f].name \in Channels!Names(f.kind)),
           v8' \in BOOLEAN, v8 => v8',
           ~v8' => /\ \A e, f \in Channels!Handling' : e = f
                   /\ \A f \in Channels!Handling : v4'[f] = v4[f]
    PROVE  /\ Channels!HandlersFit' /\ Channels!InTurn' /\ Channels!OneChannelEach'
           /\ \A e \in Channels!Events' : Channels!BothComeIn(e)'
<1> USE DEF Channels!ChannelsInv
<1>1. Channels!Events' = Channels!Events
  BY DEF Channels!Events
<1>2. ASSUME NEW f \in Channels!Events
      PROVE  /\ Channels!Fits(f)' /\ Channels!BothComeIn(f)'
             /\ v4'[f] = v4[f] \/ v4'[f].at \in {"queued", "done", "company", "look"}
  <2>1. CASE v4'[f] = v4[f]
    BY <2>1, OthersStillFit
  <2>2. CASE v4'[f] = Channels!Queued \/ v4'[f] = Channels!Done
    <3>1. v4'[f].at \in {"queued", "done"}
      BY <2>2 DEF Channels!Queued, Channels!Done
    <3> QED BY <2>2, <3>1 DEF Channels!Fits, Channels!BothComeIn, Channels!Queued, Channels!Done
  <2>3. CASE v4'[f] = [at |-> "company"] /\ f.kind = "supervisorAccepted"
    <3>1. v4'[f].at = "company"
      BY <2>3
    <3> QED BY <2>3, <3>1 DEF Channels!Fits, Channels!BothComeIn
  <2>4. CASE v4'[f] \in Channels!Looks({"look"}) /\ v4'[f].name \in Channels!Names(f.kind)
    <3>1. v4'[f].at = "look" /\ v4'[f] \in Channels!Looks({"look", "insert"})
      BY <2>4 DEF Channels!Looks
    <3> QED BY <2>4, <3>1 DEF Channels!Fits, Channels!BothComeIn
  <2> QED BY <2>1, <2>2, <2>3, <2>4
<1>3. Channels!HandlersFit'
  BY <1>1, <1>2 DEF Channels!HandlersFit
<1>4. Channels!InTurn'
  <2> SUFFICES ASSUME ~v8'
               PROVE  /\ Channels!Alone' /\ Channels!Complete'
                      /\ \A e \in Channels!Events : Channels!Opening(e)'
    BY <1>1 DEF Channels!InTurn
  <2>1. /\ Channels!Complete /\ \A e \in Channels!Events : Channels!Opening(e)
    BY DEF Channels!InTurn
  <2>2. \A f \in Channels!Events :
          v4[f].at \in {"insert", "owner", "members"}
            \/ v4'[f].at \in {"insert", "owner", "members"} => v4'[f] = v4[f]
    BY <1>2 DEF Channels!Handling
  <2>3. ASSUME NEW e \in Channels!Events PROVE Channels!Opening(e)'
    <3>1. Channels!Opening(e)
      BY <2>1
    <3>2. CASE v4'[e] = v4[e]
      <4>1. \A d \in DOMAIN v5 : Channels!NotFor(d, e.of) => Channels!NotFor(d, e.of)'
        BY DEF Channels!NotFor, Channels!For, Channels!Creator, Channels!Invited,
           Channels!Person, Channels!Company, Channels!Directs, Channels!Team, Channels!Private
      <4>2. Channels!Inside(e)' = Channels!Inside(e)
        BY <3>2 DEF Channels!Inside
      <4>3. \A c \in DOMAIN v5 : Channels!Opens(e, c)' => Channels!Opens(e, c)
        BY <3>2 DEF Channels!Opens
      <4>4. /\ v4'[e].at = "insert" => \A c \in DOMAIN v5 :
                  v5[c].name = v4'[e].name => Channels!NotFor(c, e.of)'
            /\ \A c \in DOMAIN v5 : Channels!Opens(e, c)'
                => /\ \A d \in DOMAIN v5 \ {c} :
                        v5[d].name = v5[c].name => Channels!NotFor(d, e.of)'
                   /\ v5[c].name \in Channels!Directs
                        => Channels!Inside(e)' = Channels!For(v5[c].name, e.of)
        BY <3>1, <3>2, <4>1, <4>2, <4>3 DEF Channels!Opening
      <4> QED BY <4>4 DEF Channels!Opening, Channels!Directs, Channels!For, Channels!Creator,
              Channels!Invited, Channels!Person, Channels!Company, Channels!Team,
              Channels!Private
    <3>3. CASE v4'[e] # v4[e]
      BY <2>2, <3>3 DEF Channels!Opening, Channels!Opens
    <3> QED BY <3>2, <3>3
  <2>4. Channels!Complete'
    <3>1. \A e \in Channels!Events : \A c \in DOMAIN v5 :
            Channels!Opens(e, c)' <=> Channels!Opens(e, c)
      BY <2>2 DEF Channels!Opens
    <3> QED BY <1>1, <2>1, <3>1 DEF Channels!Complete, Channels!For, Channels!Creator,
            Channels!Invited, Channels!Person, Channels!Company, Channels!Directs,
            Channels!Team, Channels!Private
  <2> QED BY <2>3, <2>4 DEF Channels!Alone
<1>5. Channels!OneChannelEach'
  BY DEF Channels!OneChannelEach, Channels!Directs, Channels!Company
<1> QED BY <1>1, <1>2, <1>3, <1>4, <1>5

LEMMA ChannelsPublish ==
    ASSUME Channels!ChannelsInv, NEW e \in Channels!Events, Channels!Publish(e)
    PROVE  Channels!ChannelsInv'
<1> USE DEF Channels!ChannelsInv
<1>1. /\ e \notin v3 /\ v3' = v3 \cup {e} /\ v4' = [v4 EXCEPT ![e] = Channels!Queued]
      /\ v9' = IF e.kind = "supervisorAccepted" /\ v2[e.of] = "accepted"
               THEN v9 \cup {e.of} ELSE v9
      /\ UNCHANGED <<v1, v5, v6, v7, v8>>
      /\ \/ e.kind \in {"applicationAccepted", "supervisorAccepted"} /\ v2' = v2
         \/ /\ e.kind \notin {"applicationAccepted", "supervisorAccepted"}
            /\ v2' = [v2 EXCEPT ![e.of] = "accepted"] /\ v2[e.of] = "none"
         \/ /\ e.kind \notin {"applicationAccepted", "supervisorAccepted"}
            /\ v2' = [v2 EXCEPT ![e.of] = "disconnected"] /\ v2[e.of] = "accepted"
  BY DEF Channels!Publish, Channels!Changes, Channels!Happens
<1>2. /\ v4[e] = Channels!Nowhere /\ e.of \in Applications
      /\ Channels!Events' = Channels!Events /\ DOMAIN v4' = Channels!Events
      /\ v4'[e] = Channels!Queued /\ \A f \in Channels!Events : f # e => v4'[f] = v4[f]
  BY <1>1, EventsAreTyped DEF Channels!TypeOK, Channels!Events
<1>3. Channels!Queued # Channels!Nowhere /\ Channels!Queued # Channels!Done
      /\ Channels!Queued.at = "queued" /\ Channels!Nowhere.at = "none"
  BY DEF Channels!Queued, Channels!Nowhere, Channels!Done
<1>4. /\ Channels!HandlersFit' /\ Channels!InTurn' /\ Channels!OneChannelEach'
      /\ \A f \in Channels!Events' : Channels!BothComeIn(f)'
  <2>1. Channels!Handling' = Channels!Handling /\ e \notin Channels!Handling
    BY <1>2, <1>3 DEF Channels!Handling
  <2>2. ~v8 => \A f, g \in Channels!Handling : f = g
    BY DEF Channels!InTurn, Channels!Alone
  <2>3. \A f \in Channels!Handling : v4'[f] = v4[f]
    BY <1>2, <2>1 DEF Channels!Handling
  <2>4. v8 \in BOOLEAN
    BY DEF Channels!TypeOK
  <2> QED BY <1>1, <1>2, <2>1, <2>2, <2>3, <2>4, ChannelsQuiet
<1>5. Channels!TypeOK'
  <2>1. v2' \in [Applications -> {"none", "accepted", "disconnected"}]
    BY <1>1 DEF Channels!TypeOK
  <2>2. v9' \subseteq {a \in Applications : v2'[a] # "none"}
    BY <1>1, <1>2 DEF Channels!TypeOK
  <2>3. \A f \in Channels!Events : v4'[f] = Channels!Nowhere <=> f \notin v3'
    BY <1>1, <1>2, <1>3 DEF Channels!TypeOK
  <2>4. /\ v3' \subseteq Channels!Events /\ v5' \in Seq(Channels!Channel)
        /\ Len(v5') <= MaxChannels /\ v6' \in Nat /\ v8' \in BOOLEAN
    BY <1>1 DEF Channels!TypeOK
  <2> QED BY <1>2, <2>1, <2>2, <2>3, <2>4 DEF Channels!TypeOK, Channels!Nowhere
<1>6. Channels!JuradoMeetsAsesor'
  <2> SUFFICES ASSUME v6 = 0, NEW f \in v3', f.kind = "supervisorAccepted",
                      v4'[f] = Channels!Done, f.of \in v9', v2'[f.of] = "accepted"
               PROVE  \E c \in DOMAIN v5 : v5[c].name = Channels!Private
                                           /\ Channels!Both(f.of) \subseteq v5[c].members
    BY <1>1 DEF Channels!JuradoMeetsAsesor, Channels!Done, Channels!Both, Channels!Person,
       Channels!Private
  <2>1. f # e /\ f \in v3 /\ v4[f] = Channels!Done
    BY <1>1, <1>2, <1>3 DEF Channels!TypeOK
  <2>2. e.kind = "supervisorAccepted" => f.of # e.of
    <3>1. Channels!Events \subseteq [kind : Channels!Kinds, of : Applications]
      BY ServicesAssumption
      DEF Channels!HandlersFit, Channels!Events, Channels!ChannelsAssumption
    <3>2. f \in Channels!Events
      BY <2>1 DEF Channels!TypeOK
    <3> QED BY <2>1, <3>1, <3>2
  <2>3. f.of \in v9 /\ v2[f.of] \in {"none", "accepted", "disconnected"} /\ v2[f.of] # "none"
    BY <1>1, <2>2 DEF Channels!TypeOK
  <2>4. v2[f.of] = "accepted"
    BY <1>1, <1>2, <2>3 DEF Channels!TypeOK
  <2> QED BY <2>1, <2>3, <2>4 DEF Channels!JuradoMeetsAsesor
<1> QED BY <1>4, <1>5, <1>6

LEMMA ChannelsTake ==
    ASSUME Channels!ChannelsInv, NEW e \in Channels!Events, Channels!Take(e)
    PROVE  Channels!ChannelsInv'
<1> USE DEF Channels!ChannelsInv
<1> DEFINE looks == [at |-> "look", name |-> "company-student", company |-> TRUE]
           private == [at |-> "look", name |-> Channels!Private]
<1>1. /\ v4[e] = Channels!Queued
      /\ v8' = (v8 \/ (Channels!Handling # {} /\ e.kind # "juradoAutoDisconnected"))
      /\ UNCHANGED <<v1, v2, v3, v5, v6, v7, v9>>
  BY DEF Channels!Take, Channels!Desk
<1>2. e.kind \in Channels!Kinds
  BY EventsAreTyped
<1>3. PICK h : /\ Channels!Goes(e, h)
               /\ \/ e.kind = "supervisorAccepted" /\ h = [at |-> "company"]
                  \/ e.kind = "applicationAccepted" /\ h = looks
                  \/ e.kind \in {"juradoAssigned", "juradoDisconnected"} /\ h = private
                  \/ e.kind = "juradoAutoDisconnected" /\ h = Channels!Done
  BY <1>2 DEF Channels!Take, Channels!Kinds
<1>4. /\ Channels!Events' = Channels!Events /\ DOMAIN v4' = Channels!Events
      /\ v4'[e] = h /\ \A f \in Channels!Events : f # e => v4'[f] = v4[f]
  BY <1>1, <1>3, HandlerGoes
<1>5. /\ looks \in Channels!Looks({"look"}) /\ looks.name = "company-student"
      /\ private \in Channels!Looks({"look"}) /\ private.name = Channels!Private
      /\ looks.at = "look" /\ private.at = "look"
  BY DEF Channels!Looks, Channels!Directs
<1> HIDE DEF looks, private
<1>6. /\ \/ h = Channels!Done
         \/ h = [at |-> "company"] /\ e.kind = "supervisorAccepted"
         \/ h \in Channels!Looks({"look"}) /\ h.name \in Channels!Names(e.kind)
      /\ h.at \in {"done", "company", "look"}
      /\ h.at = "done" => e.kind = "juradoAutoDisconnected"
  <2>1. CASE e.kind = "supervisorAccepted"
    BY <1>3, <2>1
  <2>2. CASE e.kind = "applicationAccepted"
    BY <1>3, <1>5, <2>2 DEF Channels!Names
  <2>3. CASE e.kind \in {"juradoAssigned", "juradoDisconnected"}
    BY <1>3, <1>5, <2>3 DEF Channels!Names
  <2>4. CASE e.kind = "juradoAutoDisconnected"
    BY <1>3, <2>4 DEF Channels!Done
  <2> QED BY <1>2, <2>1, <2>2, <2>3, <2>4 DEF Channels!Kinds
<1>7. v4[e].at = "queued" /\ v4[e] # Channels!Nowhere /\ h # Channels!Nowhere
  BY <1>1, <1>6 DEF Channels!Queued, Channels!Nowhere
<1>8. e \notin Channels!Handling /\ \A f \in Channels!Handling : v4'[f] = v4[f]
  BY <1>4, <1>7 DEF Channels!Handling
<1>9. ASSUME ~v8' PROVE \A f, g \in Channels!Handling' : f = g
  <2>1. \A f, g \in Channels!Handling : f = g
    BY <1>1, <1>9 DEF Channels!InTurn, Channels!Alone
  <2>2. Channels!Handling = {} \/ e.kind = "juradoAutoDisconnected"
    BY <1>1, <1>9
  <2>3. e.kind = "juradoAutoDisconnected" => h.at = "done"
    BY <1>3 DEF Channels!Done
  <2> QED BY <1>4, <2>1, <2>2, <2>3 DEF Channels!Handling
<1>10. v8' \in BOOLEAN /\ (v8 => v8')
  BY <1>1 DEF Channels!TypeOK
<1>11. /\ Channels!HandlersFit' /\ Channels!InTurn' /\ Channels!OneChannelEach'
       /\ \A f \in Channels!Events' : Channels!BothComeIn(f)'
  BY <1>1, <1>4, <1>6, <1>8, <1>9, <1>10, ChannelsQuiet
<1>12. Channels!TypeOK'
  <2>1. \A f \in Channels!Events : v4'[f] = Channels!Nowhere <=> f \notin v3
    BY <1>4, <1>7 DEF Channels!TypeOK
  <2> QED BY <1>1, <1>4, <1>10, <2>1 DEF Channels!TypeOK, Channels!Nowhere
<1>13. Channels!JuradoMeetsAsesor'
  <2> SUFFICES ASSUME v6 = 0, NEW f \in v3, f.kind = "supervisorAccepted",
                      v4'[f] = Channels!Done, f.of \in v9, v2[f.of] = "accepted"
               PROVE  \E c \in DOMAIN v5 : v5[c].name = Channels!Private
                                           /\ Channels!Both(f.of) \subseteq v5[c].members
    BY <1>1 DEF Channels!JuradoMeetsAsesor, Channels!Done, Channels!Both, Channels!Person,
       Channels!Private
  <2>1. f # e
    BY <1>4, <1>6 DEF Channels!Done
  <2>2. v4[f] = Channels!Done
    BY <1>4, <2>1 DEF Channels!TypeOK
  <2> QED BY <2>2 DEF Channels!JuradoMeetsAsesor
<1> QED BY <1>11, <1>12, <1>13

LEMMA ChannelsRestart ==
    ASSUME Channels!ChannelsInv, Channels!Restart
    PROVE  Channels!ChannelsInv'
<1> USE DEF Channels!ChannelsInv
<1>1. /\ v4' = [e \in Channels!Events |->
                    IF e \in Channels!Handling THEN Channels!Queued ELSE v4[e]]
      /\ v8' = (v8 \/ Channels!Handling # {})
      /\ UNCHANGED <<v1, v2, v3, v5, v6, v9>>
  BY DEF Channels!Restart, Channels!Desk
<1>2. Channels!Queued # Channels!Nowhere /\ Channels!Queued # Channels!Done
      /\ Channels!Queued.at = "queued" /\ Channels!Nowhere.at = "none"
  BY DEF Channels!Queued, Channels!Nowhere, Channels!Done
<1>3. /\ DOMAIN v4' = Channels!Events /\ Channels!Events' = Channels!Events
      /\ \A f \in Channels!Events : v4'[f] = v4[f] \/ v4'[f] = Channels!Queued
      /\ \A f \in Channels!Events : f \notin Channels!Handling => v4'[f] = v4[f]
  BY <1>1 DEF Channels!Events
<1>4. Channels!Handling' = {}
  <2>1. ASSUME NEW f \in Channels!Events PROVE v4'[f].at \in {"none", "queued", "done"}
    <3>1. CASE f \in Channels!Handling
      BY <1>1, <1>2, <3>1
    <3>2. CASE f \notin Channels!Handling
      BY <1>1, <3>2 DEF Channels!Handling
    <3> QED BY <3>1, <3>2
  <2> QED BY <1>3, <2>1 DEF Channels!Handling
<1>5. v8' \in BOOLEAN /\ (v8 => v8') /\ (~v8' => Channels!Handling = {})
  BY <1>1 DEF Channels!TypeOK
<1>6. /\ Channels!HandlersFit' /\ Channels!InTurn' /\ Channels!OneChannelEach'
      /\ \A f \in Channels!Events' : Channels!BothComeIn(f)'
  BY <1>1, <1>3, <1>4, <1>5, ChannelsQuiet
<1>7. Channels!TypeOK'
  <2>1. \A f \in Channels!Events : v4'[f] = Channels!Nowhere <=> f \notin v3
    <3> SUFFICES ASSUME NEW f \in Channels!Events
                 PROVE  v4'[f] = Channels!Nowhere <=> f \notin v3
      OBVIOUS
    <3>1. v4[f] = Channels!Nowhere <=> f \notin v3
      BY DEF Channels!TypeOK
    <3>2. CASE f \in Channels!Handling
      <4>1. v4'[f] # Channels!Nowhere
        BY <1>1, <1>2, <3>2
      <4>2. v4[f] # Channels!Nowhere
        BY <1>2, <3>2 DEF Channels!Handling
      <4> QED BY <3>1, <4>1, <4>2
    <3>3. CASE f \notin Channels!Handling
      BY <1>3, <3>1, <3>3
    <3> QED BY <3>2, <3>3
  <2> QED BY <1>1, <1>3, <1>5, <2>1 DEF Channels!TypeOK, Channels!Nowhere
<1>8. Channels!JuradoMeetsAsesor'
  <2> SUFFICES ASSUME v6 = 0, NEW f \in v3, f.kind = "supervisorAccepted",
                      v4'[f] = Channels!Done, f.of \in v9, v2[f.of] = "accepted"
               PROVE  \E c \in DOMAIN v5 : v5[c].name = Channels!Private
                                           /\ Channels!Both(f.of) \subseteq v5[c].members
    BY <1>1 DEF Channels!JuradoMeetsAsesor, Channels!Done, Channels!Both, Channels!Person,
       Channels!Private
  <2>1. v4[f] = Channels!Done
    BY <1>2, <1>3 DEF Channels!TypeOK
  <2> QED BY <2>1 DEF Channels!JuradoMeetsAsesor
<1> QED BY <1>6, <1>7, <1>8

LEMMA ChannelsStep == Channels!ChannelsInv /\ Channels!Next => Channels!ChannelsInv'
BY ChannelsPublish, ChannelsTake, ChannelsCompany, ChannelsAssignments, ChannelsLook,
   ChannelsJoin, ChannelsInsert, ChannelsOwner, ChannelsMembers, ChannelsClose, ChannelsRestart
DEF Channels!Next

LEMMA ChannelsStutter ==
    ASSUME Channels!ChannelsInv, UNCHANGED all
    PROVE  Channels!ChannelsInv'
<1> USE DEF Channels!ChannelsInv
<1>1. UNCHANGED <<v1, v2, v3, v4, v5, v6, v7, v8, v9>>
  BY DEF all
<1>2. Channels!TypeOK'
  BY <1>1 DEF Channels!TypeOK, Channels!Events, Channels!Nowhere
<1>3. /\ Channels!HandlersFit' /\ Channels!InTurn' /\ Channels!OneChannelEach'
      /\ \A f \in Channels!Events' : Channels!BothComeIn(f)'
  <2>1. DOMAIN v4' = Channels!Events /\ v8' \in BOOLEAN /\ Channels!Handling' = Channels!Handling
    BY <1>1 DEF Channels!TypeOK, Channels!Handling, Channels!Events
  <2>2. ~v8' => \A f, g \in Channels!Handling' : f = g
    BY <1>1, <2>1 DEF Channels!InTurn, Channels!Alone
  <2> QED BY <1>1, <2>1, <2>2, ChannelsQuiet
<1>4. Channels!JuradoMeetsAsesor'
  BY <1>1 DEF Channels!JuradoMeetsAsesor, Channels!Done, Channels!Both, Channels!Person,
     Channels!Private
<1> QED BY <1>2, <1>3, <1>4

(***************************************************************************)
(* Notifications: v1 asks, v2 delivery, v3 notes, v4 prefs, v5 online,      *)
(* v6 badge, v7 call, v8 requests, v9 restarts, v10 faults, v11 told,       *)
(* v12 hit, v13 adjusted, v14 blurred                                       *)
(***************************************************************************)
\* What the proofs use of the subscriptions.
LEMMA HandlersRead ==
    ASSUME NEW h \in Notify!Handlers
    PROVE  /\ h.together => h.event \in Notify!OneTry
           /\ h.event \in Notify!Mandated => h.forced
           /\ h.event = "project.submitted_for_review" => h.to = <<"admins">>
<1> USE DEF Notify!H, Notify!Mandatory, Notify!Optional, Notify!One, Notify!InOneTry, Notify!OneTry,
        Notify!Mandated
<1>1. CASE h \in Notify!AccountHandlers
  BY <1>1 DEF Notify!AccountHandlers
<1>2. CASE h \in Notify!ProjectHandlers
  BY <1>2 DEF Notify!ProjectHandlers
<1>3. CASE h \in Notify!DeskHandlers
  BY <1>3 DEF Notify!DeskHandlers
<1>4. CASE h \in Notify!ApplicationHandlers
  BY <1>4 DEF Notify!ApplicationHandlers
<1>5. CASE h \in Notify!EvaluationHandlers \cup Notify!MatchHandlers \cup Notify!MessageHandlers
  BY <1>5 DEF Notify!EvaluationHandlers, Notify!MatchHandlers, Notify!MessageHandlers
<1>6. CASE h \in Notify!DeliverableHandlers
  BY <1>6 DEF Notify!DeliverableHandlers
<1>7. CASE h \in Notify!AnteproyectoHandlers
  BY <1>7 DEF Notify!AnteproyectoHandlers
<1>8. CASE h \in Notify!ProcessHandlers
  BY <1>8 DEF Notify!ProcessHandlers, Notify!Parties
<1> QED BY <1>1, <1>2, <1>3, <1>4, <1>5, <1>6, <1>7, <1>8 DEF Notify!Handlers

\* Every event that is published has a subscription.
LEMMA EventsAreRead ==
    ASSUME NEW p \in Notify!Publications
    PROVE  Notify!HandlerOf(p.event) \in Notify!Handlers /\ Notify!HandlerOf(p.event).event = p.event
<1>1. \E h \in Notify!Handlers : h.event = p.event
  <2> USE DEF Notify!H, Notify!Mandatory, Notify!Optional, Notify!One, Notify!InOneTry
  <2>1. CASE p \in Notify!AccountEvents
    <3>1. p.event \in {"auth.email_verification.requested", "auth.password_reset.requested"}
      BY <2>1 DEF Notify!AccountEvents, Notify!P
    <3>2. \E h \in Notify!AccountHandlers : h.event = "auth.email_verification.requested"
      BY DEF Notify!AccountHandlers
    <3>3. \E h \in Notify!AccountHandlers : h.event = "auth.password_reset.requested"
      BY DEF Notify!AccountHandlers
    <3> QED BY <3>1, <3>2, <3>3 DEF Notify!Handlers
  <2>2. CASE p \in Notify!ProjectEvents
    <3>1. p.event \in {"project.submitted_for_review", "project.faculty_approved",
                       "project.needs_changes", "project.faculty_rejected"}
      BY <2>2 DEF Notify!ProjectEvents, Notify!P
    <3>2. \E h \in Notify!ProjectHandlers : h.event = "project.submitted_for_review"
      BY DEF Notify!ProjectHandlers
    <3>3. \E h \in Notify!ProjectHandlers : h.event = "project.faculty_approved"
      BY DEF Notify!ProjectHandlers
    <3>4. \E h \in Notify!ProjectHandlers : h.event = "project.needs_changes"
      BY DEF Notify!ProjectHandlers
    <3>5. \E h \in Notify!ProjectHandlers : h.event = "project.faculty_rejected"
      BY DEF Notify!ProjectHandlers
    <3> QED BY <3>1, <3>2, <3>3, <3>4, <3>5 DEF Notify!Handlers
  <2>3. CASE p \in UNION {Notify!AssignedEvents, Notify!AcceptedEvents,
                          Notify!DeclinedEvents, Notify!ReplacedEvents}
    <3>1. p.event \in {"admin.supervisor.assigned", "admin.supervisor.accepted",
                       "admin.supervisor.declined", "admin.supervisor.replaced"}
      BY <2>3 DEF Notify!AssignedEvents, Notify!AcceptedEvents, Notify!DeclinedEvents,
         Notify!ReplacedEvents, Notify!P
    <3>2. \E h \in Notify!DeskHandlers : h.event = "admin.supervisor.assigned"
      BY DEF Notify!DeskHandlers
    <3>3. \E h \in Notify!DeskHandlers : h.event = "admin.supervisor.accepted"
      BY DEF Notify!DeskHandlers
    <3>4. \E h \in Notify!DeskHandlers : h.event = "admin.supervisor.declined"
      BY DEF Notify!DeskHandlers
    <3>5. \E h \in Notify!DeskHandlers : h.event = "admin.supervisor.replaced"
      BY DEF Notify!DeskHandlers
    <3> QED BY <3>1, <3>2, <3>3, <3>4, <3>5 DEF Notify!Handlers
  <2>4. CASE p \in UNION {Notify!CreatedEvents, Notify!UpdateStatusEvents,
                          Notify!WithdrawEvents}
    <3>1. p.event \in {"application.created", "application.status.changed"}
      BY <2>4 DEF Notify!CreatedEvents, Notify!UpdateStatusEvents,
         Notify!WithdrawEvents, Notify!P
    <3>2. \E h \in Notify!ApplicationHandlers : h.event = "application.created"
      BY DEF Notify!ApplicationHandlers
    <3>3. \E h \in Notify!ApplicationHandlers : h.event = "application.status.changed"
      BY DEF Notify!ApplicationHandlers
    <3> QED BY <3>1, <3>2, <3>3 DEF Notify!Handlers
  <2>5. CASE p \in UNION {Notify!EvaluationEvents, Notify!CompletedEvents}
    <3>1. p.event \in {"evaluation.created", "evaluation.completed"}
      BY <2>5 DEF Notify!EvaluationEvents, Notify!CompletedEvents, Notify!P
    <3>2. \E h \in Notify!EvaluationHandlers : h.event = "evaluation.created"
      BY DEF Notify!EvaluationHandlers
    <3>3. \E h \in Notify!EvaluationHandlers : h.event = "evaluation.completed"
      BY DEF Notify!EvaluationHandlers
    <3> QED BY <3>1, <3>2, <3>3 DEF Notify!Handlers
  <2>6. CASE p \in Notify!ScoreEvents
    <3>1. p.event \in {"matching.score.calculated"}
      BY <2>6 DEF Notify!ScoreEvents, Notify!P
    <3>2. \E h \in Notify!MatchHandlers : h.event = "matching.score.calculated"
      BY DEF Notify!MatchHandlers
    <3> QED BY <3>1, <3>2 DEF Notify!Handlers
  <2>7. CASE p \in Notify!MessageEvents
    <3>1. p.event \in {"chat.message.sent"}
      BY <2>7 DEF Notify!MessageEvents, Notify!P
    <3>2. \E h \in Notify!MessageHandlers : h.event = "chat.message.sent"
      BY DEF Notify!MessageHandlers
    <3> QED BY <3>1, <3>2 DEF Notify!Handlers
  <2>8. CASE p \in UNION {Notify!DeliverableAssignedEvents,
                          Notify!DeliverableSubmittedEvents, Notify!DeliverableReviewedEvents}
    <3>1. p.event \in {"deliverable.assigned", "deliverable.submitted",
                       "deliverable.reviewed"}
      BY <2>8 DEF Notify!DeliverableAssignedEvents, Notify!DeliverableSubmittedEvents,
         Notify!DeliverableReviewedEvents, Notify!P
    <3>2. \E h \in Notify!DeliverableHandlers : h.event = "deliverable.assigned"
      BY DEF Notify!DeliverableHandlers
    <3>3. \E h \in Notify!DeliverableHandlers : h.event = "deliverable.submitted"
      BY DEF Notify!DeliverableHandlers
    <3>4. \E h \in Notify!DeliverableHandlers : h.event = "deliverable.reviewed"
      BY DEF Notify!DeliverableHandlers
    <3> QED BY <3>1, <3>2, <3>3, <3>4 DEF Notify!Handlers
  <2>9. CASE p \in UNION {Notify!SubmissionEvents, Notify!CorrectionEvents,
                          Notify!DecisionEvents, Notify!DeadlineEvents}
    <3>1. p.event \in {"academic.anteproyecto.submitted", "academic.anteproyecto.revised",
                       "academic.anteproyecto.correction_requested",
                       "academic.anteproyecto.rejected", "academic.anteproyecto.approved",
                       "academic.anteproyecto.deadline_extended"}
      BY <2>9 DEF Notify!SubmissionEvents, Notify!CorrectionEvents,
         Notify!DecisionEvents, Notify!DeadlineEvents, Notify!P
    <3>2. \E h \in Notify!AnteproyectoHandlers : h.event = "academic.anteproyecto.submitted"
      BY DEF Notify!AnteproyectoHandlers
    <3>3. \E h \in Notify!AnteproyectoHandlers : h.event = "academic.anteproyecto.revised"
      BY DEF Notify!AnteproyectoHandlers
    <3>4. \E h \in Notify!AnteproyectoHandlers : h.event = "academic.anteproyecto.correction_requested"
      BY DEF Notify!AnteproyectoHandlers
    <3>5. \E h \in Notify!AnteproyectoHandlers : h.event = "academic.anteproyecto.rejected"
      BY DEF Notify!AnteproyectoHandlers
    <3>6. \E h \in Notify!AnteproyectoHandlers : h.event = "academic.anteproyecto.approved"
      BY DEF Notify!AnteproyectoHandlers
    <3>7. \E h \in Notify!AnteproyectoHandlers : h.event = "academic.anteproyecto.deadline_extended"
      BY DEF Notify!AnteproyectoHandlers
    <3> QED BY <3>1, <3>2, <3>3, <3>4, <3>5, <3>6, <3>7 DEF Notify!Handlers
  <2>10. CASE p \in UNION {Notify!AgreementEvents, Notify!ProgressEvents,
                          Notify!FinalizationEvents, Notify!CompletionEvents}
    <3>1. p.event \in {"academic.agreement.uploaded", "academic.progress.near_completion",
                       "academic.finalization.started", "academic.completed"}
      BY <2>10 DEF Notify!AgreementEvents, Notify!ProgressEvents,
         Notify!FinalizationEvents, Notify!CompletionEvents, Notify!P
    <3>2. \E h \in Notify!ProcessHandlers : h.event = "academic.agreement.uploaded"
      BY DEF Notify!ProcessHandlers, Notify!Parties
    <3>3. \E h \in Notify!ProcessHandlers : h.event = "academic.progress.near_completion"
      BY DEF Notify!ProcessHandlers, Notify!Parties
    <3>4. \E h \in Notify!ProcessHandlers : h.event = "academic.finalization.started"
      BY DEF Notify!ProcessHandlers, Notify!Parties
    <3>5. \E h \in Notify!ProcessHandlers : h.event = "academic.completed"
      BY DEF Notify!ProcessHandlers, Notify!Parties
    <3> QED BY <3>1, <3>2, <3>3, <3>4, <3>5 DEF Notify!Handlers
  <2> QED BY <2>1, <2>2, <2>3, <2>4, <2>5, <2>6, <2>7, <2>8, <2>9, <2>10 DEF Notify!Publications
<1> QED BY <1>1 DEF Notify!HandlerOf

LEMMA WhoIsSomebody ==
    \A field : Notify!Who(field) \in Seq(Notify!People) /\ Notify!Who(field) # <<>>
<1> SUFFICES ASSUME NEW field
             PROVE  Notify!Who(field) \in Seq(Notify!People) /\ Notify!Who(field) # <<>>
  OBVIOUS
<1>1. Notify!Who(field) \in {<<"admin", "otherAdmin">>, <<"jurado", "otherJurado">>,
                            <<"peer", "otherPeer">>, <<"student">>, <<"company">>,
                            <<"asesor">>, <<"admin">>, <<"user">>}
  <2> DEFINE w == Notify!Who(field)
  <2>1. CASE field \in {"admins", "juradoUserIds", "recipientIds"}
    BY <2>1 DEF Notify!Who
  <2>2. CASE field \notin {"admins", "juradoUserIds", "recipientIds"}
    BY <2>2 DEF Notify!Who
  <2> QED BY <2>1, <2>2
<1>2. \A u, v \in Notify!People : <<u>> \in Seq(Notify!People) /\ <<u>> # <<>>
                                 /\ <<u, v>> \in Seq(Notify!People) /\ <<u, v>> # <<>>
  OBVIOUS
<1> QED BY <1>1, <1>2 DEF Notify!People

LEMMA RecipientsArePeople ==
    ASSUME NEW h, NEW has PROVE Notify!Recipients(h, has) \in Seq(Notify!People)
<1> DEFINE named(i) == IF i <= Len(h.to) /\ h.to[i] \in has THEN Notify!Who(h.to[i]) ELSE <<>>
<1>1. \A i : named(i) \in Seq(Notify!People)
  BY WhoIsSomebody
<1> HIDE DEF named
<1>2. named(1) \o named(2) \o named(3) \in Seq(Notify!People)
  BY <1>1, ConcatProperties
<1> QED BY <1>2 DEF Notify!Recipients, named

LEMMA FieldIsTold ==
    ASSUME NEW h, NEW has, NEW i \in 1..3, i <= Len(h.to), h.to[i] \in has
    PROVE  Notify!Recipients(h, has) # <<>>
<1> DEFINE named(j) == IF j <= Len(h.to) /\ h.to[j] \in has THEN Notify!Who(h.to[j]) ELSE <<>>
<1>1. \A j : named(j) \in Seq(Notify!People)
  BY WhoIsSomebody
<1>2. named(i) # <<>>
  BY WhoIsSomebody
<1> HIDE DEF named
<1>3. i = 1 \/ i = 2 \/ i = 3
  OBVIOUS
<1>4. \A j : Len(named(j)) \in Nat
  BY <1>1, LenProperties
<1>5. Len(named(i)) # 0
  BY <1>1, <1>2, EmptySeq
<1>6. named(1) \o named(2) \in Seq(Notify!People)
      /\ Len(named(1) \o named(2)) = Len(named(1)) + Len(named(2))
  BY <1>1, ConcatProperties
<1>7. Len(named(1) \o named(2) \o named(3)) = Len(named(1)) + Len(named(2)) + Len(named(3))
  BY <1>1, <1>6, ConcatProperties
<1>8. Len(named(1) \o named(2) \o named(3)) # 0
  BY <1>3, <1>4, <1>5, <1>7
<1>9. Len(<<>>) = 0
  OBVIOUS
<1> QED BY <1>8, <1>9 DEF Notify!Recipients, named

LEMMA ReadersOfField ==
    ASSUME NEW h \in Notify!Handlers
    PROVE  /\ h.event \in {"auth.email_verification.requested",
                             "auth.password_reset.requested"}
                => h \in Notify!AccountHandlers
           /\ h.event \in {"project.submitted_for_review", "project.faculty_approved",
                             "project.needs_changes", "project.faculty_rejected"}
                => h \in Notify!ProjectHandlers
           /\ h.event \in {"admin.supervisor.assigned", "admin.supervisor.accepted",
                             "admin.supervisor.declined", "admin.supervisor.replaced"}
                => h \in Notify!DeskHandlers
           /\ h.event \in {"application.created", "application.status.changed"}
                => h \in Notify!ApplicationHandlers
           /\ h.event \in {"evaluation.created", "evaluation.completed"}
                => h \in Notify!EvaluationHandlers
           /\ h.event \in {"matching.score.calculated"}
                => h \in Notify!MatchHandlers
           /\ h.event \in {"chat.message.sent"}
                => h \in Notify!MessageHandlers
           /\ h.event \in {"deliverable.assigned", "deliverable.submitted",
                             "deliverable.reviewed"}
                => h \in Notify!DeliverableHandlers
           /\ h.event \in {"academic.anteproyecto.submitted",
                             "academic.anteproyecto.revised",
                             "academic.anteproyecto.correction_requested",
                             "academic.anteproyecto.rejected",
                             "academic.anteproyecto.approved",
                             "academic.anteproyecto.deadline_extended"}
                => h \in Notify!AnteproyectoHandlers
           /\ h.event \in {"academic.agreement.uploaded",
                             "academic.progress.near_completion",
                             "academic.finalization.started", "academic.completed"}
                => h \in Notify!ProcessHandlers
<1> USE DEF Notify!H, Notify!Mandatory, Notify!Optional, Notify!One, Notify!InOneTry
<1>1. CASE h \in Notify!AccountHandlers
  <2>1. h.event \in {"auth.email_verification.requested", "auth.password_reset.requested"}
    BY <1>1 DEF Notify!AccountHandlers
  <2> QED BY <1>1, <2>1
<1>2. CASE h \in Notify!ProjectHandlers
  <2>1. h.event \in {"project.submitted_for_review", "project.faculty_approved",
                   "project.needs_changes", "project.faculty_rejected"}
    BY <1>2 DEF Notify!ProjectHandlers
  <2> QED BY <1>2, <2>1
<1>3. CASE h \in Notify!DeskHandlers
  <2>1. h.event \in {"admin.supervisor.assigned", "admin.supervisor.accepted",
                   "admin.supervisor.declined", "admin.supervisor.replaced"}
    BY <1>3 DEF Notify!DeskHandlers
  <2> QED BY <1>3, <2>1
<1>4. CASE h \in Notify!ApplicationHandlers
  <2>1. h.event \in {"application.created", "application.status.changed"}
    BY <1>4 DEF Notify!ApplicationHandlers
  <2> QED BY <1>4, <2>1
<1>5. CASE h \in Notify!EvaluationHandlers
  <2>1. h.event \in {"evaluation.created", "evaluation.completed"}
    BY <1>5 DEF Notify!EvaluationHandlers
  <2> QED BY <1>5, <2>1
<1>6. CASE h \in Notify!MatchHandlers
  <2>1. h.event \in {"matching.score.calculated"}
    BY <1>6 DEF Notify!MatchHandlers
  <2> QED BY <1>6, <2>1
<1>7. CASE h \in Notify!MessageHandlers
  <2>1. h.event \in {"chat.message.sent"}
    BY <1>7 DEF Notify!MessageHandlers
  <2> QED BY <1>7, <2>1
<1>8. CASE h \in Notify!DeliverableHandlers
  <2>1. h.event \in {"deliverable.assigned", "deliverable.submitted", "deliverable.reviewed"}
    BY <1>8 DEF Notify!DeliverableHandlers
  <2> QED BY <1>8, <2>1
<1>9. CASE h \in Notify!AnteproyectoHandlers
  <2>1. h.event \in {"academic.anteproyecto.submitted", "academic.anteproyecto.revised",
                   "academic.anteproyecto.correction_requested",
                   "academic.anteproyecto.rejected", "academic.anteproyecto.approved",
                   "academic.anteproyecto.deadline_extended"}
    BY <1>9 DEF Notify!AnteproyectoHandlers
  <2> QED BY <1>9, <2>1
<1>10. CASE h \in Notify!ProcessHandlers
  <2>1. h.event \in {"academic.agreement.uploaded", "academic.progress.near_completion",
                   "academic.finalization.started", "academic.completed"}
    BY <1>10 DEF Notify!ProcessHandlers, Notify!Parties
  <2> QED BY <1>10, <2>1
<1> QED BY <1>1, <1>2, <1>3, <1>4, <1>5, <1>6, <1>7, <1>8, <1>9, <1>10 DEF Notify!Handlers

LEMMA PublicationsReach ==
    ASSUME NEW p \in Notify!Publications, NEW has, p.has \subseteq has,
           has \subseteq p.has \cup p.may,
           p.event \notin {"matching.score.calculated", "deliverable.submitted"},
           p.event = "application.status.changed" => "companyUserId" \in has,
           p.event \in {"chat.message.sent", "academic.progress.near_completion",
                       "academic.anteproyecto.submitted", "academic.anteproyecto.revised"}
             => has \cap {"recipientIds", "asesorUserId", "juradoUserIds"} # {},
           NEW h \in Notify!Handlers, h.event = p.event, NEW fields, fields = has \cup {"admins"}
    PROVE  /\ h.needs \subseteq fields
           /\ Notify!Recipients(h, fields) # <<>>
<1> USE DEF Notify!H, Notify!Mandatory, Notify!Optional, Notify!One, Notify!InOneTry
<1>1. h.needs \subseteq fields /\ \E i \in 1..3 : i <= Len(h.to) /\ h.to[i] \in fields
  <2>1. CASE p \in Notify!AccountEvents
    <3>1. h \in Notify!AccountHandlers
      BY <2>1, ReadersOfField DEF Notify!AccountEvents, Notify!P
    <3> QED
      BY <2>1, <3>1 DEF Notify!AccountEvents, Notify!P, Notify!AccountHandlers
  <2>2. CASE p \in Notify!ProjectEvents
    <3>1. h \in Notify!ProjectHandlers
      BY <2>2, ReadersOfField DEF Notify!ProjectEvents, Notify!P
    <3> QED
      BY <2>2, <3>1 DEF Notify!ProjectEvents, Notify!P, Notify!ProjectHandlers
  <2>3. CASE p \in UNION {Notify!AssignedEvents, Notify!AcceptedEvents,
                          Notify!DeclinedEvents, Notify!ReplacedEvents}
    <3>1. h \in Notify!DeskHandlers
      BY <2>3, ReadersOfField DEF Notify!AssignedEvents, Notify!AcceptedEvents,
         Notify!DeclinedEvents, Notify!ReplacedEvents, Notify!P
    <3> QED
      BY <2>3, <3>1 DEF Notify!AssignedEvents, Notify!AcceptedEvents,
         Notify!DeclinedEvents, Notify!ReplacedEvents, Notify!P, Notify!DeskHandlers
  <2>4. CASE p \in UNION {Notify!CreatedEvents, Notify!UpdateStatusEvents,
                          Notify!WithdrawEvents}
    <3>1. h \in Notify!ApplicationHandlers
      BY <2>4, ReadersOfField DEF Notify!CreatedEvents, Notify!UpdateStatusEvents,
         Notify!WithdrawEvents, Notify!P
    <3> QED
      BY <2>4, <3>1 DEF Notify!CreatedEvents, Notify!UpdateStatusEvents,
         Notify!WithdrawEvents, Notify!P, Notify!ApplicationHandlers
  <2>5. CASE p \in UNION {Notify!EvaluationEvents, Notify!CompletedEvents}
    <3>1. h \in Notify!EvaluationHandlers
      BY <2>5, ReadersOfField DEF Notify!EvaluationEvents, Notify!CompletedEvents,
         Notify!P
    <3> QED
      BY <2>5, <3>1 DEF Notify!EvaluationEvents, Notify!CompletedEvents, Notify!P,
         Notify!EvaluationHandlers
  <2>6. CASE p \in Notify!ScoreEvents
    <3>1. h \in Notify!MatchHandlers
      BY <2>6, ReadersOfField DEF Notify!ScoreEvents, Notify!P
    <3> QED
      BY <2>6, <3>1 DEF Notify!ScoreEvents, Notify!P, Notify!MatchHandlers
  <2>7. CASE p \in Notify!MessageEvents
    <3>1. h \in Notify!MessageHandlers
      BY <2>7, ReadersOfField DEF Notify!MessageEvents, Notify!P
    <3> QED
      BY <2>7, <3>1 DEF Notify!MessageEvents, Notify!P, Notify!MessageHandlers
  <2>8. CASE p \in UNION {Notify!DeliverableAssignedEvents,
                          Notify!DeliverableSubmittedEvents, Notify!DeliverableReviewedEvents}
    <3>1. h \in Notify!DeliverableHandlers
      BY <2>8, ReadersOfField DEF Notify!DeliverableAssignedEvents,
         Notify!DeliverableSubmittedEvents, Notify!DeliverableReviewedEvents, Notify!P
    <3> QED
      BY <2>8, <3>1 DEF Notify!DeliverableAssignedEvents,
         Notify!DeliverableSubmittedEvents, Notify!DeliverableReviewedEvents,
         Notify!P, Notify!DeliverableHandlers
  <2>9. CASE p \in UNION {Notify!SubmissionEvents, Notify!CorrectionEvents,
                          Notify!DecisionEvents, Notify!DeadlineEvents}
    <3>1. h \in Notify!AnteproyectoHandlers
      BY <2>9, ReadersOfField DEF Notify!SubmissionEvents, Notify!CorrectionEvents,
         Notify!DecisionEvents, Notify!DeadlineEvents, Notify!P
    <3> QED
      BY <2>9, <3>1 DEF Notify!SubmissionEvents, Notify!CorrectionEvents,
         Notify!DecisionEvents, Notify!DeadlineEvents, Notify!P,
         Notify!AnteproyectoHandlers
  <2>10. CASE p \in UNION {Notify!AgreementEvents, Notify!ProgressEvents,
                          Notify!FinalizationEvents, Notify!CompletionEvents}
    <3>1. h \in Notify!ProcessHandlers
      BY <2>10, ReadersOfField DEF Notify!AgreementEvents, Notify!ProgressEvents,
         Notify!FinalizationEvents, Notify!CompletionEvents, Notify!P
    <3> QED
      BY <2>10, <3>1 DEF Notify!AgreementEvents, Notify!ProgressEvents,
         Notify!FinalizationEvents, Notify!CompletionEvents, Notify!P,
         Notify!ProcessHandlers, Notify!Parties
  <2> QED BY <2>1, <2>2, <2>3, <2>4, <2>5, <2>6, <2>7, <2>8, <2>9, <2>10 DEF Notify!Publications
<1> QED BY <1>1, FieldIsTold

LEMMA EventsHaveNames ==
    ASSUME NEW p \in Notify!Publications
    PROVE  p.event # "none"
<1>1. CASE p \in UNION {Notify!AccountEvents, Notify!ProjectEvents,
                     Notify!AssignedEvents, Notify!AcceptedEvents,
                     Notify!DeclinedEvents, Notify!ReplacedEvents}
  BY <1>1 DEF Notify!P, Notify!AccountEvents, Notify!ProjectEvents,
     Notify!AssignedEvents, Notify!AcceptedEvents, Notify!DeclinedEvents,
     Notify!ReplacedEvents
<1>2. CASE p \in UNION {Notify!CreatedEvents, Notify!UpdateStatusEvents,
                     Notify!WithdrawEvents, Notify!EvaluationEvents,
                     Notify!CompletedEvents, Notify!ScoreEvents,
                     Notify!MessageEvents}
  BY <1>2 DEF Notify!P, Notify!CreatedEvents, Notify!UpdateStatusEvents,
     Notify!WithdrawEvents, Notify!EvaluationEvents, Notify!CompletedEvents,
     Notify!ScoreEvents, Notify!MessageEvents
<1>3. CASE p \in UNION {Notify!DeliverableAssignedEvents,
                     Notify!DeliverableSubmittedEvents,
                     Notify!DeliverableReviewedEvents, Notify!SubmissionEvents,
                     Notify!CorrectionEvents, Notify!DecisionEvents}
  BY <1>3 DEF Notify!P, Notify!DeliverableAssignedEvents,
     Notify!DeliverableSubmittedEvents, Notify!DeliverableReviewedEvents,
     Notify!SubmissionEvents, Notify!CorrectionEvents, Notify!DecisionEvents
<1>4. CASE p \in UNION {Notify!DeadlineEvents, Notify!AgreementEvents,
                     Notify!ProgressEvents, Notify!FinalizationEvents,
                     Notify!CompletionEvents}
  BY <1>4 DEF Notify!P, Notify!DeadlineEvents, Notify!AgreementEvents,
     Notify!ProgressEvents, Notify!FinalizationEvents, Notify!CompletionEvents
<1> QED BY <1>1, <1>2, <1>3, <1>4 DEF Notify!Publications

LEMMA NotesCount ==
    /\ \A S : Notify!Cardinality(S) = Cardinality(S)
    /\ \A S : Notify!IsFiniteSet(S) <=> IsFiniteSet(S)
BY DEF Notify!Cardinality, Cardinality, Notify!IsFiniteSet, IsFiniteSet

LEMMA UnreadIsNat == ASSUME Notify!StateIsTyped, NEW u PROVE Notify!Unread(u) \in Nat
<1> DEFINE S == {k \in DOMAIN v3 : k[2] = u /\ ~v3[k].read}
<1>1. IsFiniteSet(DOMAIN v3)
  BY NotesCount DEF Notify!StateIsTyped
<1>2. IsFiniteSet(S)
  BY <1>1, FS_Subset
<1>3. Cardinality(S) \in Nat
  BY <1>2, FS_CardinalityType
<1> QED BY <1>3, NotesCount DEF Notify!Unread

\* The handler of a message that was published.
LEMMA ItsHandler ==
    ASSUME Notify!MessagesAreTyped, NEW d \in Deliveries, v2[d].event # "none"
    PROVE  /\ Notify!Handler(d) \in Notify!Handlers
           /\ Notify!Handler(d).event = v2[d].event
<1>1. PICK p \in Notify!Publications : v2[d].event = p.event
  BY DEF Notify!MessagesAreTyped, Notify!WasPublished
<1> QED BY <1>1, EventsAreRead DEF Notify!Handler

\* A message that is handled has a present recipient.
LEMMA RecipientIsSomebody ==
    ASSUME Notify!MessagesAreTyped, NEW d \in Deliveries,
           v2[d].status = "handling" \/ v2[d].mails \/ v2[d].step # "insert"
    PROVE  Notify!Recipient(d) \in Notify!People
<1>1. v2[d].left \in Seq(Notify!People) /\ v2[d].left # <<>>
  BY DEF Notify!MessagesAreTyped, Notify!Messages
<1> QED BY <1>1 DEF Notify!Recipient

LEMMA NamedArePeople == \A d : Notify!Named(d) \in Seq(Notify!People)
BY RecipientsArePeople DEF Notify!Named

\* The two ways a handler goes on: with its next recipients, or with the present one.
LEMMA HandlesTyped ==
    ASSUME Notify!MessagesAreTyped, NEW d \in Deliveries, v2[d].event # "none",
           NEW left \in Seq(Notify!People), v2' = [v2 EXCEPT ![d] = Notify!Handles(v2[d], left)]
    PROVE  /\ Notify!MessagesAreTyped'
           /\ v2'[d].left = left /\ v2'[d].step = "insert" /\ ~v2'[d].mails
           /\ v2'[d].status = IF left = <<>> THEN "acked" ELSE "handling"
           /\ v2'[d].event = v2[d].event /\ v2'[d].has = v2[d].has
           /\ v2'[d].attempt = v2[d].attempt
           /\ \A e \in Deliveries \ {d} : v2'[e] = v2[e]
<1> DEFINE m == Notify!Handles(v2[d], left)
<1>1. /\ v2'[d] = m /\ \A e \in Deliveries \ {d} : v2'[e] = v2[e]
  BY DEF Notify!MessagesAreTyped
<1>2. /\ m.left = left /\ m.step = "insert" /\ m.mails = FALSE /\ m.unread = 0
      /\ m.status = IF left = <<>> THEN "acked" ELSE "handling"
      /\ m.event = v2[d].event /\ m.has = v2[d].has /\ m.attempt = v2[d].attempt
  BY DEF Notify!MessagesAreTyped, Notify!Handles, Notify!Messages
<1>3. m \in Notify!Messages
  BY DEF Notify!MessagesAreTyped, Notify!Handles, Notify!Messages
<1>4. Notify!WasPublished(v2'[d])
  BY <1>1, <1>2 DEF Notify!MessagesAreTyped, Notify!WasPublished
<1> HIDE DEF m
<1>5. v2' = [v2 EXCEPT ![d] = m]
  BY DEF m
<1>6. Notify!MessagesAreTyped'
  <2>1. ASSUME NEW e \in Deliveries
        PROVE  /\ v2'[e].event = "none" \/ Notify!WasPublished(v2'[e])
               /\ v2'[e].status # "acked" => v2'[e].event # "none"
               /\ v2'[e].status = "handling" <=> v2'[e].left # <<>>
               /\ v2'[e].step # "insert" \/ v2'[e].mails => v2'[e].status = "handling"
    <3>1. CASE e = d
      BY <3>1, <1>1, <1>2, <1>4
    <3>2. CASE e # d
      BY <3>2, <1>1 DEF Notify!MessagesAreTyped
    <3> QED BY <3>1, <3>2
  <2>2. v2' \in [Deliveries -> Notify!Messages]
    BY <1>3, <1>5 DEF Notify!MessagesAreTyped
  <2> QED BY <2>1, <2>2 DEF Notify!MessagesAreTyped, Notify!WasPublished
<1> QED BY <1>1, <1>2, <1>6

LEMMA StepTyped ==
    ASSUME Notify!MessagesAreTyped, NEW d \in Deliveries, v2[d].status = "handling",
           NEW step \in {"look", "make", "count", "emit"}, NEW mails \in BOOLEAN,
           NEW unread \in Nat,
           v2' = [v2 EXCEPT ![d] = [v2[d] EXCEPT !.step = step, !.mails = mails,
                                                 !.unread = unread]]
    PROVE  /\ Notify!MessagesAreTyped'
           /\ v2'[d].step = step /\ v2'[d].mails = mails /\ v2'[d].unread = unread
           /\ v2'[d].left = v2[d].left /\ v2'[d].status = "handling"
           /\ v2'[d].event = v2[d].event /\ v2'[d].has = v2[d].has
           /\ v2'[d].attempt = v2[d].attempt
           /\ \A e \in Deliveries \ {d} : v2'[e] = v2[e]
<1> DEFINE m == [v2[d] EXCEPT !.step = step, !.mails = mails, !.unread = unread]
<1>1. /\ v2'[d] = m /\ \A e \in Deliveries \ {d} : v2'[e] = v2[e]
  BY DEF Notify!MessagesAreTyped
<1>2. /\ m.left = v2[d].left /\ m.step = step /\ m.mails = mails /\ m.unread = unread
      /\ m.status = "handling"
      /\ m.event = v2[d].event /\ m.has = v2[d].has /\ m.attempt = v2[d].attempt
  BY DEF Notify!MessagesAreTyped, Notify!Messages
<1>3. m \in Notify!Messages
  BY DEF Notify!MessagesAreTyped, Notify!Messages
<1>4. v2[d].event # "none" /\ v2[d].left # <<>> /\ Notify!WasPublished(v2[d])
  BY DEF Notify!MessagesAreTyped
<1>5. v2' = [v2 EXCEPT ![d] = m]
  OBVIOUS
<1> HIDE DEF m
<1>6. Notify!MessagesAreTyped'
  BY <1>1, <1>2, <1>3, <1>4, <1>5 DEF Notify!MessagesAreTyped, Notify!WasPublished
<1> QED BY <1>1, <1>2, <1>6

\* What is read and named of an event depends on its fields only.
LEMMA SameEvent ==
    ASSUME NEW d \in Deliveries, v2'[d].event = v2[d].event, v2'[d].has = v2[d].has
    PROVE  /\ Notify!Handler(d)' = Notify!Handler(d)
           /\ Notify!Fed(d)' = Notify!Fed(d) /\ Notify!Named(d)' = Notify!Named(d)
           /\ \A s : Notify!MailAllowed(d, s)' = Notify!MailAllowed(d, s)
           /\ \A s : Notify!PushAllowed(d, s)' = Notify!PushAllowed(d, s)
           /\ Notify!Unfed(d)' = Notify!Unfed(d)
<1>1. Notify!Handler(d)' = Notify!Handler(d) /\ Notify!Fields(d)' = Notify!Fields(d)
  BY DEF Notify!Handler, Notify!Fields
<1> QED BY <1>1 DEF Notify!Fed, Notify!Named, Notify!MailAllowed, Notify!PushAllowed, Notify!Unfed

\* The handler of d is still with the same recipients.
LEMMA NamedSame ==
    ASSUME Notify!NamedAreToCome, NEW d \in Deliveries,
           v11 \subseteq v11', v12 \subseteq v12',
           \A e \in Deliveries \ {d} : v2'[e] = v2[e],
           v2'[d].event = v2[d].event, v2'[d].has = v2[d].has, v2'[d].left = v2[d].left,
           v2'[d].status # "queued" => v2[d].status # "queued",
           Notify!Started(d)' => <<d, Notify!Recipient(d)>> \in v11'
    PROVE  Notify!NamedAreToCome'
<1> SUFFICES ASSUME NEW e \in Deliveries
             PROVE  /\ Notify!Started(e)' => <<e, Notify!Recipient(e)'>> \in v11'
                    /\ v2'[e].status # "queued" /\ v2'[e].event # "none" /\ Notify!Fed(e)' =>
                        \A i \in DOMAIN Notify!Named(e)' :
                          \/ <<e, Notify!Named(e)'[i]>> \in v11' \cup v12'
                          \/ \E j \in DOMAIN v2'[e].left : v2'[e].left[j] = Notify!Named(e)'[i]
                          \/ /\ v2'[e].event \in Notify!OneTry
                             /\ \E u \in Notify!People : <<e, u>> \in v12'
  BY DEF Notify!NamedAreToCome, Notify!OneTry
<1>1. v2'[e].event = v2[e].event /\ v2'[e].has = v2[e].has /\ v2'[e].left = v2[e].left
      /\ (v2'[e].status # "queued" => v2[e].status # "queued")
  OBVIOUS
<1>2. Notify!Fed(e)' = Notify!Fed(e) /\ Notify!Named(e)' = Notify!Named(e)
  BY <1>1, SameEvent
<1>3. Notify!Recipient(e)' = Notify!Recipient(e)
  BY <1>1 DEF Notify!Recipient
<1>4. Notify!Started(e)' => <<e, Notify!Recipient(e)'>> \in v11'
  <2>1. CASE e = d
    BY <2>1, <1>3
  <2>2. CASE e # d
    BY <2>2, <1>3 DEF Notify!NamedAreToCome, Notify!Started
  <2> QED BY <2>1, <2>2
<1> QED BY <1>1, <1>2, <1>4 DEF Notify!NamedAreToCome

\* The handler of d goes on to its next recipients: those it leaves are told or hit.
LEMMA NamedNext ==
    ASSUME Notify!NamedAreToCome, NEW d \in Deliveries,
           v11 \subseteq v11', v12 \subseteq v12',
           \A e \in Deliveries \ {d} : v2'[e] = v2[e],
           v2'[d].event = v2[d].event, v2'[d].has = v2[d].has, v2'[d].step = "insert",
           v2'[d].event # "none" /\ Notify!Fed(d) =>
              \A i \in DOMAIN Notify!Named(d) :
                 \/ <<d, Notify!Named(d)[i]>> \in v11' \cup v12'
                 \/ \E j \in DOMAIN v2'[d].left : v2'[d].left[j] = Notify!Named(d)[i]
                 \/ v2[d].event \in Notify!OneTry /\ \E u \in Notify!People : <<d, u>> \in v12'
    PROVE  Notify!NamedAreToCome'
<1> SUFFICES ASSUME NEW e \in Deliveries
             PROVE  /\ Notify!Started(e)' => <<e, Notify!Recipient(e)'>> \in v11'
                    /\ v2'[e].status # "queued" /\ v2'[e].event # "none" /\ Notify!Fed(e)' =>
                        \A i \in DOMAIN Notify!Named(e)' :
                          \/ <<e, Notify!Named(e)'[i]>> \in v11' \cup v12'
                          \/ \E j \in DOMAIN v2'[e].left : v2'[e].left[j] = Notify!Named(e)'[i]
                          \/ /\ v2'[e].event \in Notify!OneTry
                             /\ \E u \in Notify!People : <<e, u>> \in v12'
  BY DEF Notify!NamedAreToCome, Notify!OneTry
<1>1. v2'[e].event = v2[e].event /\ v2'[e].has = v2[e].has
  OBVIOUS
<1>2. Notify!Fed(e)' = Notify!Fed(e) /\ Notify!Named(e)' = Notify!Named(e)
  BY <1>1, SameEvent
<1>3. CASE e = d
  BY <1>2, <1>3 DEF Notify!Started
<1>4. CASE e # d
  BY <1>2, <1>4 DEF Notify!NamedAreToCome, Notify!Started, Notify!Recipient
<1> QED BY <1>3, <1>4

\* The present recipient of d is told or was hit.
LEMMA NamedTail ==
    ASSUME Notify!MessagesAreTyped, Notify!NamedAreToCome, NEW d \in Deliveries,
           v2[d].status = "handling",
           v11 \subseteq v11', v12 \subseteq v12',
           \A e \in Deliveries \ {d} : v2'[e] = v2[e],
           v2'[d].event = v2[d].event, v2'[d].has = v2[d].has, v2'[d].step = "insert",
           v2'[d].left = Tail(v2[d].left), <<d, Notify!Recipient(d)>> \in v11' \cup v12'
    PROVE  Notify!NamedAreToCome'
<1> DEFINE left == v2[d].left
<1>1. left \in Seq(Notify!People) /\ left # <<>> /\ v2[d].event # "none"
  BY DEF Notify!MessagesAreTyped, Notify!Messages
<1>2. \A j \in DOMAIN left :
        left[j] = Head(left) \/ \E i \in DOMAIN Tail(left) : Tail(left)[i] = left[j]
  <2> SUFFICES ASSUME NEW j \in DOMAIN left, j # 1
               PROVE  \E i \in DOMAIN Tail(left) : Tail(left)[i] = left[j]
    BY <1>1
  <2>1. j - 1 \in DOMAIN Tail(left) /\ Tail(left)[j - 1] = left[j]
    BY <1>1
  <2> QED BY <2>1
<1>3. ASSUME v2'[d].event # "none", Notify!Fed(d), NEW i \in DOMAIN Notify!Named(d)
      PROVE  \/ <<d, Notify!Named(d)[i]>> \in v11' \cup v12'
             \/ \E j \in DOMAIN v2'[d].left : v2'[d].left[j] = Notify!Named(d)[i]
             \/ v2[d].event \in Notify!OneTry /\ \E u \in Notify!People : <<d, u>> \in v12'
  <2>1. \/ <<d, Notify!Named(d)[i]>> \in v11 \cup v12
        \/ \E j \in DOMAIN left : left[j] = Notify!Named(d)[i]
        \/ v2[d].event \in Notify!OneTry /\ \E u \in Notify!People : <<d, u>> \in v12
    BY <1>3 DEF Notify!NamedAreToCome
  <2>2. CASE \E j \in DOMAIN left : left[j] = Notify!Named(d)[i]
    BY <1>2, <2>2 DEF Notify!Recipient
  <2> QED BY <2>1, <2>2
<1> QED BY <1>3, NamedNext

\* Nothing is told anew, and what was told stays so.
LEMMA NamedIdle ==
    ASSUME Notify!NamedAreToCome, UNCHANGED <<v2, v11, v12>>
    PROVE  Notify!NamedAreToCome'
BY DEF Notify!NamedAreToCome, Notify!Started, Notify!Recipient, Notify!Fed, Notify!Named,
   Notify!Handler, Notify!Fields

\* No step of a handler, of a mail or of the watcher takes a mandatory mail from a row.
LEMMA ForcedSame ==
    ASSUME Notify!ForcedMailIsComing, v9' = v9 \/ v9' # 0, v12 \subseteq v12',
           \A e \in Deliveries :
              /\ v2'[e].event = v2[e].event /\ v2'[e].has = v2[e].has
              /\ v2'[e].step \in {"count", "emit"} =>
                    \/ v2'[e].mails = v2[e].mails /\ v2[e].step \in {"count", "emit"}
                    \/ Notify!Handler(e).forced => v2'[e].mails,
           DOMAIN v3' \subseteq Deliveries \X Notify!People \X Nat,
           \A k \in DOMAIN v3' :
              \/ k \in DOMAIN v3 /\ (v9' = 0 /\ v3[k].mail # "none" => v3'[k].mail # "none")
              \/ Notify!Making(k)',
           \A k \in DOMAIN v3' :
              v9' = 0 /\ Notify!Making(k) /\ Notify!Handler(k[1]).forced /\ <<k[1], k[2]>> \notin v12'
                => v3'[k].mail # "none" \/ Notify!Making(k)'
    PROVE  Notify!ForcedMailIsComing'
<1>1. \A e \in Deliveries : Notify!Handler(e)' = Notify!Handler(e)
  BY SameEvent
<1>2. \A k \in DOMAIN v3' : k[1] \in Deliveries
  OBVIOUS
<1>3. ASSUME NEW e \in Deliveries, v2'[e].step \in {"count", "emit"}, Notify!Handler(e).forced
      PROVE  v2'[e].mails
  BY <1>3 DEF Notify!ForcedMailIsComing
<1>4. ASSUME NEW k \in DOMAIN v3', v9' = 0, Notify!Handler(k[1]).forced, <<k[1], k[2]>> \notin v12'
      PROVE  v3'[k].mail # "none" \/ Notify!Making(k)'
  <2>1. v9 = 0 /\ <<k[1], k[2]>> \notin v12
    BY <1>4
  <2>2. CASE Notify!Making(k)'
    BY <2>2
  <2>3. CASE k \in DOMAIN v3 /\ (v3[k].mail # "none" => v3'[k].mail # "none")
    <3>1. v3[k].mail # "none" \/ Notify!Making(k)
      BY <1>4, <2>1, <2>3 DEF Notify!ForcedMailIsComing
    <3> QED BY <1>4, <2>3, <3>1
  <2> QED BY <1>4, <2>2, <2>3
<1> QED BY <1>1, <1>2, <1>3, <1>4 DEF Notify!ForcedMailIsComing

\* Where a mail or a push is decided, the preferences were read.
LEMMA FollowedSame ==
    ASSUME Notify!PreferencesAreFollowed, v13 => v13',
           \A u \in Notify!People : v4[u] # None => v4'[u] # None /\ (v13' \/ v4'[u] = v4[u]),
           \A e \in Deliveries :
              /\ v2'[e].event = v2[e].event /\ v2'[e].has = v2[e].has
              /\ v2'[e].mails =>
                    \/ v2[e].mails /\ v2'[e].left = v2[e].left /\ Notify!Recipient(e) \in Notify!People
                    \/ /\ v4'[Notify!Recipient(e)'] # None
                       /\ v13' \/ Notify!MailAllowed(e, v4'[Notify!Recipient(e)']),
           DOMAIN v3' \subseteq Deliveries \X Notify!People \X Nat,
           \A k \in DOMAIN v3' :
              /\ \/ v3'[k].mail = "none"
                 \/ k \in DOMAIN v3 /\ v3[k].mail # "none"
                 \/ v4'[k[2]] # None /\ (v13' \/ Notify!MailAllowed(k[1], v4'[k[2]]))
              /\ \/ ~v3'[k].shown
                 \/ k \in DOMAIN v3 /\ v3[k].shown
                 \/ v4'[k[2]] # None /\ (v13' \/ Notify!PushAllowed(k[1], v4'[k[2]]))
    PROVE  Notify!PreferencesAreFollowed'
<1>1. ASSUME NEW e \in Deliveries, v2'[e].mails
      PROVE  /\ v4'[Notify!Recipient(e)'] # None
             /\ v13' \/ Notify!MailAllowed(e, v4[Notify!Recipient(e)])'
  <2>1. \A s : Notify!MailAllowed(e, s)' = Notify!MailAllowed(e, s)
    BY SameEvent
  <2>2. CASE v2[e].mails /\ v2'[e].left = v2[e].left /\ Notify!Recipient(e) \in Notify!People
    <3>1. Notify!Recipient(e)' = Notify!Recipient(e)
      BY <2>2 DEF Notify!Recipient
    <3>2. v4[Notify!Recipient(e)] # None /\ (v13 \/ Notify!MailAllowed(e, v4[Notify!Recipient(e)]))
      BY <2>2 DEF Notify!PreferencesAreFollowed
    <3>3. v13' \/ Notify!MailAllowed(e, v4'[Notify!Recipient(e)'])
      BY <2>2, <3>1, <3>2
    <3>4. v13' \/ Notify!MailAllowed(e, v4[Notify!Recipient(e)])'
      BY <2>1, <3>3 DEF Notify!MailAllowed
    <3> QED BY <2>2, <3>1, <3>2, <3>4
  <2>3. CASE /\ v4'[Notify!Recipient(e)'] # None
             /\ v13' \/ Notify!MailAllowed(e, v4'[Notify!Recipient(e)'])
    BY <2>1, <2>3 DEF Notify!MailAllowed
  <2> QED BY <1>1, <2>2, <2>3
<1>2. ASSUME NEW k \in DOMAIN v3'
      PROVE  IF v4'[k[2]] = None THEN v3'[k].mail = "none" /\ ~v3'[k].shown
             ELSE \/ v13'
                  \/ /\ v3'[k].mail # "none" => Notify!MailAllowed(k[1], v4'[k[2]])
                     /\ v3'[k].shown => Notify!PushAllowed(k[1], v4'[k[2]])
  <2>1. k[1] \in Deliveries /\ k[2] \in Notify!People
    OBVIOUS
  <2>2. ASSUME k \in DOMAIN v3
        PROVE  IF v4[k[2]] = None THEN v3[k].mail = "none" /\ ~v3[k].shown
               ELSE \/ v13
                    \/ /\ v3[k].mail # "none" => Notify!MailAllowed(k[1], v4[k[2]])
                       /\ v3[k].shown => Notify!PushAllowed(k[1], v4[k[2]])
    BY <2>2 DEF Notify!PreferencesAreFollowed
  <2>3. v3'[k].mail = "none" \/ (v4'[k[2]] # None /\ (v13' \/ Notify!MailAllowed(k[1], v4'[k[2]])))
    BY <2>1, <2>2
  <2>4. ~v3'[k].shown \/ (v4'[k[2]] # None /\ (v13' \/ Notify!PushAllowed(k[1], v4'[k[2]])))
    BY <2>1, <2>2
  <2> QED BY <2>3, <2>4
<1>3. \A k \in DOMAIN v3' :
        /\ \A s : Notify!MailAllowed(k[1], s)' = Notify!MailAllowed(k[1], s)
        /\ \A s : Notify!PushAllowed(k[1], s)' = Notify!PushAllowed(k[1], s)
  BY SameEvent
<1>4. ASSUME NEW k \in DOMAIN v3'
      PROVE  /\ Notify!MailAllowed(k[1], v4[k[2]])' = Notify!MailAllowed(k[1], v4'[k[2]])
             /\ Notify!PushAllowed(k[1], v4[k[2]])' = Notify!PushAllowed(k[1], v4'[k[2]])
  BY <1>3, <1>4 DEF Notify!MailAllowed, Notify!PushAllowed
<1> QED BY <1>1, <1>2, <1>4 DEF Notify!PreferencesAreFollowed

\* Where the watcher is sent no count and no row of his changes its mark, the counts stay right.
LEMMA CountsSame ==
    ASSUME Notify!CountsAreRight, v14 => v14', v7' = v7, v5' => v5 /\ v6' = v6,
           Notify!Unread("student")' = Notify!Unread("student"),
           \A e \in Deliveries :
              /\ Notify!Counting(e)' <=> Notify!Counting(e)
              /\ Notify!Counting(e)' /\ v2'[e].step = "emit" =>
                    \/ v2[e].step = "emit" /\ v2'[e].unread = v2[e].unread
                    \/ v2'[e].unread = Notify!Unread("student")
    PROVE  Notify!CountsAreRight'
<1>1. Notify!Busy <=> (\E e \in Deliveries : Notify!Counting(e)) \/ v7 # None
  BY DEF Notify!Busy, Notify!Counting, Notify!Started
<1>2. Notify!Busy' <=> (\E e \in Deliveries : Notify!Counting(e)') \/ v7' # None
  BY DEF Notify!Busy, Notify!Counting, Notify!Started
<1>3. Notify!Busy' <=> Notify!Busy
  BY <1>1, <1>2
<1> QED BY <1>3 DEF Notify!CountsAreRight, Notify!Watcher

\* A request of the watcher begins.
LEMMA CountsCalled ==
    ASSUME Notify!CountsAreRight, v14' \/ (~v14 /\ ~Notify!Busy), v2' = v2, v7' # None,
           v7'.step # "emit", v7'.op = "preferences" => UNCHANGED <<v3, v5, v6>>
    PROVE  Notify!CountsAreRight'
<1> SUFFICES ASSUME ~v14' PROVE Notify!CountsAreRight'
  BY DEF Notify!CountsAreRight
<1>1. ~v14 /\ \A e \in Deliveries : ~Notify!Counting(e)
  BY DEF Notify!Busy, Notify!Counting, Notify!Started
<1>2. \A e \in Deliveries : ~Notify!Counting(e)'
  BY <1>1 DEF Notify!Counting, Notify!Started, Notify!Recipient
<1>3. Notify!Busy'
  BY DEF Notify!Busy
<1>4. ASSUME v5', v7'.op = "preferences"
      PROVE  v6' = Notify!Unread(Notify!Watcher)'
  BY <1>1, <1>4 DEF Notify!CountsAreRight, Notify!Unread, Notify!Cardinality
<1> QED BY <1>2, <1>3, <1>4 DEF Notify!CountsAreRight

LEMMA NotifyInit == Notify!Init => Notify!NotifyInv
<1> SUFFICES ASSUME Notify!Init PROVE Notify!NotifyInv
  OBVIOUS
<1>1. PICK mix \in NotificationMixes :
        /\ v1 = mix.asks
        /\ v2 \in {f \in [Deliveries -> UNION {Notify!Payloads(mix.sent[d]) : d \in Deliveries}] :
                            \A d \in Deliveries : f[d] \in Notify!Payloads(mix.sent[d])}
  BY DEF Notify!Init
<1>2. PICK start \in {None, Notify!Switches \ {"emailEnabled"}, Notify!Switches \ {"inAppEnabled"},
                     Notify!Switches \ {"projectUpdates", "evaluationAlerts"}} :
        v4 = [u \in Notify!People |-> start]
  BY DEF Notify!Init
<1>3. /\ v3 = <<>> /\ v5 = FALSE /\ v6 = 0 /\ v7 = None /\ v9 = 0 /\ v13 = FALSE /\ v14 = FALSE
  BY DEF Notify!Init
<1>4. DOMAIN v3 = {}
  BY <1>3
<1>5. ASSUME NEW d \in Deliveries
      PROVE  /\ v2[d] \in Notify!Messages
             /\ v2[d].event = "none" \/ Notify!WasPublished(v2[d])
             /\ v2[d].status = IF v2[d].event = "none" THEN "acked" ELSE "queued"
             /\ v2[d].left = <<>> /\ v2[d].step = "insert" /\ v2[d].mails = FALSE
  <2>1. mix.sent[d] \in Notify!Publications \cup {None}
    BY ServicesAssumption DEF Notify!NotificationsAssumption
  <2>2. v2[d] \in Notify!Payloads(mix.sent[d])
    BY <1>1
  <2>3. <<>> \in Seq(Notify!People)
    OBVIOUS
  <2>4. CASE mix.sent[d] = None
    <3>1. v2[d] = Notify!Message("none", {}, "acked")
      BY <2>2, <2>4 DEF Notify!Payloads
    <3> DEFINE m == Notify!Message("none", {}, "acked")
    <3>2. m \in Notify!Messages
      BY <2>3 DEF Notify!Message, Notify!Messages
    <3>3. /\ m.event = "none" /\ m.status = "acked" /\ m.left = <<>>
          /\ m.step = "insert" /\ m.mails = FALSE
      BY DEF Notify!Message
    <3> QED BY <3>1, <3>2, <3>3
  <2>5. CASE mix.sent[d] # None
    <3> DEFINE p == mix.sent[d]
    <3>1. p \in Notify!Publications
      BY <2>1, <2>5
    <3>2. PICK x \in SUBSET p.may : v2[d] = Notify!Message(p.event, p.has \cup x, "queued")
      BY <2>2, <2>5 DEF Notify!Payloads
    <3>3. p.event # "none"
      BY <3>1, EventsHaveNames
    <3> HIDE DEF p
    <3> DEFINE m == Notify!Message(p.event, p.has \cup x, "queued")
    <3>4. /\ m.event = p.event /\ m.has = p.has \cup x /\ m.status = "queued"
          /\ m.left = <<>> /\ m.step = "insert" /\ m.mails = FALSE
      BY DEF Notify!Message
    <3>5. m \in Notify!Messages
      BY <2>3, <3>1, <3>2 DEF Notify!Message, Notify!Messages
    <3>6. Notify!WasPublished(m)
      BY <3>1, <3>4 DEF Notify!WasPublished
    <3> QED BY <3>2, <3>3, <3>4, <3>5, <3>6
  <2> QED BY <2>4, <2>5
<1>6. Notify!MessagesAreTyped
  <2>1. v2 \in [Deliveries -> Notify!Messages]
    BY <1>1, <1>5
  <2> QED BY <2>1, <1>5 DEF Notify!MessagesAreTyped
<1>7. Notify!StateIsTyped
  <2>1. IsFiniteSet(DOMAIN v3)
    BY <1>4, FS_EmptySet
  <2>2. v4 \in [Notify!People -> (SUBSET Notify!Switches) \cup {None}]
    BY <1>2
  <2>3. v3 \in [DOMAIN v3 -> Notify!Note]
    <3>1. v3 = [k \in {} |-> 1]
      BY <1>3
    <3> QED BY <3>1
  <2> QED BY <1>3, <1>4, <2>1, <2>2, <2>3, NotesCount DEF Notify!StateIsTyped
<1>8. Notify!NamedAreToCome
  BY <1>5 DEF Notify!NamedAreToCome, Notify!Started
<1>9. Notify!ForcedMailIsComing /\ Notify!PreferencesAreFollowed
  BY <1>4, <1>5 DEF Notify!ForcedMailIsComing, Notify!PreferencesAreFollowed
<1>10. Notify!CountsAreRight
  BY <1>3, <1>5 DEF Notify!CountsAreRight, Notify!Counting, Notify!Started
<1> QED BY <1>6, <1>7, <1>8, <1>9, <1>10 DEF Notify!NotifyInv

\* The handlers of the other messages stay where they are.
LEMMA MessagesStay ==
    ASSUME NEW e, v2'[e] = v2[e]
    PROVE  /\ Notify!Started(e)' <=> Notify!Started(e)
           /\ Notify!Counting(e)' <=> Notify!Counting(e)
           /\ Notify!Key(e)' = Notify!Key(e) /\ Notify!Recipient(e)' = Notify!Recipient(e)
BY DEF Notify!Started, Notify!Counting, Notify!Key, Notify!Recipient

LEMMA MakingSame ==
    ASSUME NEW k, v2'[k[1]] = v2[k[1]]
    PROVE  Notify!Making(k)' <=> Notify!Making(k)
BY DEF Notify!Making, Notify!Started, Notify!Key, Notify!Recipient

LEMMA UnreadSame ==
    ASSUME DOMAIN v3' = DOMAIN v3, \A k \in DOMAIN v3 : v3'[k].read = v3[k].read
    PROVE  \A u : Notify!Unread(u)' = Notify!Unread(u)
<1> SUFFICES ASSUME NEW u PROVE Notify!Unread(u)' = Notify!Unread(u)
  OBVIOUS
<1>1. {k \in DOMAIN v3' : k[2] = u /\ ~v3'[k].read} = {k \in DOMAIN v3 : k[2] = u /\ ~v3[k].read}
  OBVIOUS
<1> QED BY <1>1, NotesCount DEF Notify!Unread

LEMMA TakeKeeps ==
    ASSUME Notify!NotifyInv, NEW d \in Deliveries, Notify!Take(d)
    PROVE  Notify!NotifyInv'
<1> DEFINE left == IF Notify!Fed(d) THEN Notify!Named(d) ELSE <<>>
<1>1. /\ v2[d].status = "queued" /\ v2' = [v2 EXCEPT ![d] = Notify!Handles(v2[d], left)]
      /\ UNCHANGED <<v3, v4, v5, v6, v7, v9, v11, v12, v13, v14>>
  BY DEF Notify!Take, Notify!Goes
<1>2. v2[d].event # "none" /\ v2[d].step = "insert" /\ left \in Seq(Notify!People)
  BY <1>1, NamedArePeople DEF Notify!NotifyInv, Notify!MessagesAreTyped
<1>3. DOMAIN v3 \subseteq Deliveries \X Notify!People \X Nat
  BY DEF Notify!NotifyInv, Notify!StateIsTyped
<1> HIDE DEF left
<1>4. /\ Notify!MessagesAreTyped'
      /\ v2'[d].left = left /\ v2'[d].step = "insert" /\ ~v2'[d].mails
      /\ v2'[d].event = v2[d].event /\ v2'[d].has = v2[d].has
      /\ \A e \in Deliveries \ {d} : v2'[e] = v2[e]
  BY <1>1, <1>2, HandlesTyped DEF Notify!NotifyInv
<1>5. Notify!StateIsTyped'
  BY <1>1 DEF Notify!NotifyInv, Notify!StateIsTyped, Notify!Note, Notify!IsFiniteSet
<1>6. Notify!NamedAreToCome'
  BY <1>1, <1>4, NamedNext DEF Notify!NotifyInv, left
<1>7. ~Notify!Started(d) /\ ~Notify!Started(d)'
  BY <1>1, <1>4 DEF Notify!Started
<1>8. Notify!ForcedMailIsComing'
  <2>1. \A k \in DOMAIN v3' : Notify!Making(k) => Notify!Making(k)'
    BY <1>1, <1>3, <1>4, <1>7, MakingSame DEF Notify!Making
  <2> QED BY <1>1, <1>3, <1>4, <2>1, ForcedSame DEF Notify!NotifyInv
<1>9. Notify!PreferencesAreFollowed'
  <2>1. \A e \in Deliveries : v2'[e].mails =>
            v2[e].mails /\ v2'[e].left = v2[e].left /\ Notify!Recipient(e) \in Notify!People
    BY <1>4, RecipientIsSomebody DEF Notify!NotifyInv
  <2> QED BY <1>1, <1>3, <1>4, <2>1, FollowedSame DEF Notify!NotifyInv
<1>10. Notify!CountsAreRight'
  BY <1>1, <1>4, <1>7, CountsSame, MessagesStay, UnreadSame DEF Notify!NotifyInv, Notify!Counting
<1> QED BY <1>4, <1>5, <1>6, <1>8, <1>9, <1>10 DEF Notify!NotifyInv

LEMMA ThrowsKeeps ==
    ASSUME Notify!NotifyInv, NEW d \in Deliveries, v2[d].status = "handling", Notify!Throws(d),
           UNCHANGED <<v3, v4, v5, v6, v7, v9, v11, v13>>, v14' \in BOOLEAN, v14 => v14',
           Notify!Counting(d) => v14'
    PROVE  Notify!NotifyInv'
<1> DEFINE left == IF Notify!Handler(d).together THEN <<>> ELSE Tail(v2[d].left)
<1>1. /\ v2' = [v2 EXCEPT ![d] = Notify!Handles(v2[d], left)]
      /\ v12' = v12 \cup {<<d, Notify!Recipient(d)>>}
  BY DEF Notify!Throws, Notify!Goes
<1>2. v2[d].event # "none" /\ v2[d].left \in Seq(Notify!People) /\ v2[d].left # <<>>
  BY DEF Notify!NotifyInv, Notify!MessagesAreTyped, Notify!Messages
<1>3. left \in Seq(Notify!People)
  BY <1>2
<1>4. DOMAIN v3 \subseteq Deliveries \X Notify!People \X Nat
  BY DEF Notify!NotifyInv, Notify!StateIsTyped
<1>5. Notify!Recipient(d) \in Notify!People
  BY <1>2, RecipientIsSomebody DEF Notify!NotifyInv
<1>6. Notify!Handler(d).together => v2[d].event \in Notify!OneTry
  BY <1>2, ItsHandler, HandlersRead DEF Notify!NotifyInv
<1>7. (left = <<>> /\ v2[d].event \in Notify!OneTry) \/ left = Tail(v2[d].left)
  BY <1>6
<1> HIDE DEF left
<1>8. /\ Notify!MessagesAreTyped'
      /\ v2'[d].left = left /\ v2'[d].step = "insert" /\ ~v2'[d].mails
      /\ v2'[d].event = v2[d].event /\ v2'[d].has = v2[d].has
      /\ \A e \in Deliveries \ {d} : v2'[e] = v2[e]
  BY <1>1, <1>2, <1>3, HandlesTyped DEF Notify!NotifyInv
<1>9. Notify!StateIsTyped'
  BY DEF Notify!NotifyInv, Notify!StateIsTyped, Notify!Note, Notify!IsFiniteSet
<1>10. Notify!NamedAreToCome'
  <2>1. CASE left = Tail(v2[d].left)
    BY <1>1, <1>8, <2>1, NamedTail DEF Notify!NotifyInv
  <2>2. CASE v2[d].event \in Notify!OneTry
    <3>1. \E u \in Notify!People : <<d, u>> \in v12'
      BY <1>1, <1>5
    <3> QED BY <1>1, <1>8, <2>2, <3>1, NamedNext DEF Notify!NotifyInv
  <2> QED BY <1>7, <2>1, <2>2
<1>11. ~Notify!Started(d)'
  BY <1>8 DEF Notify!Started
<1>12. Notify!ForcedMailIsComing'
  <2>1. ASSUME NEW k \in DOMAIN v3', Notify!Making(k), <<k[1], k[2]>> \notin v12'
        PROVE  Notify!Making(k)'
    <3>1. k[1] # d
      BY <1>1, <2>1 DEF Notify!Making, Notify!Key
    <3> QED BY <1>4, <1>8, <2>1, <3>1, MakingSame
  <2> QED BY <1>1, <1>4, <1>8, <2>1, ForcedSame DEF Notify!NotifyInv
<1>13. Notify!PreferencesAreFollowed'
  <2>1. \A e \in Deliveries : v2'[e].mails =>
            v2[e].mails /\ v2'[e].left = v2[e].left /\ Notify!Recipient(e) \in Notify!People
    BY <1>8, RecipientIsSomebody DEF Notify!NotifyInv
  <2> QED BY <1>4, <1>8, <2>1, FollowedSame DEF Notify!NotifyInv
<1>14. Notify!CountsAreRight'
  <2>1. CASE v14'
    BY <2>1 DEF Notify!CountsAreRight
  <2>2. CASE ~Notify!Counting(d)
    <3>1. \A e \in Deliveries : /\ Notify!Counting(e)' <=> Notify!Counting(e)
                                /\ Notify!Counting(e)' => v2'[e] = v2[e]
      BY <1>8, <1>11, <2>2, MessagesStay DEF Notify!Counting
    <3> QED BY <3>1, CountsSame, UnreadSame DEF Notify!NotifyInv
  <2> QED BY <2>1, <2>2
<1> QED BY <1>8, <1>9, <1>10, <1>12, <1>13, <1>14 DEF Notify!NotifyInv

LEMMA InsertFailsKeeps ==
    ASSUME Notify!NotifyInv, NEW d \in Deliveries, Notify!InsertFails(d)
    PROVE  Notify!NotifyInv'
<1>1. ~Notify!Counting(d)
  BY DEF Notify!InsertFails, Notify!At, Notify!Counting, Notify!Started
<1>2. v14' \in BOOLEAN /\ (v14 => v14')
  BY DEF Notify!InsertFails, Notify!NotifyInv, Notify!StateIsTyped
<1> QED BY <1>1, <1>2, ThrowsKeeps DEF Notify!InsertFails, Notify!At

LEMMA StopsShortKeeps ==
    ASSUME Notify!NotifyInv, NEW d \in Deliveries, Notify!StopsShort(d)
    PROVE  Notify!NotifyInv'
<1>1. v14' \in BOOLEAN /\ (v14 => v14') /\ (Notify!Counting(d) => v14')
  BY DEF Notify!StopsShort, Notify!NotifyInv, Notify!StateIsTyped, Notify!Counting
<1> QED BY <1>1, ThrowsKeeps DEF Notify!StopsShort, Notify!At

\* Of the only event that asks for the administrators, they are whom it names.
LEMMA AdministratorsAreNamed ==
    ASSUME Notify!MessagesAreTyped, NEW d \in Deliveries,
           v2[d].event = "project.submitted_for_review", NEW i \in DOMAIN Notify!Named(d)
    PROVE  Notify!Named(d)[i] \in {"admin", "otherAdmin"}
<1>1. Notify!Handler(d).to = <<"admins">>
  BY ItsHandler, HandlersRead
<1>2. "admins" \in Notify!Fields(d)
  BY DEF Notify!Fields
<1> DEFINE h == Notify!Handler(d)
<1>3. Notify!Recipients(h, Notify!Fields(d)) = <<"admin", "otherAdmin">> \o <<>> \o <<>>
  <2> HIDE DEF h
  <2>1. h.to = <<"admins">>
    BY <1>1 DEF h
  <2>2. Len(h.to) = 1 /\ h.to[1] = "admins"
    BY <2>1
  <2>3. Notify!Who("admins") = <<"admin", "otherAdmin">>
    BY DEF Notify!Who
  <2> QED BY <1>2, <2>2, <2>3 DEF Notify!Recipients
<1>4. Notify!Named(d) = <<"admin", "otherAdmin">>
  BY <1>3 DEF Notify!Named
<1> QED BY <1>4

LEMMA TakeFailsKeeps ==
    ASSUME Notify!NotifyInv, NEW d \in Deliveries, Notify!TakeFails(d)
    PROVE  Notify!NotifyInv'
<1>1. /\ v2[d].status = "queued" /\ v2[d].event = "project.submitted_for_review"
      /\ v2' = [v2 EXCEPT ![d] = Notify!Handles(v2[d], <<>>)]
      /\ v12' = v12 \cup {<<d, u>> : u \in {"admin", "otherAdmin"}}
      /\ UNCHANGED <<v3, v4, v5, v6, v7, v9, v11, v13, v14>>
  BY DEF Notify!TakeFails, Notify!Goes
<1>2. <<>> \in Seq(Notify!People)
  OBVIOUS
<1>3. DOMAIN v3 \subseteq Deliveries \X Notify!People \X Nat
  BY DEF Notify!NotifyInv, Notify!StateIsTyped
<1>4. /\ Notify!MessagesAreTyped'
      /\ v2'[d].step = "insert" /\ ~v2'[d].mails
      /\ v2'[d].event = v2[d].event /\ v2'[d].has = v2[d].has
      /\ \A e \in Deliveries \ {d} : v2'[e] = v2[e]
  BY <1>1, <1>2, HandlesTyped DEF Notify!NotifyInv
<1>5. Notify!StateIsTyped'
  BY <1>1 DEF Notify!NotifyInv, Notify!StateIsTyped, Notify!Note, Notify!IsFiniteSet
<1>6. Notify!NamedAreToCome'
  <2>1. \A i \in DOMAIN Notify!Named(d) : <<d, Notify!Named(d)[i]>> \in v12'
    BY <1>1, AdministratorsAreNamed DEF Notify!NotifyInv
  <2> QED BY <1>1, <1>4, <2>1, NamedNext DEF Notify!NotifyInv
<1>7. ~Notify!Started(d) /\ ~Notify!Started(d)'
  BY <1>1, <1>4 DEF Notify!Started
<1>8. Notify!ForcedMailIsComing'
  <2>1. \A k \in DOMAIN v3' : Notify!Making(k) => Notify!Making(k)'
    BY <1>1, <1>3, <1>4, <1>7, MakingSame DEF Notify!Making
  <2> QED BY <1>1, <1>3, <1>4, <2>1, ForcedSame DEF Notify!NotifyInv
<1>9. Notify!PreferencesAreFollowed'
  <2>1. \A e \in Deliveries : v2'[e].mails =>
            v2[e].mails /\ v2'[e].left = v2[e].left /\ Notify!Recipient(e) \in Notify!People
    BY <1>4, RecipientIsSomebody DEF Notify!NotifyInv
  <2> QED BY <1>1, <1>3, <1>4, <2>1, FollowedSame DEF Notify!NotifyInv
<1>10. Notify!CountsAreRight'
  BY <1>1, <1>4, <1>7, CountsSame, MessagesStay, UnreadSame DEF Notify!NotifyInv, Notify!Counting
<1> QED BY <1>4, <1>5, <1>6, <1>8, <1>9, <1>10 DEF Notify!NotifyInv

LEMMA StepOnly ==
    ASSUME NEW m \in Notify!Messages, NEW step, NEW x
    PROVE  /\ [m EXCEPT !.step = step]
                = [m EXCEPT !.step = step, !.mails = m.mails, !.unread = m.unread]
           /\ [m EXCEPT !.step = step, !.mails = x]
                = [m EXCEPT !.step = step, !.mails = x, !.unread = m.unread]
           /\ [m EXCEPT !.step = step, !.unread = x]
                = [m EXCEPT !.step = step, !.mails = m.mails, !.unread = x]
BY DEF Notify!Messages

\* What every step of createNotification has in common.
LEMMA AtWork ==
    ASSUME Notify!NotifyInv, NEW d \in Deliveries, v2[d].status = "handling"
    PROVE  /\ v2[d] \in Notify!Messages /\ Notify!Recipient(d) \in Notify!People
           /\ DOMAIN v3 \subseteq Deliveries \X Notify!People \X Nat
           /\ Notify!Key(d) \in Deliveries \X Notify!People \X Nat
           /\ Notify!Key(d)[1] = d /\ Notify!Key(d)[2] = Notify!Recipient(d)
           /\ v2[d].mails \in BOOLEAN /\ v2[d].unread \in Nat
<1>1. v2[d] \in Notify!Messages
  BY DEF Notify!NotifyInv, Notify!MessagesAreTyped
<1>2. Notify!Recipient(d) \in Notify!People
  BY RecipientIsSomebody DEF Notify!NotifyInv
<1>3. v2[d].attempt \in Nat /\ v2[d].mails \in BOOLEAN /\ v2[d].unread \in Nat
  BY <1>1 DEF Notify!Messages
<1>4. DOMAIN v3 \subseteq Deliveries \X Notify!People \X Nat
  BY DEF Notify!NotifyInv, Notify!StateIsTyped
<1> QED BY <1>1, <1>2, <1>3, <1>4 DEF Notify!Key

LEMMA InsertKeeps ==
    ASSUME Notify!NotifyInv, NEW d \in Deliveries, Notify!Insert(d)
    PROVE  Notify!NotifyInv'
<1> DEFINE row == [read |-> FALSE, shown |-> FALSE, mail |-> "none"]
<1>1. /\ v2[d].status = "handling" /\ v2[d].step = "insert"
      /\ v2' = [v2 EXCEPT ![d] = [v2[d] EXCEPT !.step = "look"]]
      /\ v3' = [k \in DOMAIN v3 \cup {Notify!Key(d)} |-> IF k = Notify!Key(d) THEN row ELSE v3[k]]
      /\ v11' = v11 \cup {<<d, Notify!Recipient(d)>>}
      /\ v14' = (v14 \/ (Notify!Recipient(d) = "student" /\ Notify!Busy))
      /\ UNCHANGED <<v4, v5, v6, v7, v9, v12, v13>>
  BY DEF Notify!Insert, Notify!At, Notify!Goes, Notify!Blurs, Notify!Watcher
<1>2. /\ v2[d] \in Notify!Messages /\ Notify!Recipient(d) \in Notify!People
      /\ DOMAIN v3 \subseteq Deliveries \X Notify!People \X Nat
      /\ Notify!Key(d) \in Deliveries \X Notify!People \X Nat
      /\ Notify!Key(d)[1] = d /\ Notify!Key(d)[2] = Notify!Recipient(d)
      /\ v2[d].mails \in BOOLEAN /\ v2[d].unread \in Nat
  BY <1>1, AtWork
<1>3. row \in Notify!Note /\ row.mail = "none" /\ ~row.shown
  BY DEF Notify!Note
<1> HIDE DEF row
<1>4. /\ Notify!MessagesAreTyped'
      /\ v2'[d].step = "look" /\ v2'[d].mails = v2[d].mails
      /\ v2'[d].left = v2[d].left /\ v2'[d].status = "handling"
      /\ v2'[d].event = v2[d].event /\ v2'[d].has = v2[d].has
      /\ v2'[d].attempt = v2[d].attempt
      /\ \A e \in Deliveries \ {d} : v2'[e] = v2[e]
  <2> DEFINE mails == v2[d].mails
             unread == v2[d].unread
             step == "look"
  <2>1. v2' = [v2 EXCEPT ![d] = [v2[d] EXCEPT !.step = step, !.mails = mails, !.unread = unread]]
    BY <1>1, <1>2, StepOnly
  <2>2. /\ mails \in BOOLEAN /\ unread \in Nat /\ step \in {"look", "make", "count", "emit"}
        /\ mails = v2[d].mails /\ step = "look"
        /\ v2[d].status = "handling" /\ Notify!MessagesAreTyped
    BY <1>1, <1>2 DEF Notify!NotifyInv
  <2> HIDE DEF mails, unread, step
  <2> QED BY <2>1, <2>2, StepTyped
<1>5. /\ DOMAIN v3' = DOMAIN v3 \cup {Notify!Key(d)}
      /\ v3'[Notify!Key(d)] = row
      /\ \A k \in DOMAIN v3 : k # Notify!Key(d) => v3'[k] = v3[k]
  BY <1>1
<1>6. Notify!StateIsTyped'
  <2>1. IsFiniteSet(DOMAIN v3')
    BY <1>5, FS_AddElement, NotesCount DEF Notify!NotifyInv, Notify!StateIsTyped
  <2>2. v3' \in [DOMAIN v3' -> Notify!Note]
    BY <1>1, <1>3 DEF Notify!NotifyInv, Notify!StateIsTyped
  <2>3. v14' \in BOOLEAN
    BY <1>1 DEF Notify!NotifyInv, Notify!StateIsTyped
  <2>4. Notify!IsFiniteSet(DOMAIN v3)'
    BY <2>1, NotesCount
  <2>5. DOMAIN v3' \subseteq Deliveries \X Notify!People \X Nat
    BY <1>2, <1>5
  <2>6. /\ v4' \in [Notify!People -> (SUBSET Notify!Switches) \cup {None}]
        /\ v7' \in Notify!Running \cup {None} /\ v5' \in BOOLEAN /\ v6' \in Nat /\ v9' \in Nat
        /\ v13' \in BOOLEAN
    BY <1>1 DEF Notify!NotifyInv, Notify!StateIsTyped
  <2> QED BY <2>2, <2>3, <2>4, <2>5, <2>6 DEF Notify!StateIsTyped
<1>7. Notify!Recipient(d)' = Notify!Recipient(d) /\ Notify!Key(d)' = Notify!Key(d)
  BY <1>4 DEF Notify!Recipient, Notify!Key
<1>8. Notify!NamedAreToCome'
  BY <1>1, <1>4, NamedSame DEF Notify!NotifyInv
<1>9. Notify!ForcedMailIsComing'
  <2>1. ASSUME NEW k \in DOMAIN v3', Notify!Making(k)
        PROVE  Notify!Making(k)'
    <3>1. k[1] \in Deliveries /\ k[1] # d
      BY <1>1, <1>2, <1>5, <2>1 DEF Notify!Making, Notify!Started
    <3> QED BY <1>4, <2>1, <3>1, MakingSame
  <2>2. ASSUME NEW k \in DOMAIN v3', k \notin DOMAIN v3 \/ k = Notify!Key(d)
        PROVE  Notify!Making(k)'
    BY <1>2, <1>4, <1>5, <1>7, <2>2 DEF Notify!Making, Notify!Started
  <2>3. DOMAIN v3' \subseteq Deliveries \X Notify!People \X Nat
    BY <1>2, <1>5
  <2>4. \A e \in Deliveries :
              /\ v2'[e].event = v2[e].event /\ v2'[e].has = v2[e].has
              /\ v2'[e].step \in {"count", "emit"} =>
                    v2'[e].mails = v2[e].mails /\ v2[e].step \in {"count", "emit"}
    BY <1>4
  <2> QED BY <1>1, <1>5, <2>1, <2>2, <2>3, <2>4, ForcedSame DEF Notify!NotifyInv
<1>10. Notify!PreferencesAreFollowed'
  <2>1. \A e \in Deliveries :
           /\ v2'[e].event = v2[e].event /\ v2'[e].has = v2[e].has
           /\ v2'[e].mails =>
                v2[e].mails /\ v2'[e].left = v2[e].left /\ Notify!Recipient(e) \in Notify!People
    BY <1>4, RecipientIsSomebody DEF Notify!NotifyInv
  <2>2. \A k \in DOMAIN v3' :
              /\ v3'[k].mail = "none" \/ (k \in DOMAIN v3 /\ v3[k].mail # "none")
              /\ ~v3'[k].shown \/ (k \in DOMAIN v3 /\ v3[k].shown)
    BY <1>3, <1>5
  <2>3. DOMAIN v3' \subseteq Deliveries \X Notify!People \X Nat
    BY <1>2, <1>5
  <2> QED BY <1>1, <2>1, <2>2, <2>3, FollowedSame DEF Notify!NotifyInv
<1>11. Notify!CountsAreRight'
  <2>1. CASE Notify!Recipient(d) = "student"
    <3> SUFFICES ASSUME ~v14' PROVE Notify!CountsAreRight'
      BY DEF Notify!CountsAreRight
    <3>1. v7' = None /\ \A e \in Deliveries : ~Notify!Counting(e)
      BY <1>1, <2>1 DEF Notify!Busy, Notify!Counting, Notify!Started, Notify!Watcher
    <3>2. \A e \in Deliveries \ {d} : ~Notify!Counting(e)'
      BY <1>4, <3>1, MessagesStay
    <3>3. Notify!Busy'
      BY <1>4, <1>7, <2>1 DEF Notify!Busy, Notify!Watcher
    <3> QED BY <1>4, <3>1, <3>2, <3>3 DEF Notify!CountsAreRight
  <2>2. CASE Notify!Recipient(d) # "student"
    <3>1. \A e \in Deliveries : /\ Notify!Counting(e)' <=> Notify!Counting(e)
                                /\ Notify!Counting(e)' => v2'[e] = v2[e]
      BY <1>4, <1>7, <2>2, MessagesStay DEF Notify!Counting, Notify!Watcher
    <3>2. Notify!Unread("student")' = Notify!Unread("student")
      <4>1. {k \in DOMAIN v3' : k[2] = "student" /\ ~v3'[k].read}
              = {k \in DOMAIN v3 : k[2] = "student" /\ ~v3[k].read}
        BY <1>2, <1>5, <2>2
      <4> QED BY <4>1, NotesCount DEF Notify!Unread
    <3> QED BY <1>1, <3>1, <3>2, CountsSame DEF Notify!NotifyInv
  <2> QED BY <2>1, <2>2
<1> QED BY <1>4, <1>6, <1>8, <1>9, <1>10, <1>11 DEF Notify!NotifyInv

\* A step that changes no row's user, mark or number keeps the types.
LEMMA RowsTyped ==
    ASSUME Notify!StateIsTyped, DOMAIN v3' = DOMAIN v3, v3' \in [DOMAIN v3' -> Notify!Note],
           v4' \in [Notify!People -> (SUBSET Notify!Switches) \cup {None}],
           v5' \in BOOLEAN, v6' \in Nat, v7' \in Notify!Running \cup {None}, v9' \in Nat,
           v13' \in BOOLEAN, v14' \in BOOLEAN
    PROVE  Notify!StateIsTyped'
<1>1. Notify!IsFiniteSet(DOMAIN v3)'
  BY NotesCount DEF Notify!StateIsTyped
<1>2. DOMAIN v3' \subseteq Deliveries \X Notify!People \X Nat
  BY DEF Notify!StateIsTyped
<1> QED BY <1>1, <1>2 DEF Notify!StateIsTyped

\* The preferences are known: they decide on the push and on the mail.
LEMMA PrefersKeeps ==
    ASSUME Notify!NotifyInv, NEW d \in Deliveries, v2[d].status = "handling",
           v2[d].step \in {"look", "make"},
           v4' \in [Notify!People -> (SUBSET Notify!Switches) \cup {None}],
           \A u \in Notify!People : v4[u] # None => v4'[u] = v4[u],
           v4'[Notify!Recipient(d)] # None, Notify!Prefers(d, v4'[Notify!Recipient(d)]),
           UNCHANGED <<v5, v6, v7, v9, v11, v12, v13, v14>>
    PROVE  Notify!NotifyInv'
<1> DEFINE switches == v4'[Notify!Recipient(d)]
           mails == Notify!Mails(Notify!Handler(d), switches)
           shown == Notify!Wanted(switches, "inAppEnabled", Notify!Handler(d).category)
           unread == v2[d].unread
           step == "count"
<1>1. /\ v2[d] \in Notify!Messages /\ Notify!Recipient(d) \in Notify!People
      /\ DOMAIN v3 \subseteq Deliveries \X Notify!People \X Nat
      /\ Notify!Key(d)[1] = d /\ Notify!Key(d)[2] = Notify!Recipient(d)
      /\ unread \in Nat
  BY AtWork
<1>2. mails \in BOOLEAN /\ shown \in BOOLEAN
  <2>1. Notify!Wanted(switches, "inAppEnabled", Notify!Handler(d).category) \in BOOLEAN
        /\ Notify!Wanted(switches, "emailEnabled", Notify!Handler(d).category) \in BOOLEAN
    BY DEF Notify!Wanted
  <2> QED BY <2>1 DEF Notify!Mails
<1>3. v2' = [v2 EXCEPT ![d] = [v2[d] EXCEPT !.step = step, !.mails = mails, !.unread = unread]]
  BY <1>1, StepOnly DEF Notify!Prefers, Notify!Goes
<1>4. v3' = IF Notify!Key(d) \in DOMAIN v3 THEN [v3 EXCEPT ![Notify!Key(d)].shown = shown] ELSE v3
  BY DEF Notify!Prefers
<1>5. /\ mails <=> Notify!MailAllowed(d, switches)
      /\ shown <=> Notify!PushAllowed(d, switches)
      /\ Notify!Handler(d).forced => mails
  BY <1>2 DEF Notify!MailAllowed, Notify!PushAllowed, Notify!Mails
<1>6. step \in {"look", "make", "count", "emit"} /\ step = "count" /\ Notify!MessagesAreTyped
  BY DEF Notify!NotifyInv
<1>7. switches = v4'[Notify!Recipient(d)]
  OBVIOUS
<1> HIDE DEF switches, mails, shown, unread, step
<1>8. /\ Notify!MessagesAreTyped'
      /\ v2'[d].step = step /\ v2'[d].mails = mails
      /\ v2'[d].left = v2[d].left /\ v2'[d].status = "handling"
      /\ v2'[d].event = v2[d].event /\ v2'[d].has = v2[d].has
      /\ v2'[d].attempt = v2[d].attempt
      /\ \A e \in Deliveries \ {d} : v2'[e] = v2[e]
  BY <1>1, <1>2, <1>3, <1>6, StepTyped
<1>9. /\ DOMAIN v3' = DOMAIN v3 /\ v3' \in [DOMAIN v3 -> Notify!Note]
      /\ \A k \in DOMAIN v3 : v3'[k].read = v3[k].read /\ v3'[k].mail = v3[k].mail
      /\ \A k \in DOMAIN v3 : v3'[k].shown = IF k = Notify!Key(d) THEN shown ELSE v3[k].shown
  <2>1. v3 \in [DOMAIN v3 -> Notify!Note]
    BY DEF Notify!NotifyInv, Notify!StateIsTyped
  <2>2. CASE Notify!Key(d) \in DOMAIN v3
    <3>1. v3' = [v3 EXCEPT ![Notify!Key(d)].shown = shown]
      BY <1>4, <2>2
    <3>2. \A k \in DOMAIN v3 : 
            v3'[k] = IF k = Notify!Key(d) THEN [v3[k] EXCEPT !.shown = shown] ELSE v3[k]
      BY <2>1, <3>1
    <3>3. \A k \in DOMAIN v3 : v3[k] \in Notify!Note
      BY <2>1
    <3>4. ASSUME NEW k \in DOMAIN v3
          PROVE  /\ v3'[k] \in Notify!Note /\ v3'[k].read = v3[k].read /\ v3'[k].mail = v3[k].mail
                 /\ v3'[k].shown = IF k = Notify!Key(d) THEN shown ELSE v3[k].shown
      <4>1. [v3[k] EXCEPT !.shown = shown] \in Notify!Note
            /\ [v3[k] EXCEPT !.shown = shown].read = v3[k].read
            /\ [v3[k] EXCEPT !.shown = shown].mail = v3[k].mail
            /\ [v3[k] EXCEPT !.shown = shown].shown = shown
        BY <1>2, <3>3, <3>4 DEF Notify!Note
      <4> QED BY <3>2, <3>3, <3>4, <4>1
    <3>5. DOMAIN v3' = DOMAIN v3 /\ v3' = [k \in DOMAIN v3' |-> v3'[k]]
      BY <3>1
    <3> QED BY <3>4, <3>5
  <2>3. CASE Notify!Key(d) \notin DOMAIN v3
    BY <1>4, <2>1, <2>3
  <2> QED BY <2>2, <2>3
<1>10. Notify!Recipient(d)' = Notify!Recipient(d) /\ Notify!Key(d)' = Notify!Key(d)
       /\ Notify!Started(d) /\ Notify!Started(d)'
  BY <1>6, <1>8 DEF Notify!Recipient, Notify!Key, Notify!Started
<1>11. Notify!StateIsTyped'
  BY <1>9, RowsTyped DEF Notify!NotifyInv, Notify!StateIsTyped
<1>12. Notify!NamedAreToCome'
  <2>1. <<d, Notify!Recipient(d)>> \in v11'
    BY <1>10 DEF Notify!NotifyInv, Notify!NamedAreToCome
  <2> QED BY <1>8, <2>1, NamedSame DEF Notify!NotifyInv
<1>13. Notify!ForcedMailIsComing'
  <2>1. ASSUME NEW k \in DOMAIN v3', Notify!Making(k)
        PROVE  Notify!Making(k)'
    <3>1. CASE k[1] = d
      BY <1>10, <2>1, <3>1 DEF Notify!Making
    <3>2. CASE k[1] # d
      BY <1>1, <1>8, <1>9, <2>1, <3>2, MakingSame
    <3> QED BY <3>1, <3>2
  <2>2. \A e \in Deliveries :
              /\ v2'[e].event = v2[e].event /\ v2'[e].has = v2[e].has
              /\ v2'[e].step \in {"count", "emit"} =>
                    \/ v2'[e].mails = v2[e].mails /\ v2[e].step \in {"count", "emit"}
                    \/ Notify!Handler(e).forced => v2'[e].mails
    BY <1>5, <1>8
  <2> QED BY <1>1, <1>9, <2>1, <2>2, ForcedSame DEF Notify!NotifyInv
<1>14. Notify!PreferencesAreFollowed'
  <2>1. \A e \in Deliveries :
              /\ v2'[e].event = v2[e].event /\ v2'[e].has = v2[e].has
              /\ v2'[e].mails =>
                    \/ v2[e].mails /\ v2'[e].left = v2[e].left /\ Notify!Recipient(e) \in Notify!People
                    \/ /\ v4'[Notify!Recipient(e)'] # None
                       /\ v13' \/ Notify!MailAllowed(e, v4'[Notify!Recipient(e)'])
    <3> SUFFICES ASSUME NEW e \in Deliveries, v2'[e].mails
                 PROVE  \/ /\ v2[e].mails /\ v2'[e].left = v2[e].left
                           /\ Notify!Recipient(e) \in Notify!People
                        \/ /\ v4'[Notify!Recipient(e)'] # None
                           /\ v13' \/ Notify!MailAllowed(e, v4'[Notify!Recipient(e)'])
      BY <1>8
    <3>1. CASE e = d
      BY <1>5, <1>7, <1>8, <1>10, <3>1
    <3>2. CASE e # d
      BY <1>6, <1>8, <3>2, RecipientIsSomebody
    <3> QED BY <3>1, <3>2
  <2>2. \A k \in DOMAIN v3' :
              /\ v3'[k].mail = "none" \/ (k \in DOMAIN v3 /\ v3[k].mail # "none")
              /\ \/ ~v3'[k].shown
                 \/ k \in DOMAIN v3 /\ v3[k].shown
                 \/ v4'[k[2]] # None /\ (v13' \/ Notify!PushAllowed(k[1], v4'[k[2]]))
    BY <1>1, <1>5, <1>7, <1>9
  <2> QED BY <1>1, <1>9, <2>1, <2>2, FollowedSame DEF Notify!NotifyInv
<1>15. Notify!CountsAreRight'
  <2>1. \A e \in Deliveries : /\ Notify!Counting(e)' <=> Notify!Counting(e)
                              /\ Notify!Counting(e)' /\ v2'[e].step = "emit" => v2'[e] = v2[e]
    BY <1>6, <1>8, <1>10, MessagesStay DEF Notify!Counting, Notify!Watcher
  <2> QED BY <1>9, <2>1, CountsSame, UnreadSame DEF Notify!NotifyInv
<1> QED BY <1>8, <1>11, <1>12, <1>13, <1>14, <1>15 DEF Notify!NotifyInv

\* The handler goes on to make the row of the preferences, or to emit what it counted.
LEMMA WaitsKeeps ==
    ASSUME Notify!NotifyInv, NEW d \in Deliveries, v2[d].status = "handling",
           v2[d].step # "insert", NEW step, step \in {"look", "make", "count", "emit"},
           step \in {"make", "emit"},
           NEW unread, unread \in Nat, NEW mails, mails \in BOOLEAN, mails = v2[d].mails,
           v2' = [v2 EXCEPT ![d] = [v2[d] EXCEPT !.step = step, !.mails = mails,
                                                 !.unread = unread]],
           step = "emit" => v2[d].step = "count" /\ unread = Notify!Unread(Notify!Recipient(d)),
           UNCHANGED <<v3, v4, v5, v6, v7, v9, v11, v12, v13, v14>>
    PROVE  Notify!NotifyInv'
<1>1. /\ Notify!Recipient(d) \in Notify!People /\ Notify!MessagesAreTyped
      /\ DOMAIN v3 \subseteq Deliveries \X Notify!People \X Nat
  BY AtWork DEF Notify!NotifyInv
<1>2. step \in {"look", "make", "count", "emit"} /\ unread \in Nat /\ mails \in BOOLEAN
  OBVIOUS
<1>3. /\ Notify!MessagesAreTyped'
      /\ v2'[d].step = step /\ v2'[d].mails = mails
      /\ v2'[d].left = v2[d].left /\ v2'[d].status = "handling"
      /\ v2'[d].event = v2[d].event /\ v2'[d].has = v2[d].has
      /\ v2'[d].attempt = v2[d].attempt
      /\ \A e \in Deliveries \ {d} : v2'[e] = v2[e]
  BY <1>1, <1>2, StepTyped
<1>4. v2'[d].unread = unread
  BY <1>1 DEF Notify!MessagesAreTyped, Notify!Messages
<1>5. Notify!Recipient(d)' = Notify!Recipient(d) /\ Notify!Key(d)' = Notify!Key(d)
      /\ Notify!Started(d) /\ Notify!Started(d)'
  BY <1>3 DEF Notify!Recipient, Notify!Key, Notify!Started
<1>6. Notify!StateIsTyped'
  BY RowsTyped DEF Notify!NotifyInv, Notify!StateIsTyped
<1>7. Notify!NamedAreToCome'
  <2>1. <<d, Notify!Recipient(d)>> \in v11'
    BY <1>5 DEF Notify!NotifyInv, Notify!NamedAreToCome
  <2> QED BY <1>3, <2>1, NamedSame DEF Notify!NotifyInv
<1>8. Notify!ForcedMailIsComing'
  <2>1. ASSUME NEW k \in DOMAIN v3', Notify!Making(k)
        PROVE  Notify!Making(k)'
    <3>1. CASE k[1] = d
      BY <1>5, <2>1, <3>1 DEF Notify!Making
    <3>2. CASE k[1] # d
      BY <1>1, <1>3, <2>1, <3>2, MakingSame
    <3> QED BY <3>1, <3>2
  <2>2. \A e \in Deliveries :
              /\ v2'[e].event = v2[e].event /\ v2'[e].has = v2[e].has
              /\ v2'[e].step \in {"count", "emit"} =>
                    v2'[e].mails = v2[e].mails /\ v2[e].step \in {"count", "emit"}
    BY <1>3
  <2> QED BY <1>1, <2>1, <2>2, ForcedSame DEF Notify!NotifyInv
<1>9. Notify!PreferencesAreFollowed'
  <2>1. \A e \in Deliveries : v2'[e].mails =>
            v2[e].mails /\ v2'[e].left = v2[e].left /\ Notify!Recipient(e) \in Notify!People
    BY <1>1, <1>3, RecipientIsSomebody
  <2> QED BY <1>1, <1>3, <2>1, FollowedSame DEF Notify!NotifyInv
<1>10. Notify!CountsAreRight'
  <2>1. ASSUME NEW e \in Deliveries
        PROVE  /\ Notify!Counting(e)' <=> Notify!Counting(e)
               /\ Notify!Counting(e)' /\ v2'[e].step = "emit" =>
                    \/ v2[e].step = "emit" /\ v2'[e].unread = v2[e].unread
                    \/ v2'[e].unread = Notify!Unread("student")
    <3>1. CASE e = d
      BY <1>3, <1>5, <1>4, <3>1 DEF Notify!Counting, Notify!Watcher
    <3>2. CASE e # d
      BY <1>3, <3>2, MessagesStay
    <3> QED BY <3>1, <3>2
  <2> QED BY <2>1, CountsSame, UnreadSame DEF Notify!NotifyInv
<1> QED BY <1>3, <1>6, <1>7, <1>8, <1>9, <1>10 DEF Notify!NotifyInv

LEMMA LookKeeps ==
    ASSUME Notify!NotifyInv, NEW d \in Deliveries, Notify!Look(d)
    PROVE  Notify!NotifyInv'
<1>1. /\ v2[d].status = "handling" /\ v2[d].step = "look"
      /\ UNCHANGED <<v4, v5, v6, v7, v9, v11, v12, v13, v14>>
  BY DEF Notify!Look, Notify!At
<1>2. /\ v2[d] \in Notify!Messages /\ v2[d].mails \in BOOLEAN /\ v2[d].unread \in Nat
  BY <1>1, AtWork
<1>3. CASE v4[Notify!Recipient(d)] # None
  <2>1. v4'[Notify!Recipient(d)] # None /\ Notify!Prefers(d, v4'[Notify!Recipient(d)])
    BY <1>1, <1>3 DEF Notify!Look
  <2>2. v4' \in [Notify!People -> (SUBSET Notify!Switches) \cup {None}]
    BY <1>1 DEF Notify!NotifyInv, Notify!StateIsTyped
  <2> QED BY <1>1, <2>1, <2>2, PrefersKeeps
<1>4. CASE v4[Notify!Recipient(d)] = None
  <2> DEFINE mails == v2[d].mails
             unread == v2[d].unread
             step == "make"
  <2>1. v2' = [v2 EXCEPT ![d] = [v2[d] EXCEPT !.step = step, !.mails = mails, !.unread = unread]]
    BY <1>2, <1>4, StepOnly DEF Notify!Look, Notify!Goes
  <2>2. /\ mails \in BOOLEAN /\ unread \in Nat /\ step \in {"look", "make", "count", "emit"}
        /\ step \in {"make", "emit"} /\ mails = v2[d].mails /\ step # "emit"
        /\ v2[d].step # "insert" /\ v3' = v3
    BY <1>1, <1>2, <1>4 DEF Notify!Look
  <2> HIDE DEF mails, unread, step
  <2> QED BY <1>1, <2>1, <2>2, WaitsKeeps
<1> QED BY <1>3, <1>4

LEMMA MakeKeeps ==
    ASSUME Notify!NotifyInv, NEW d \in Deliveries, Notify!Make(d)
    PROVE  Notify!NotifyInv'
<1>1. /\ v2[d].status = "handling" /\ v2[d].step = "make" /\ v4[Notify!Recipient(d)] = None
      /\ v4' = [v4 EXCEPT ![Notify!Recipient(d)] = Notify!Switches]
      /\ Notify!Prefers(d, Notify!Switches)
      /\ UNCHANGED <<v5, v6, v7, v9, v11, v12, v13, v14>>
  BY DEF Notify!Make, Notify!At
<1>2. Notify!Recipient(d) \in Notify!People
  BY <1>1, AtWork
<1>3. v4 \in [Notify!People -> (SUBSET Notify!Switches) \cup {None}]
  BY DEF Notify!NotifyInv, Notify!StateIsTyped
<1>4. Notify!Switches # None
  BY ServicesAssumption DEF Notify!NotificationsAssumption
<1>5. /\ v4' \in [Notify!People -> (SUBSET Notify!Switches) \cup {None}]
      /\ v4'[Notify!Recipient(d)] = Notify!Switches
      /\ \A u \in Notify!People : v4[u] # None => v4'[u] = v4[u]
  BY <1>1, <1>2, <1>3
<1>6. v4'[Notify!Recipient(d)] # None /\ Notify!Prefers(d, v4'[Notify!Recipient(d)])
  BY <1>1, <1>4, <1>5
<1> QED BY <1>1, <1>5, <1>6, PrefersKeeps

LEMMA CountKeeps ==
    ASSUME Notify!NotifyInv, NEW d \in Deliveries, Notify!Count(d)
    PROVE  Notify!NotifyInv'
<1> DEFINE mails == v2[d].mails
           unread == Notify!Unread(Notify!Recipient(d))
           step == "emit"
<1>1. /\ v2[d].status = "handling" /\ v2[d].step = "count"
      /\ UNCHANGED <<v3, v4, v5, v6, v7, v9, v11, v12, v13, v14>>
  BY DEF Notify!Count, Notify!At
<1>2. /\ v2[d] \in Notify!Messages /\ mails \in BOOLEAN
  BY <1>1, AtWork
<1>3. unread \in Nat
  BY UnreadIsNat DEF Notify!NotifyInv
<1>4. v2' = [v2 EXCEPT ![d] = [v2[d] EXCEPT !.step = step, !.mails = mails, !.unread = unread]]
  BY <1>2, StepOnly DEF Notify!Count, Notify!Goes
<1>5. /\ step \in {"look", "make", "count", "emit"} /\ step \in {"make", "emit"}
      /\ mails = v2[d].mails /\ v2[d].step # "insert"
      /\ unread = Notify!Unread(Notify!Recipient(d))
  BY <1>1
<1> HIDE DEF mails, unread, step
<1> QED BY <1>1, <1>2, <1>3, <1>4, <1>5, WaitsKeeps

LEMMA EmitKeeps ==
    ASSUME Notify!NotifyInv, NEW d \in Deliveries, Notify!Emit(d)
    PROVE  Notify!NotifyInv'
<1> DEFINE left == Tail(v2[d].left)
<1>1. /\ v2[d].status = "handling" /\ v2[d].step = "emit"
      /\ v2' = [v2 EXCEPT ![d] = Notify!Handles(v2[d], left)]
      /\ v6' = IF v5 /\ Notify!Recipient(d) = "student" THEN v2[d].unread ELSE v6
      /\ v3' = IF Notify!Key(d) \in DOMAIN v3 /\ v2[d].mails
               THEN [v3 EXCEPT ![Notify!Key(d)].mail = "due"] ELSE v3
      /\ UNCHANGED <<v4, v5, v7, v9, v11, v12, v13, v14>>
  BY DEF Notify!Emit, Notify!At, Notify!Emits, Notify!Goes, Notify!Watcher
<1>2. /\ v2[d] \in Notify!Messages /\ Notify!Recipient(d) \in Notify!People
      /\ DOMAIN v3 \subseteq Deliveries \X Notify!People \X Nat
      /\ Notify!Key(d)[1] = d /\ Notify!Key(d)[2] = Notify!Recipient(d)
      /\ v2[d].unread \in Nat
  BY <1>1, AtWork
<1>3. v2[d].event # "none" /\ v2[d].left \in Seq(Notify!People) /\ v2[d].left # <<>>
  BY <1>1 DEF Notify!NotifyInv, Notify!MessagesAreTyped, Notify!Messages
<1>4. left \in Seq(Notify!People) /\ left = Tail(v2[d].left)
  BY <1>3
<1> HIDE DEF left
<1>5. /\ Notify!MessagesAreTyped'
      /\ v2'[d].left = left /\ v2'[d].step = "insert" /\ ~v2'[d].mails
      /\ v2'[d].event = v2[d].event /\ v2'[d].has = v2[d].has
      /\ \A e \in Deliveries \ {d} : v2'[e] = v2[e]
  BY <1>1, <1>3, <1>4, HandlesTyped DEF Notify!NotifyInv
<1>6. Notify!Started(d) /\ ~Notify!Started(d)'
  BY <1>1, <1>5 DEF Notify!Started
<1>7. /\ DOMAIN v3' = DOMAIN v3 /\ v3' \in [DOMAIN v3 -> Notify!Note]
      /\ \A k \in DOMAIN v3 : v3'[k].read = v3[k].read /\ v3'[k].shown = v3[k].shown
      /\ \A k \in DOMAIN v3 : 
            v3'[k].mail = IF k = Notify!Key(d) /\ v2[d].mails THEN "due" ELSE v3[k].mail
  <2>1. v3 \in [DOMAIN v3 -> Notify!Note]
    BY DEF Notify!NotifyInv, Notify!StateIsTyped
  <2>2. CASE Notify!Key(d) \in DOMAIN v3 /\ v2[d].mails
    <3>1. v3' = [v3 EXCEPT ![Notify!Key(d)].mail = "due"]
      BY <1>1, <2>2
    <3>2. \A k \in DOMAIN v3 : 
            v3'[k] = IF k = Notify!Key(d) THEN [v3[k] EXCEPT !.mail = "due"] ELSE v3[k]
      BY <2>1, <3>1
    <3>3. \A k \in DOMAIN v3 : v3[k] \in Notify!Note
      BY <2>1
    <3>4. ASSUME NEW k \in DOMAIN v3
          PROVE  /\ v3'[k] \in Notify!Note /\ v3'[k].read = v3[k].read /\ v3'[k].shown = v3[k].shown
                 /\ v3'[k].mail = IF k = Notify!Key(d) THEN "due" ELSE v3[k].mail
      <4>1. [v3[k] EXCEPT !.mail = "due"] \in Notify!Note
            /\ [v3[k] EXCEPT !.mail = "due"].read = v3[k].read
            /\ [v3[k] EXCEPT !.mail = "due"].shown = v3[k].shown
            /\ [v3[k] EXCEPT !.mail = "due"].mail = "due"
        BY <3>3, <3>4 DEF Notify!Note
      <4> QED BY <3>2, <3>3, <3>4, <4>1
    <3>5. DOMAIN v3' = DOMAIN v3 /\ v3' = [k \in DOMAIN v3' |-> v3'[k]]
      BY <3>1
    <3> QED BY <2>2, <3>4, <3>5
  <2>3. CASE ~(Notify!Key(d) \in DOMAIN v3 /\ v2[d].mails)
    BY <1>1, <2>1, <2>3
  <2> QED BY <2>2, <2>3
<1>8. Notify!StateIsTyped'
  <2>1. v6' \in Nat
    BY <1>1, <1>2 DEF Notify!NotifyInv, Notify!StateIsTyped
  <2> QED BY <1>1, <1>7, <2>1, RowsTyped DEF Notify!NotifyInv, Notify!StateIsTyped
<1>9. Notify!NamedAreToCome'
  <2>1. <<d, Notify!Recipient(d)>> \in v11
    BY <1>6 DEF Notify!NotifyInv, Notify!NamedAreToCome
  <2> QED BY <1>1, <1>4, <1>5, <2>1, NamedTail DEF Notify!NotifyInv
<1>10. Notify!ForcedMailIsComing'
  <2>1. ASSUME NEW k \in DOMAIN v3', Notify!Making(k), Notify!Handler(k[1]).forced
        PROVE  v3'[k].mail # "none" \/ Notify!Making(k)'
    <3>1. CASE k[1] = d
      <4>1. v2[d].mails
        BY <1>1, <2>1, <3>1 DEF Notify!NotifyInv, Notify!ForcedMailIsComing
      <4> QED BY <1>7, <2>1, <3>1, <4>1 DEF Notify!Making
    <3>2. CASE k[1] # d
      BY <1>2, <1>5, <1>7, <2>1, <3>2, MakingSame
    <3> QED BY <3>1, <3>2
  <2>2. \A k \in DOMAIN v3' : v3[k].mail # "none" => v3'[k].mail # "none"
    BY <1>7
  <2>3. \A e \in Deliveries :
              /\ v2'[e].event = v2[e].event /\ v2'[e].has = v2[e].has
              /\ v2'[e].step \in {"count", "emit"} =>
                    v2'[e].mails = v2[e].mails /\ v2[e].step \in {"count", "emit"}
    BY <1>5
  <2> QED BY <1>1, <1>2, <1>7, <2>1, <2>2, <2>3, ForcedSame DEF Notify!NotifyInv
<1>11. Notify!PreferencesAreFollowed'
  <2>1. \A e \in Deliveries :
           /\ v2'[e].event = v2[e].event /\ v2'[e].has = v2[e].has
           /\ v2'[e].mails =>
                v2[e].mails /\ v2'[e].left = v2[e].left /\ Notify!Recipient(e) \in Notify!People
    BY <1>5, RecipientIsSomebody DEF Notify!NotifyInv
  <2>2. v2[d].mails => /\ v4'[Notify!Recipient(d)] # None
                       /\ v13' \/ Notify!MailAllowed(d, v4'[Notify!Recipient(d)])
    BY <1>1 DEF Notify!NotifyInv, Notify!PreferencesAreFollowed
  <2>3. \A k \in DOMAIN v3' :
              /\ \/ v3'[k].mail = "none"
                 \/ k \in DOMAIN v3 /\ v3[k].mail # "none"
                 \/ v4'[k[2]] # None /\ (v13' \/ Notify!MailAllowed(k[1], v4'[k[2]]))
              /\ ~v3'[k].shown \/ (k \in DOMAIN v3 /\ v3[k].shown)
    BY <1>2, <1>7, <2>2
  <2> QED BY <1>1, <1>2, <1>7, <2>1, <2>3, FollowedSame DEF Notify!NotifyInv
<1>12. Notify!CountsAreRight'
  <2>1. Notify!Unread("student")' = Notify!Unread("student")
    BY <1>7, UnreadSame
  <2>2. \A e \in Deliveries \ {d} : (Notify!Counting(e)' <=> Notify!Counting(e))
    BY <1>5, MessagesStay
  <2>3. ~Notify!Counting(d)'
    BY <1>6 DEF Notify!Counting
  <2>4. CASE Notify!Recipient(d) = "student"
    <3> SUFFICES ASSUME ~v14' PROVE Notify!CountsAreRight'
      BY DEF Notify!CountsAreRight
    <3>1. Notify!Counting(d) /\ ~v14
      BY <1>1, <1>6, <2>4 DEF Notify!Counting, Notify!Watcher
    <3>2. /\ v7 = None /\ v2[d].unread = Notify!Unread("student")
          /\ \A e \in Deliveries : Notify!Counting(e) => e = d
      BY <1>1, <3>1 DEF Notify!NotifyInv, Notify!CountsAreRight, Notify!Watcher
    <3>3. \A e \in Deliveries : ~Notify!Counting(e)'
      BY <2>2, <2>3, <3>2
    <3>4. v5' => v6' = Notify!Unread("student")'
      BY <1>1, <2>1, <2>4, <3>2
    <3> QED BY <1>1, <3>2, <3>3, <3>4 DEF Notify!CountsAreRight, Notify!Watcher
  <2>5. CASE Notify!Recipient(d) # "student"
    <3>1. \A e \in Deliveries : /\ Notify!Counting(e)' <=> Notify!Counting(e)
                                /\ Notify!Counting(e)' => v2'[e] = v2[e]
      BY <1>5, <2>2, <2>3, <2>5 DEF Notify!Counting, Notify!Watcher
    <3> QED BY <1>1, <2>1, <2>5, <3>1, CountsSame DEF Notify!NotifyInv
  <2> QED BY <2>4, <2>5
<1> QED BY <1>5, <1>8, <1>9, <1>10, <1>11, <1>12 DEF Notify!NotifyInv

\* What the watcher and the mails do touches no handler.
LEMMA NoHandlerMoves ==
    ASSUME Notify!NotifyInv, UNCHANGED <<v2, v9, v11, v12>>, v13 => v13',
           Notify!StateIsTyped', Notify!CountsAreRight',
           \A u \in Notify!People : v4[u] # None => v4'[u] # None /\ (v13' \/ v4'[u] = v4[u]),
           DOMAIN v3' \subseteq DOMAIN v3,
           \A k \in DOMAIN v3' : /\ v3'[k].mail = "none" <=> v3[k].mail = "none"
                                 /\ v3'[k].shown = v3[k].shown
    PROVE  Notify!NotifyInv'
<1>1. Notify!MessagesAreTyped'
  BY DEF Notify!NotifyInv, Notify!MessagesAreTyped, Notify!WasPublished
<1>2. Notify!NamedAreToCome'
  BY NamedIdle DEF Notify!NotifyInv
<1>3. DOMAIN v3' \subseteq Deliveries \X Notify!People \X Nat
  BY DEF Notify!NotifyInv, Notify!StateIsTyped
<1>4. Notify!ForcedMailIsComing'
  <2>1. \A k \in DOMAIN v3' : Notify!Making(k) => Notify!Making(k)'
    BY MakingSame
  <2> QED BY <1>3, <2>1, ForcedSame DEF Notify!NotifyInv
<1>5. Notify!PreferencesAreFollowed'
  <2>1. \A e \in Deliveries : v2[e].mails => Notify!Recipient(e) \in Notify!People
    BY RecipientIsSomebody DEF Notify!NotifyInv
  <2> QED BY <1>3, <2>1, FollowedSame DEF Notify!NotifyInv
<1> QED BY <1>1, <1>2, <1>4, <1>5 DEF Notify!NotifyInv

\* The type of a state whose rows are the same.
LEMMA NoRowMoves ==
    ASSUME Notify!NotifyInv, v3' = v3 PROVE v3' \in [DOMAIN v3' -> Notify!Note]
BY DEF Notify!NotifyInv, Notify!StateIsTyped

\* One field of one row is changed.
LEMMA NoteChanged ==
    ASSUME Notify!NotifyInv, NEW k \in DOMAIN v3, NEW read \in BOOLEAN,
           NEW mail \in {"none", "due", "tried", "noAddress"},
           v3' = [v3 EXCEPT ![k] = [@ EXCEPT !.read = read, !.mail = mail]]
    PROVE  /\ DOMAIN v3' = DOMAIN v3 /\ v3' \in [DOMAIN v3' -> Notify!Note]
           /\ v3'[k].read = read /\ v3'[k].mail = mail /\ v3'[k].shown = v3[k].shown
           /\ \A x \in DOMAIN v3 \ {k} : v3'[x] = v3[x]
<1>1. v3 \in [DOMAIN v3 -> Notify!Note]
  BY DEF Notify!NotifyInv, Notify!StateIsTyped
<1>2. v3[k] \in Notify!Note
  BY <1>1
<1> DEFINE row == [v3[k] EXCEPT !.read = read, !.mail = mail]
<1>3. row \in Notify!Note /\ row.read = read /\ row.mail = mail /\ row.shown = v3[k].shown
  BY <1>2 DEF Notify!Note
<1>4. v3' = [v3 EXCEPT ![k] = row]
  BY <1>1
<1> HIDE DEF row
<1> QED BY <1>1, <1>3, <1>4

LEMMA MailKeeps ==
    ASSUME Notify!NotifyInv, NEW k \in DOMAIN v3, Notify!Mail(k)
    PROVE  Notify!NotifyInv'
<1>1. /\ UNCHANGED <<v2, v4, v5, v6, v7, v9, v11, v12, v13, v14>>
      /\ v3[k].mail = "due"
      /\ \E mail \in {"tried", "noAddress"} : v3' = [v3 EXCEPT ![k].mail = mail]
  BY DEF Notify!Mail, Notify!Mailed
<1>2. PICK mail \in {"tried", "noAddress"} : v3' = [v3 EXCEPT ![k].mail = mail]
  BY <1>1
<1>3. v3[k] \in Notify!Note /\ v3 \in [DOMAIN v3 -> Notify!Note]
  BY DEF Notify!NotifyInv, Notify!StateIsTyped
<1> DEFINE read == v3[k].read
<1>4. v3' = [v3 EXCEPT ![k] = [@ EXCEPT !.read = read, !.mail = mail]]
  <2>1. [v3[k] EXCEPT !.mail = mail] = [v3[k] EXCEPT !.read = read, !.mail = mail]
    BY <1>3 DEF Notify!Note
  <2> QED BY <1>2, <1>3, <2>1
<1>5. read \in BOOLEAN /\ mail \in {"none", "due", "tried", "noAddress"} /\ read = v3[k].read
  BY <1>3 DEF Notify!Note
<1> HIDE DEF read
<1>6. /\ DOMAIN v3' = DOMAIN v3 /\ v3' \in [DOMAIN v3' -> Notify!Note]
      /\ v3'[k].read = read /\ v3'[k].mail = mail /\ v3'[k].shown = v3[k].shown
      /\ \A x \in DOMAIN v3 \ {k} : v3'[x] = v3[x]
  BY <1>4, <1>5, NoteChanged
<1>7. Notify!StateIsTyped'
  BY <1>1, <1>6, RowsTyped DEF Notify!NotifyInv, Notify!StateIsTyped
<1>8. Notify!CountsAreRight'
  <2>1. Notify!Unread("student")' = Notify!Unread("student")
    BY <1>5, <1>6, UnreadSame
  <2> QED BY <1>1, <2>1, CountsSame, MessagesStay DEF Notify!NotifyInv
<1>9. \A x \in DOMAIN v3' : (v3'[x].mail = "none" <=> v3[x].mail = "none") /\ v3'[x].shown = v3[x].shown
  BY <1>1, <1>5, <1>6
<1> QED BY <1>1, <1>6, <1>7, <1>8, <1>9, NoHandlerMoves

\* A request of the watcher is something.
LEMMA RequestsAreSome ==
    /\ None \notin Notify!Running
    /\ \A op \in {"connect", "mark"} : [op |-> op, step |-> "count"] \in Notify!Running
    /\ \A op \in {"connect", "mark"}, n \in Nat :
         [op |-> op, step |-> "emit", unread |-> n] \in Notify!Running
    /\ \A found \in BOOLEAN :
         [op |-> "preferences", step |-> "save", found |-> found] \in Notify!Running
<1>1. None \notin Notify!Running
  BY ServicesAssumption DEF Notify!NotificationsAssumption
<1>2. \A op \in {"connect", "mark"} : [op |-> op, step |-> "count"] \in Notify!Running
  BY DEF Notify!Running
<1>3. \A op \in {"connect", "mark"}, n \in Nat :
         [op |-> op, step |-> "emit", unread |-> n] \in Notify!Running
  BY DEF Notify!Running
<1>4. \A found \in BOOLEAN :
         [op |-> "preferences", step |-> "save", found |-> found] \in Notify!Running
  BY DEF Notify!Running
<1> QED BY <1>1, <1>2, <1>3, <1>4

LEMMA ConnectKeeps == ASSUME Notify!NotifyInv, Notify!Connect PROVE Notify!NotifyInv'
<1> DEFINE called == [op |-> "connect", step |-> "count"]
<1>1. /\ v7' = called /\ v5' = TRUE /\ v14' = (v14 \/ Notify!Busy)
      /\ UNCHANGED <<v2, v3, v4, v6, v9, v11, v12, v13>>
  BY DEF Notify!Connect, Notify!Blurs
<1>2. called \in Notify!Running /\ called # None /\ called.step = "count" /\ called.op = "connect"
  BY RequestsAreSome
<1> HIDE DEF called
<1>3. v3' \in [DOMAIN v3' -> Notify!Note]
  BY <1>1, NoRowMoves
<1>4. Notify!StateIsTyped'
  BY <1>1, <1>2, <1>3, RowsTyped DEF Notify!NotifyInv, Notify!StateIsTyped
<1>5. Notify!CountsAreRight'
  BY <1>1, <1>2, CountsCalled DEF Notify!NotifyInv
<1> QED BY <1>1, <1>4, <1>5, NoHandlerMoves

LEMMA DisconnectKeeps == ASSUME Notify!NotifyInv, Notify!Disconnect PROVE Notify!NotifyInv'
<1>1. v5' = FALSE /\ v6' = 0 /\ UNCHANGED <<v2, v3, v4, v7, v9, v11, v12, v13, v14>>
  BY DEF Notify!Disconnect
<1>2. v3' \in [DOMAIN v3' -> Notify!Note]
  BY <1>1, NoRowMoves
<1>3. Notify!StateIsTyped'
  BY <1>1, <1>2, RowsTyped DEF Notify!NotifyInv, Notify!StateIsTyped
<1>4. Notify!CountsAreRight'
  BY <1>1, CountsSame, MessagesStay, UnreadSame DEF Notify!NotifyInv
<1> QED BY <1>1, <1>3, <1>4, NoHandlerMoves

\* What follows a row that was marked.
LEMMA MarkedKeeps ==
    ASSUME Notify!NotifyInv, v7' = Notify!Marked, v14' = (v14 \/ Notify!Busy),
           UNCHANGED <<v2, v4, v5, v6, v9, v11, v12, v13>>,
           DOMAIN v3' = DOMAIN v3, v3' \in [DOMAIN v3' -> Notify!Note],
           \A k \in DOMAIN v3 : v3'[k].mail = v3[k].mail /\ v3'[k].shown = v3[k].shown
    PROVE  Notify!NotifyInv'
<1>1. /\ Notify!Marked \in Notify!Running /\ Notify!Marked # None
      /\ Notify!Marked.step = "count" /\ Notify!Marked.op = "mark"
  BY RequestsAreSome DEF Notify!Marked
<1>2. Notify!StateIsTyped'
  BY <1>1, RowsTyped DEF Notify!NotifyInv, Notify!StateIsTyped
<1>3. Notify!CountsAreRight'
  BY <1>1, CountsCalled DEF Notify!NotifyInv
<1> QED BY <1>2, <1>3, NoHandlerMoves

LEMMA MarkAsReadKeeps ==
    ASSUME Notify!NotifyInv, NEW k \in DOMAIN v3, Notify!MarkAsRead(k)
    PROVE  Notify!NotifyInv'
<1>1. /\ v7' = Notify!Marked /\ v14' = (v14 \/ Notify!Busy)
      /\ UNCHANGED <<v2, v4, v5, v6, v9, v11, v12, v13>>
      /\ v3' = [v3 EXCEPT ![k].read = TRUE]
  BY DEF Notify!MarkAsRead, Notify!Blurs
<1>2. v3[k] \in Notify!Note /\ v3 \in [DOMAIN v3 -> Notify!Note]
  BY DEF Notify!NotifyInv, Notify!StateIsTyped
<1> DEFINE mail == v3[k].mail
           read == TRUE
<1>3. v3' = [v3 EXCEPT ![k] = [@ EXCEPT !.read = read, !.mail = mail]]
  <2>1. [v3[k] EXCEPT !.read = TRUE] = [v3[k] EXCEPT !.read = read, !.mail = mail]
    BY <1>2 DEF Notify!Note
  <2> QED BY <1>1, <1>2, <2>1
<1>4. read \in BOOLEAN /\ mail \in {"none", "due", "tried", "noAddress"} /\ mail = v3[k].mail
  BY <1>2 DEF Notify!Note
<1> HIDE DEF mail, read
<1>5. /\ DOMAIN v3' = DOMAIN v3 /\ v3' \in [DOMAIN v3' -> Notify!Note]
      /\ v3'[k].mail = mail /\ v3'[k].shown = v3[k].shown
      /\ \A x \in DOMAIN v3 \ {k} : v3'[x] = v3[x]
  BY <1>3, <1>4, NoteChanged
<1>6. \A x \in DOMAIN v3 : v3'[x].mail = v3[x].mail /\ v3'[x].shown = v3[x].shown
  BY <1>4, <1>5
<1> QED BY <1>1, <1>5, <1>6, MarkedKeeps

LEMMA MarkManyAsReadKeeps ==
    ASSUME Notify!NotifyInv, Notify!MarkManyAsRead PROVE Notify!NotifyInv'
<1>1. /\ v7' = Notify!Marked /\ v14' = (v14 \/ Notify!Busy)
      /\ UNCHANGED <<v2, v4, v5, v6, v9, v11, v12, v13>>
      /\ v3' = [k \in DOMAIN v3 |->
                  IF k \in Notify!Mine THEN [v3[k] EXCEPT !.read = TRUE] ELSE v3[k]]
  BY DEF Notify!MarkManyAsRead, Notify!Blurs
<1>2. \A k \in DOMAIN v3 : v3[k] \in Notify!Note
  BY DEF Notify!NotifyInv, Notify!StateIsTyped
<1>3. DOMAIN v3' = DOMAIN v3 /\ v3' = [k \in DOMAIN v3' |-> v3'[k]]
  BY <1>1
<1>4. ASSUME NEW k \in DOMAIN v3
      PROVE  v3'[k] \in Notify!Note /\ v3'[k].mail = v3[k].mail /\ v3'[k].shown = v3[k].shown
  <2>1. /\ [v3[k] EXCEPT !.read = TRUE] \in Notify!Note
        /\ [v3[k] EXCEPT !.read = TRUE].mail = v3[k].mail
        /\ [v3[k] EXCEPT !.read = TRUE].shown = v3[k].shown
    BY <1>2, <1>4 DEF Notify!Note
  <2> QED BY <1>1, <1>2, <1>4, <2>1
<1>5. v3' \in [DOMAIN v3' -> Notify!Note]
  BY <1>3, <1>4
<1> QED BY <1>1, <1>3, <1>4, <1>5, MarkedKeeps

LEMMA CallCountKeeps == ASSUME Notify!NotifyInv, Notify!CallCount PROVE Notify!NotifyInv'
<1> DEFINE counted == [op |-> v7.op, step |-> "emit", unread |-> Notify!Unread("student")]
<1>1. /\ v7 # None /\ v7.step = "count" /\ v7' = counted
      /\ UNCHANGED <<v2, v3, v4, v5, v6, v9, v11, v12, v13, v14>>
  BY DEF Notify!CallCount, Notify!Watcher
<1>2. v7 \in Notify!Running
  BY <1>1 DEF Notify!NotifyInv, Notify!StateIsTyped
<1>3. v7.op \in {"connect", "mark"}
  BY <1>1, <1>2 DEF Notify!Running
<1>4. Notify!Unread("student") \in Nat
  BY UnreadIsNat DEF Notify!NotifyInv
<1>5. /\ counted \in Notify!Running /\ counted # None /\ counted.step = "emit"
      /\ counted.op # "preferences" /\ counted.unread = Notify!Unread("student")
  BY <1>3, <1>4, RequestsAreSome
<1> HIDE DEF counted
<1>6. v3' \in [DOMAIN v3' -> Notify!Note]
  BY <1>1, NoRowMoves
<1>7. Notify!StateIsTyped'
  BY <1>1, <1>5, <1>6, RowsTyped DEF Notify!NotifyInv, Notify!StateIsTyped
<1>8. Notify!CountsAreRight'
  <2> SUFFICES ASSUME ~v14' PROVE Notify!CountsAreRight'
    BY DEF Notify!CountsAreRight
  <2>1. \A e \in Deliveries : ~Notify!Counting(e)
    BY <1>1 DEF Notify!NotifyInv, Notify!CountsAreRight
  <2>2. \A e \in Deliveries : ~Notify!Counting(e)'
    BY <1>1, <2>1, MessagesStay
  <2>3. Notify!Unread("student")' = Notify!Unread("student")
    BY <1>1, UnreadSame
  <2>4. Notify!Busy'
    BY <1>1, <1>5 DEF Notify!Busy
  <2> QED BY <1>1, <1>5, <2>2, <2>3, <2>4 DEF Notify!CountsAreRight, Notify!Watcher
<1> QED BY <1>1, <1>7, <1>8, NoHandlerMoves

\* The request of the watcher returns, and his browser is right.
LEMMA CountsReturned ==
    ASSUME Notify!CountsAreRight, v2' = v2, v14 => v14', v7 # None, v7' = None,
           v5' /\ ~v14' => v6' = Notify!Unread("student")'
    PROVE  Notify!CountsAreRight'
<1> SUFFICES ASSUME ~v14' PROVE Notify!CountsAreRight'
  BY DEF Notify!CountsAreRight
<1>1. \A e \in Deliveries : ~Notify!Counting(e)
  BY DEF Notify!CountsAreRight
<1>2. \A e \in Deliveries : ~Notify!Counting(e)'
  BY <1>1, MessagesStay
<1> QED BY <1>2 DEF Notify!CountsAreRight, Notify!Watcher

LEMMA CallEmitKeeps == ASSUME Notify!NotifyInv, Notify!CallEmit PROVE Notify!NotifyInv'
<1>1. /\ v7 # None /\ v7.step = "emit" /\ v7' = None /\ v6' = IF v5 THEN v7.unread ELSE v6
      /\ UNCHANGED <<v2, v3, v4, v5, v9, v11, v12, v13, v14>>
  BY DEF Notify!CallEmit, Notify!Emits, Notify!Watcher
<1>2. v7 \in Notify!Running
  BY <1>1 DEF Notify!NotifyInv, Notify!StateIsTyped
<1>3. v7.unread \in Nat
  BY <1>1, <1>2 DEF Notify!Running
<1>4. v3' \in [DOMAIN v3' -> Notify!Note]
  BY <1>1, NoRowMoves
<1>5. Notify!StateIsTyped'
  BY <1>1, <1>3, <1>4, RowsTyped DEF Notify!NotifyInv, Notify!StateIsTyped
<1>6. Notify!CountsAreRight'
  <2>1. Notify!Unread("student")' = Notify!Unread("student")
    BY <1>1, UnreadSame
  <2>2. ~v14 => v7.unread = Notify!Unread("student")
    BY <1>1 DEF Notify!NotifyInv, Notify!CountsAreRight, Notify!Watcher
  <2> QED BY <1>1, <2>1, <2>2, CountsReturned DEF Notify!NotifyInv
<1> QED BY <1>1, <1>5, <1>6, NoHandlerMoves

LEMMA DeleteNotificationKeeps ==
    ASSUME Notify!NotifyInv, NEW k \in DOMAIN v3, Notify!DeleteNotification(k)
    PROVE  Notify!NotifyInv'
<1>1. /\ v3' = [x \in DOMAIN v3 \ {k} |-> v3[x]] /\ v14' = (v14 \/ Notify!Busy \/ ~v3[k].read)
      /\ UNCHANGED <<v2, v4, v5, v6, v7, v9, v11, v12, v13>>
  BY DEF Notify!DeleteNotification
<1>2. DOMAIN v3' = DOMAIN v3 \ {k} /\ \A x \in DOMAIN v3' : v3'[x] = v3[x]
  BY <1>1
<1>3. Notify!StateIsTyped'
  <2>1. IsFiniteSet(DOMAIN v3')
    BY <1>2, FS_Subset, NotesCount DEF Notify!NotifyInv, Notify!StateIsTyped
  <2>2. Notify!IsFiniteSet(DOMAIN v3)'
    BY <2>1, NotesCount
  <2>3. v3' \in [DOMAIN v3' -> Notify!Note]
    BY <1>1 DEF Notify!NotifyInv, Notify!StateIsTyped
  <2>4. v14' \in BOOLEAN
    BY <1>1 DEF Notify!NotifyInv, Notify!StateIsTyped
  <2> QED BY <1>1, <1>2, <2>2, <2>3, <2>4 DEF Notify!NotifyInv, Notify!StateIsTyped
<1>4. Notify!CountsAreRight'
  <2>1. CASE v14'
    BY <2>1 DEF Notify!CountsAreRight
  <2>2. CASE ~v14'
    <3>1. {x \in DOMAIN v3' : x[2] = "student" /\ ~v3'[x].read}
            = {x \in DOMAIN v3 : x[2] = "student" /\ ~v3[x].read}
      BY <1>1, <1>2, <2>2
    <3>2. Notify!Unread("student")' = Notify!Unread("student")
      BY <3>1, NotesCount DEF Notify!Unread
    <3> QED BY <1>1, <3>2, CountsSame, MessagesStay DEF Notify!NotifyInv
  <2> QED BY <2>1, <2>2
<1> QED BY <1>1, <1>2, <1>3, <1>4, NoHandlerMoves

LEMMA PreferencesLoadKeeps ==
    ASSUME Notify!NotifyInv, Notify!PreferencesLoad PROVE Notify!NotifyInv'
<1> DEFINE found == v4["student"] # None
           loaded == [op |-> "preferences", step |-> "save", found |-> found]
<1>1. /\ v7' = loaded /\ v14' = (v14 \/ Notify!Busy)
      /\ UNCHANGED <<v2, v3, v4, v5, v6, v9, v11, v12, v13>>
  BY DEF Notify!PreferencesLoad, Notify!Blurs, Notify!Watcher
<1>2. loaded \in Notify!Running /\ loaded # None /\ loaded.step = "save"
  <2>1. found \in BOOLEAN
    OBVIOUS
  <2> HIDE DEF found
  <2> QED BY <2>1, RequestsAreSome
<1> HIDE DEF loaded
<1>3. v3' \in [DOMAIN v3' -> Notify!Note]
  BY <1>1, NoRowMoves
<1>4. Notify!StateIsTyped'
  BY <1>1, <1>2, <1>3, RowsTyped DEF Notify!NotifyInv, Notify!StateIsTyped
<1>5. Notify!CountsAreRight'
  BY <1>1, <1>2, CountsCalled DEF Notify!NotifyInv
<1> QED BY <1>1, <1>4, <1>5, NoHandlerMoves

LEMMA PreferencesSaveKeeps ==
    ASSUME Notify!NotifyInv, Notify!PreferencesSave PROVE Notify!NotifyInv'
<1>1. /\ v7 # None /\ v7.step = "save" /\ v7' = None
      /\ UNCHANGED <<v2, v3, v5, v6, v9, v11, v12, v14>>
      /\ \/ /\ \E p \in {Notify!Switches, Notify!Switches \ {"emailEnabled"}} :
                    v4' = [v4 EXCEPT !["student"] = p]
            /\ v13' = TRUE
         \/ v4' = v4 /\ v13' = v13
  BY DEF Notify!PreferencesSave, Notify!Watcher
<1>2. v7 \in Notify!Running
  BY <1>1 DEF Notify!NotifyInv, Notify!StateIsTyped
<1>3. v7.op = "preferences"
  BY <1>1, <1>2 DEF Notify!Running
<1>4. v4 \in [Notify!People -> (SUBSET Notify!Switches) \cup {None}] /\ v13 \in BOOLEAN
  BY DEF Notify!NotifyInv, Notify!StateIsTyped
<1>5. Notify!Switches # None /\ Notify!Switches \ {"emailEnabled"} # None
  <2>1. Notify!Switches \ {"emailEnabled"} \in SUBSET Notify!Switches
    OBVIOUS
  <2> QED BY <2>1, ServicesAssumption DEF Notify!NotificationsAssumption
<1>6. /\ v4' \in [Notify!People -> (SUBSET Notify!Switches) \cup {None}] /\ v13' \in BOOLEAN
      /\ v13 => v13'
      /\ \A u \in Notify!People : v4[u] # None => v4'[u] # None /\ (v13' \/ v4'[u] = v4[u])
  <2>1. ASSUME NEW p \in {Notify!Switches, Notify!Switches \ {"emailEnabled"}},
               v4' = [v4 EXCEPT !["student"] = p], v13' = TRUE
        PROVE  /\ v4' \in [Notify!People -> (SUBSET Notify!Switches) \cup {None}]
               /\ \A u \in Notify!People : v4[u] # None => v4'[u] # None
    <3>1. p \in SUBSET Notify!Switches /\ p # None
      BY <1>5, <2>1
    <3> HIDE DEF Notify!Switches
    <3> QED BY <1>4, <2>1, <3>1
  <2> QED BY <1>1, <1>4, <2>1
<1>7. v3' \in [DOMAIN v3' -> Notify!Note]
  BY <1>1, NoRowMoves
<1>8. Notify!StateIsTyped'
  BY <1>1, <1>6, <1>7, RowsTyped DEF Notify!NotifyInv, Notify!StateIsTyped
<1>9. Notify!CountsAreRight'
  <2>1. Notify!Unread("student")' = Notify!Unread("student")
    BY <1>1, UnreadSame
  <2>2. v5 /\ ~v14 => v6 = Notify!Unread("student")
    BY <1>1, <1>3 DEF Notify!NotifyInv, Notify!CountsAreRight, Notify!Watcher
  <2> QED BY <1>1, <2>1, <2>2, CountsReturned DEF Notify!NotifyInv
<1> QED BY <1>1, <1>6, <1>8, <1>9, NoHandlerMoves

LEMMA RestartKeeps == ASSUME Notify!NotifyInv, Notify!Restart PROVE Notify!NotifyInv'
<1>1. /\ v9' = v9 + 1 /\ v7' = None /\ v5' = FALSE /\ v6' = 0
      /\ UNCHANGED <<v4, v11, v12, v13, v14>>
      /\ v2' = [d \in Deliveries |->
                  IF v2[d].status = "handling"
                  THEN [Notify!Message(v2[d].event, v2[d].has, "queued")
                          EXCEPT !.attempt = v2[d].attempt + 1]
                  ELSE v2[d]]
      /\ v3' = [k \in DOMAIN v3 |->
                  IF v3[k].mail = "due" THEN [v3[k] EXCEPT !.mail = "none"] ELSE v3[k]]
  BY DEF Notify!Restart
<1>2. v9' \in Nat /\ v9' # 0
  BY <1>1 DEF Notify!NotifyInv, Notify!StateIsTyped
<1>3. ASSUME NEW d \in Deliveries, v2[d].status = "handling"
      PROVE  /\ v2'[d] \in Notify!Messages /\ v2'[d].event = v2[d].event /\ v2'[d].has = v2[d].has
             /\ v2'[d].status = "queued" /\ v2'[d].left = <<>> /\ v2'[d].step = "insert"
             /\ v2'[d].mails = FALSE
  <2> DEFINE m == [Notify!Message(v2[d].event, v2[d].has, "queued")
                     EXCEPT !.attempt = v2[d].attempt + 1]
  <2>1. v2[d] \in Notify!Messages
    BY DEF Notify!NotifyInv, Notify!MessagesAreTyped
  <2>2. /\ v2[d].event \in {"none"} \cup {p.event : p \in Notify!Publications}
        /\ v2[d].has \in SUBSET UNION {p.has \cup p.may : p \in Notify!Publications}
        /\ v2[d].attempt + 1 \in Nat
    BY <2>1 DEF Notify!Messages
  <2>3. <<>> \in Seq(Notify!People)
    OBVIOUS
  <2>4. /\ m.event = v2[d].event /\ m.has = v2[d].has /\ m.status = "queued" /\ m.left = <<>>
        /\ m.step = "insert" /\ m.mails = FALSE
    BY DEF Notify!Message
  <2>5. m \in Notify!Messages
    BY <2>2, <2>3 DEF Notify!Message, Notify!Messages
  <2>6. v2'[d] = m
    BY <1>1, <1>3
  <2> HIDE DEF m
  <2> QED BY <2>4, <2>5, <2>6
<1>4. \A d \in Deliveries : v2[d].status # "handling" => v2'[d] = v2[d]
  BY <1>1
<1>5. ASSUME NEW d \in Deliveries
      PROVE  /\ v2'[d].event = v2[d].event /\ v2'[d].has = v2[d].has
             /\ v2'[d].step = "insert" /\ ~v2'[d].mails
             /\ v2'[d].status # "queued" => v2'[d] = v2[d]
  <2>1. CASE v2[d].status = "handling"
    BY <1>3, <2>1
  <2>2. CASE v2[d].status # "handling"
    BY <1>4, <2>2 DEF Notify!NotifyInv, Notify!MessagesAreTyped
  <2> QED BY <2>1, <2>2
<1>6. \A k \in DOMAIN v3 : v3[k] \in Notify!Note
  BY DEF Notify!NotifyInv, Notify!StateIsTyped
<1>7. ASSUME NEW k \in DOMAIN v3
      PROVE  /\ v3'[k] \in Notify!Note /\ v3'[k].read = v3[k].read /\ v3'[k].shown = v3[k].shown
             /\ v3'[k].mail # "none" => v3[k].mail # "none"
  <2>1. /\ [v3[k] EXCEPT !.mail = "none"] \in Notify!Note
        /\ [v3[k] EXCEPT !.mail = "none"].read = v3[k].read
        /\ [v3[k] EXCEPT !.mail = "none"].shown = v3[k].shown
        /\ [v3[k] EXCEPT !.mail = "none"].mail = "none"
    BY <1>6, <1>7 DEF Notify!Note
  <2> QED BY <1>1, <1>6, <1>7, <2>1
<1>8. DOMAIN v3' = DOMAIN v3 /\ v3' = [k \in DOMAIN v3' |-> v3'[k]]
  BY <1>1
<1>9. v3' \in [DOMAIN v3' -> Notify!Note] /\ DOMAIN v3' \subseteq Deliveries \X Notify!People \X Nat
  BY <1>7, <1>8 DEF Notify!NotifyInv, Notify!StateIsTyped
<1>10. Notify!MessagesAreTyped'
  <2>1. ASSUME NEW d \in Deliveries
        PROVE  /\ v2'[d] \in Notify!Messages
               /\ v2'[d].event = "none" \/ Notify!WasPublished(v2'[d])
               /\ v2'[d].status # "acked" => v2'[d].event # "none"
               /\ v2'[d].status = "handling" <=> v2'[d].left # <<>>
    <3>1. CASE v2[d].status = "handling"
      <4>1. v2[d].event # "none" /\ Notify!WasPublished(v2[d])
        BY <3>1 DEF Notify!NotifyInv, Notify!MessagesAreTyped
      <4> QED BY <1>3, <3>1, <4>1 DEF Notify!WasPublished
    <3>2. CASE v2[d].status # "handling"
      BY <1>4, <3>2 DEF Notify!NotifyInv, Notify!MessagesAreTyped
    <3> QED BY <3>1, <3>2
  <2>2. v2' = [d \in Deliveries |-> v2'[d]]
    BY <1>1
  <2>3. v2' \in [Deliveries -> Notify!Messages]
    BY <2>1, <2>2
  <2> QED BY <1>5, <2>1, <2>3 DEF Notify!MessagesAreTyped, Notify!WasPublished
<1>11. Notify!StateIsTyped'
  BY <1>1, <1>2, <1>8, <1>9, RowsTyped DEF Notify!NotifyInv, Notify!StateIsTyped
<1>12. \A d \in Deliveries : ~Notify!Started(d)' /\ ~Notify!Counting(d)'
  BY <1>5 DEF Notify!Started, Notify!Counting
<1>13. Notify!NamedAreToCome'
  <2> SUFFICES ASSUME NEW d \in Deliveries, v2'[d].status # "queued", v2'[d].event # "none",
                      Notify!Fed(d)', NEW i \in DOMAIN Notify!Named(d)'
               PROVE  \/ <<d, Notify!Named(d)'[i]>> \in v11' \cup v12'
                      \/ \E j \in DOMAIN v2'[d].left : v2'[d].left[j] = Notify!Named(d)'[i]
                      \/ v2'[d].event \in Notify!OneTry /\ \E u \in Notify!People : <<d, u>> \in v12'
    BY <1>12 DEF Notify!NamedAreToCome, Notify!OneTry
  <2>1. v2'[d] = v2[d]
    BY <1>5
  <2>2. Notify!Fed(d)' = Notify!Fed(d) /\ Notify!Named(d)' = Notify!Named(d)
    BY <2>1, SameEvent
  <2> QED BY <1>1, <2>1, <2>2 DEF Notify!NotifyInv, Notify!NamedAreToCome
<1>14. Notify!ForcedMailIsComing'
  BY <1>2, <1>5 DEF Notify!ForcedMailIsComing
<1>15. Notify!PreferencesAreFollowed'
  <2>1. \A k \in DOMAIN v3' : /\ v3'[k].mail = "none" \/ (k \in DOMAIN v3 /\ v3[k].mail # "none")
                              /\ ~v3'[k].shown \/ (k \in DOMAIN v3 /\ v3[k].shown)
    BY <1>7, <1>8
  <2> QED BY <1>1, <1>5, <1>9, <2>1, FollowedSame DEF Notify!NotifyInv
<1>16. Notify!CountsAreRight'
  BY <1>1, <1>12 DEF Notify!CountsAreRight
<1> QED BY <1>10, <1>11, <1>13, <1>14, <1>15, <1>16 DEF Notify!NotifyInv

LEMMA NotifyStep == ASSUME Notify!NotifyInv, Notify!Next PROVE Notify!NotifyInv'
<1>1. ASSUME NEW d \in Deliveries, Notify!Handling(d) PROVE Notify!NotifyInv'
  BY <1>1, TakeKeeps, TakeFailsKeeps, InsertKeeps, InsertFailsKeeps, LookKeeps, MakeKeeps,
     StopsShortKeeps, CountKeeps, EmitKeeps DEF Notify!Handling
<1>2. ASSUME NEW k \in DOMAIN v3, Notify!Mail(k) PROVE Notify!NotifyInv'
  BY <1>2, MailKeeps
<1>3. ASSUME Notify!Watching PROVE Notify!NotifyInv'
  <2>1. ASSUME NEW k \in Notify!Mine, Notify!MarkAsRead(k) \/ Notify!DeleteNotification(k)
        PROVE  Notify!NotifyInv'
    <3>1. k \in DOMAIN v3
      BY DEF Notify!Mine
    <3> QED BY <2>1, <3>1, MarkAsReadKeeps, DeleteNotificationKeeps
  <2> QED BY <1>3, <2>1, ConnectKeeps, DisconnectKeeps, MarkManyAsReadKeeps, CallCountKeeps,
          CallEmitKeeps, PreferencesLoadKeeps, PreferencesSaveKeeps DEF Notify!Watching
<1> QED BY <1>1, <1>2, <1>3, RestartKeeps DEF Notify!Next

LEMMA NotifyStutter == ASSUME Notify!NotifyInv, UNCHANGED Notify!vars PROVE Notify!NotifyInv'
<1>1. UNCHANGED <<v2, v3, v4, v5, v6, v7, v9, v11, v12, v13, v14>>
  BY DEF Notify!vars
<1>2. v3' \in [DOMAIN v3' -> Notify!Note]
  BY <1>1, NoRowMoves
<1>3. Notify!StateIsTyped'
  BY <1>1, <1>2, RowsTyped DEF Notify!NotifyInv, Notify!StateIsTyped
<1>4. Notify!CountsAreRight'
  BY <1>1, CountsSame, MessagesStay, UnreadSame DEF Notify!NotifyInv
<1> QED BY <1>1, <1>3, <1>4, NoHandlerMoves

\* What the invariant says of the states in which a message is acknowledged.
LEMMA EverybodyNamedIsTold == Notify!NotifyInv => Notify!TheOthersAreTold
<1> SUFFICES ASSUME Notify!NotifyInv, NEW d \in Deliveries,
                    v2[d].status = "acked", v2[d].event # "none", Notify!Fed(d),
                    NEW i \in DOMAIN Notify!Named(d)
             PROVE  \/ <<d, Notify!Named(d)[i]>> \in v11 \cup v12
                    \/ v2[d].event \in Notify!OneTry /\ \E u \in Notify!People : <<d, u>> \in v12
  BY DEF Notify!TheOthersAreTold
<1>1. v2[d].left = <<>>
  BY DEF Notify!NotifyInv, Notify!MessagesAreTyped
<1>2. DOMAIN v2[d].left = {}
  BY <1>1
<1> QED BY <1>2 DEF Notify!NotifyInv, Notify!NamedAreToCome

LEMMA SomebodyHears == Notify!NotifyInv => Notify!SomebodyIsTold
<1> SUFFICES ASSUME Notify!NotifyInv, NEW d \in Deliveries, v2[d].status = "acked", ~Notify!Unfed(d)
             PROVE  \E u \in Notify!People : <<d, u>> \in v11 \cup v12
  BY DEF Notify!SomebodyIsTold
<1>1. v2[d].event # "none"
  BY DEF Notify!Unfed
<1>2. PICK p \in Notify!Publications :
        v2[d].event = p.event /\ p.has \subseteq v2[d].has /\ v2[d].has \subseteq p.has \cup p.may
  BY <1>1 DEF Notify!NotifyInv, Notify!MessagesAreTyped, Notify!WasPublished
<1>3. Notify!Handler(d) \in Notify!Handlers /\ Notify!Handler(d).event = p.event
  BY <1>1, <1>2, ItsHandler DEF Notify!NotifyInv
<1>4. /\ Notify!Handler(d).needs \subseteq Notify!Fields(d)
      /\ Notify!Recipients(Notify!Handler(d), Notify!Fields(d)) # <<>>
  <2> DEFINE has == v2[d].has
             fields == Notify!Fields(d)
             h == Notify!Handler(d)
  <2>1. /\ p.has \subseteq has /\ has \subseteq p.has \cup p.may
        /\ fields = has \cup {"admins"} /\ h \in Notify!Handlers /\ h.event = p.event
    BY <1>2, <1>3 DEF Notify!Fields
  <2>2. /\ p.event \notin {"matching.score.calculated", "deliverable.submitted"}
        /\ p.event = "application.status.changed" => "companyUserId" \in has
        /\ p.event \in {"chat.message.sent", "academic.progress.near_completion",
                       "academic.anteproyecto.submitted", "academic.anteproyecto.revised"}
             => has \cap {"recipientIds", "asesorUserId", "juradoUserIds"} # {}
    BY <1>2 DEF Notify!Unfed
  <2> HIDE DEF has, fields, h
  <2>3. h.needs \subseteq fields /\ Notify!Recipients(h, fields) # <<>>
    BY <2>1, <2>2, PublicationsReach
  <2> QED BY <2>3 DEF fields, h
<1>5. Notify!Fed(d) /\ Notify!Named(d) # <<>> /\ Notify!Named(d) \in Seq(Notify!People)
  BY <1>4, NamedArePeople DEF Notify!Fed, Notify!Named
<1>6. 1 \in DOMAIN Notify!Named(d) /\ Notify!Named(d)[1] \in Notify!People
  BY <1>5
<1>7. \/ <<d, Notify!Named(d)[1]>> \in v11 \cup v12
      \/ \E u \in Notify!People : <<d, u>> \in v12
  BY <1>1, <1>5, <1>6, EverybodyNamedIsTold DEF Notify!TheOthersAreTold
<1> QED BY <1>6, <1>7

LEMMA NotifyHolds ==
    ASSUME Notify!NotifyInv
    PROVE  /\ Notify!TypeOK /\ Notify!TheOthersAreTold /\ Notify!SomebodyIsTold
           /\ Notify!MandatoryMailIsTried /\ Notify!PreferencesAreKept /\ Notify!BadgeIsCurrent
<1>1. Notify!TypeOK
  <2>1. \A d \in Deliveries : v2[d] \in Notify!Messages
    BY DEF Notify!NotifyInv, Notify!MessagesAreTyped
  <2>2. /\ \A k \in DOMAIN v3 : k \in Deliveries \X Notify!People \X Nat /\ v3[k] \in Notify!Note
        /\ \A u \in Notify!People : v4[u] # None => v4[u] \subseteq Notify!Switches
        /\ v5 \in BOOLEAN /\ v6 \in Nat
    BY DEF Notify!NotifyInv, Notify!StateIsTyped
  <2> QED BY <2>1, <2>2 DEF Notify!TypeOK, Notify!Messages
<1>2. Notify!MandatoryMailIsTried
  <2> SUFFICES ASSUME NEW k \in DOMAIN v3, v2[k[1]].status = "acked", v9 = 0, <<k[1], k[2]>> \notin v12,
                      v2[k[1]].event \in Notify!Mandated
               PROVE  v3[k].mail # "none"
    BY DEF Notify!MandatoryMailIsTried
  <2>1. k[1] \in Deliveries /\ v2[k[1]].event # "none"
    BY DEF Notify!NotifyInv, Notify!StateIsTyped, Notify!Mandated
  <2>2. Notify!Handler(k[1]).forced
    BY <2>1, ItsHandler, HandlersRead DEF Notify!NotifyInv
  <2>3. ~Notify!Making(k)
    BY DEF Notify!Making, Notify!Started
  <2> QED BY <2>2, <2>3 DEF Notify!NotifyInv, Notify!ForcedMailIsComing
<1>3. Notify!PreferencesAreKept
  <2> SUFFICES ASSUME NEW k \in DOMAIN v3, ~v13, v4[k[2]] # None,
                      NEW h, h = Notify!Handler(k[1]),
                      NEW off,
                      off = (v4[k[2]] = Notify!Switches \ {"projectUpdates", "evaluationAlerts"})
               PROVE  /\ (~h.forced /\ v3[k].mail # "none" =>
                            "emailEnabled" \in v4[k[2]]
                            /\ ~(off /\ h.category \in {"projectUpdates", "evaluationAlerts"}))
                      /\ (v3[k].shown => "inAppEnabled" \in v4[k[2]]
                            /\ ~(off /\ h.category \in {"projectUpdates", "evaluationAlerts"}))
    BY DEF Notify!PreferencesAreKept
  <2>1. /\ v3[k].mail # "none" => Notify!MailAllowed(k[1], v4[k[2]])
        /\ v3[k].shown => Notify!PushAllowed(k[1], v4[k[2]])
    BY DEF Notify!NotifyInv, Notify!PreferencesAreFollowed
  <2> QED BY <2>1 DEF Notify!MailAllowed, Notify!PushAllowed, Notify!Mails, Notify!Wanted
<1>4. Notify!BadgeIsCurrent
  BY DEF Notify!NotifyInv, Notify!CountsAreRight, Notify!BadgeIsCurrent, Notify!Watcher
<1> QED BY <1>1, <1>2, <1>3, <1>4, EverybodyNamedIsTold, SomebodyHears
(***************************************************************************)
(* FollowUp: v1 kind, v2 application, v3 rows, v4 call, v5 uploads,         *)
(* v6 restarts, v7 seen, v8 answered, v9 disturbed, v10 slipped              *)
(***************************************************************************)
LEMMA FollowUpCount == \A S : FollowUp!Cardinality(S) = Cardinality(S)
BY DEF FollowUp!Cardinality, Cardinality

\* A status of a row is none of those of another kind, and no operation is one of the
\* requests that load nothing.
LEMMA KindsDiffer ==
    ASSUME NEW k \in {"interview", "deliverable", "selection"}
    PROVE  /\ "none" \notin FollowUp!StatusOf[k]
           /\ {"none", "schedule", "move", "again"} \cap FollowUp!OpsOf[k] = {}
           /\ k = "interview" => /\ "approved" \notin FollowUp!StatusOf[k]
                                 /\ FollowUp!OpsOf[k] = {"pass", "cancel", "feedback", "reschedule"}
           /\ k = "deliverable" => FollowUp!OpsOf[k] = {"update", "approve", "reject", "revise"}
           /\ k = "selection" => FollowUp!OpsOf[k] = {"submit", "approve", "reject"}
BY DEF FollowUp!StatusOf, FollowUp!OpsOf, FollowUp!InterviewStatus, FollowUp!DeliverableStatus,
   FollowUp!SelectionDocumentStatus

\* The kind, the limits, and what is a row and what is not.

LEMMA FollowUpKind ==
    ASSUME FollowUp!TypeOK
    PROVE  /\ v1 \in {"interview", "deliverable", "selection"}
           /\ FollowUpRows[v1] \in Nat /\ FollowUpUploads[v1] \in Nat
           /\ FollowUp!NoRow \notin FollowUp!Row
           /\ \A i \in FollowUp!Ids : i \in FollowUp!There <=> v3[i] \in FollowUp!Row
           /\ FollowUp!There \subseteq FollowUp!Ids
<1>1. v1 \in {"interview", "deliverable", "selection"}
  BY DEF FollowUp!TypeOK, FollowUp!StatusOf
<1>2. FollowUpRows[v1] \in Nat /\ FollowUpUploads[v1] \in Nat
  BY <1>1, ServicesAssumption DEF FollowUp!FollowUpAssumption
<1>3. FollowUp!NoRow \notin FollowUp!Row
  BY <1>1, KindsDiffer DEF FollowUp!NoRow, FollowUp!Row
<1> QED BY <1>1, <1>2, <1>3 DEF FollowUp!TypeOK, FollowUp!There

\* The next row is the first that is not there.
LEMMA NextRow ==
    ASSUME FollowUp!TypeOK, FollowUp!RowsInTurn
    PROVE  \E n \in 0..FollowUpRows[v1] : FollowUp!There = 1..n /\ FollowUp!Next1 = n + 1
<1>1. PICK n \in 0..FollowUpRows[v1] : FollowUp!There = 1..n
  BY DEF FollowUp!RowsInTurn
<1>2. n \in Nat
  BY FollowUpKind
<1>3. Cardinality(1..n) = n
  BY <1>2, FS_Interval
<1> QED BY <1>1, <1>3, FollowUpCount DEF FollowUp!Next1

LEMMA FollowUpInit == FollowUp!Init => FollowUp!FollowUpInv
<1> SUFFICES ASSUME FollowUp!Init PROVE FollowUp!FollowUpInv
  OBVIOUS
<1> USE DEF FollowUp!Init
<1>1. v1 \in {"interview", "deliverable", "selection"}
  BY DEF FollowUp!StatusOf
<1>2. FollowUpRows[v1] \in Nat /\ FollowUpUploads[v1] \in Nat /\ MaxRestarts \in Nat
  BY <1>1, ServicesAssumption DEF FollowUp!FollowUpAssumption
<1>3. FollowUp!TypeOK
  <2>1. v3 \in [FollowUp!Ids -> FollowUp!Row \cup {FollowUp!NoRow}]
    OBVIOUS
  <2>2. v5 \in 0..FollowUpUploads[v1] /\ v6 \in 0..MaxRestarts
    BY <1>2
  <2>3. v7 \in [FollowUp!Ids -> 0..FollowUpUploads[v1]] /\ v8 \in [FollowUp!Ids -> Nat]
    BY <1>2
  <2> QED BY <2>1, <2>2, <2>3 DEF FollowUp!TypeOK
<1>4. FollowUp!There = {} /\ \A r \in Requests : v4[r] = FollowUp!Idle
  BY DEF FollowUp!There
<1>5. FollowUp!CallsFit
  BY <1>4 DEF FollowUp!CallsFit, FollowUp!Fits
<1>6. FollowUp!RowsInTurn
  <2>1. 1..0 = {} /\ 0 \in 0..FollowUpRows[v1]
    BY <1>2
  <2> QED BY <1>4, <2>1 DEF FollowUp!RowsInTurn
<1>7. FollowUp!Alone
  BY <1>1, <1>4, KindsDiffer DEF FollowUp!Alone, FollowUp!Idle
<1> QED BY <1>3, <1>4, <1>5, <1>6, <1>7
        DEF FollowUp!FollowUpInv, FollowUp!ApprovedAsReviewed, FollowUp!RevisionsCounted,
            FollowUp!InterviewsGoOn

LEMMA FollowUpHolds ==
    FollowUp!FollowUpInv
        => /\ FollowUp!TypeOK /\ FollowUp!ApprovedAsReviewed
           /\ FollowUp!RevisionsCounted /\ FollowUp!InterviewsFollowUp
BY DEF FollowUp!FollowUpInv, FollowUp!InterviewsFollowUp, FollowUp!InterviewsGoOn, FollowUp!Idle

\* A slot that stays as it is, or falls idle, fits as long as no row goes and the
\* application does not come back to "open".
LEMMA SlotFits ==
    ASSUME FollowUp!CallsFit, NEW q \in Requests, v4'[q] = v4[q] \/ v4'[q] = FollowUp!Idle,
           v1' = v1, FollowUp!There \subseteq FollowUp!There', v2' = "open" => v2 = "open"
    PROVE  FollowUp!Fits(q)'
<1>1. CASE v4'[q] = FollowUp!Idle
  BY <1>1 DEF FollowUp!Fits, FollowUp!Idle
<1>2. CASE v4'[q] = v4[q]
  <2>1. FollowUp!Fits(q)
    BY DEF FollowUp!CallsFit
  <2>2. FollowUp!Row' = FollowUp!Row
    BY DEF FollowUp!Row, FollowUp!StatusOf, FollowUp!Ids, FollowUp!InterviewStatus,
           FollowUp!DeliverableStatus, FollowUp!SelectionDocumentStatus
  <2> QED BY <1>2, <2>1, <2>2 DEF FollowUp!Fits, FollowUp!Idle, FollowUp!OpsOf
<1> QED BY <1>1, <1>2

\* What holds of the rows holds as long as they stay.
LEMMA RowsStay ==
    ASSUME FollowUp!FollowUpInv, UNCHANGED <<v1, v3, v7, v8, v10>>, v9 => v9'
    PROVE  /\ FollowUp!There' = FollowUp!There /\ FollowUp!Ids' = FollowUp!Ids
           /\ FollowUp!Row' = FollowUp!Row
           /\ FollowUp!RowsInTurn' /\ FollowUp!ApprovedAsReviewed' /\ FollowUp!RevisionsCounted'
<1>1. FollowUp!There' = FollowUp!There /\ FollowUp!Ids' = FollowUp!Ids
  BY DEF FollowUp!There, FollowUp!Ids, FollowUp!NoRow
<1>2. FollowUp!Row' = FollowUp!Row
  BY DEF FollowUp!Row, FollowUp!StatusOf, FollowUp!Ids, FollowUp!InterviewStatus,
         FollowUp!DeliverableStatus, FollowUp!SelectionDocumentStatus
<1> QED BY <1>1, <1>2 DEF FollowUp!FollowUpInv, FollowUp!RowsInTurn,
        FollowUp!ApprovedAsReviewed, FollowUp!RevisionsCounted

\* A row that is inserted takes the place of none.
LEMMA RowInserted ==
    ASSUME FollowUp!FollowUpInv, NEW row \in FollowUp!Row, FollowUp!Insert(row),
           row.status \notin {"approved", "rescheduled"}, row.revision = 1,
           row.resolution = "none", UNCHANGED <<v1, v7, v8, v9, v10>>
    PROVE  /\ FollowUp!Ids' = FollowUp!Ids /\ FollowUp!Row' = FollowUp!Row
           /\ v3' \in [FollowUp!Ids -> FollowUp!Row \cup {FollowUp!NoRow}]
           /\ FollowUp!RowsInTurn' /\ FollowUp!ApprovedAsReviewed' /\ FollowUp!RevisionsCounted'
           /\ \E i \in FollowUp!Ids \ FollowUp!There :
                FollowUp!There' = FollowUp!There \cup {i} /\ v3' = [v3 EXCEPT ![i] = row]
<1> DEFINE i == FollowUp!Next1
<1> USE DEF FollowUp!FollowUpInv
<1>1. FollowUp!Ids' = FollowUp!Ids /\ FollowUp!Row' = FollowUp!Row
  BY DEF FollowUp!Row, FollowUp!StatusOf, FollowUp!Ids, FollowUp!InterviewStatus,
         FollowUp!DeliverableStatus, FollowUp!SelectionDocumentStatus
<1>2. PICK n \in 0..FollowUpRows[v1] : FollowUp!There = 1..n /\ i = n + 1
  BY NextRow
<1>3. n \in Nat /\ i \in FollowUp!Ids /\ i \notin FollowUp!There
  BY <1>2, FollowUpKind DEF FollowUp!Insert
<1>4. v3' = [v3 EXCEPT ![i] = row] /\ DOMAIN v3 = FollowUp!Ids
  BY DEF FollowUp!Insert, FollowUp!TypeOK
<1> HIDE DEF i
<1>5. v3'[i] = row /\ \A j \in FollowUp!Ids \ {i} : v3'[j] = v3[j]
  BY <1>3, <1>4
<1>6. v3' \in [FollowUp!Ids -> FollowUp!Row \cup {FollowUp!NoRow}]
  BY <1>3, <1>4 DEF FollowUp!TypeOK
<1>7. FollowUp!There' = FollowUp!There \cup {i}
  <2>1. row # FollowUp!NoRow
    BY FollowUpKind
  <2> QED BY <1>1, <1>3, <1>5, <2>1 DEF FollowUp!There, FollowUp!NoRow
<1>8. FollowUp!RowsInTurn'
  <2>1. FollowUp!There' = 1..(n + 1) /\ n + 1 \in 0..FollowUpRows[v1]
    BY <1>2, <1>3, <1>7, FollowUpKind DEF FollowUp!Ids
  <2>2. \A j \in FollowUp!There' : v1 # "interview" => v3'[j].resolution = "none"
    BY <1>5, <1>7, FollowUpKind DEF FollowUp!RowsInTurn
  <2>3. \A j \in FollowUp!Ids \ FollowUp!There' : v8[j] = 0
    BY <1>7 DEF FollowUp!RowsInTurn
  <2> QED BY <1>1, <2>1, <2>2, <2>3 DEF FollowUp!RowsInTurn
<1>9. FollowUp!ApprovedAsReviewed'
  BY <1>5, <1>7, FollowUpKind DEF FollowUp!ApprovedAsReviewed
<1>10. FollowUp!RevisionsCounted'
  <2>1. v8[i] = 0
    BY <1>3 DEF FollowUp!RowsInTurn
  <2> QED BY <1>5, <1>7, <2>1, FollowUpKind DEF FollowUp!RevisionsCounted
<1> QED BY <1>1, <1>3, <1>4, <1>6, <1>7, <1>8, <1>9, <1>10

LEMMA SlotGoes ==
    ASSUME FollowUp!TypeOK, NEW r \in Requests, NEW c, FollowUp!Goes(r, c)
    PROVE  DOMAIN v4' = Requests /\ v4'[r] = c /\ \A q \in Requests \ {r} : v4'[q] = v4[q]
BY DEF FollowUp!TypeOK, FollowUp!Goes

\* The one request there is goes on, and what it has loaded is what is there.
LEMMA GoesOnAlone ==
    ASSUME FollowUp!FollowUpInv, NEW r \in Requests, NEW c, FollowUp!Goes(r, c),
           v4[r] # FollowUp!Idle, UNCHANGED <<v1, v9>>,
           (~v9 /\ c.op \in FollowUp!OpsOf[v1]) =>
             c.row = v3'[c.id] /\ (c.step = "update" => c.base = v3'[c.id])
    PROVE  FollowUp!Alone'
<1> USE DEF FollowUp!FollowUpInv
<1>1. v4'[r] = c /\ \A q \in Requests \ {r} : v4'[q] = v4[q]
  BY SlotGoes
<1> SUFFICES ASSUME ~v9
             PROVE  /\ \A s, q \in Requests :
                         v4'[s] # FollowUp!Idle /\ v4'[q] # FollowUp!Idle => s = q
                    /\ \A q \in Requests : v4'[q].op \in FollowUp!OpsOf[v1]
                         => /\ v4'[q].row = v3'[v4'[q].id]
                            /\ v4'[q].step = "update" => v4'[q].base = v3'[v4'[q].id]
  BY DEF FollowUp!Alone, FollowUp!Idle, FollowUp!OpsOf
<1>2. \A q \in Requests \ {r} : v4'[q] = FollowUp!Idle
  BY <1>1 DEF FollowUp!Alone
<1>3. FollowUp!Idle.op \notin FollowUp!OpsOf[v1]
  BY FollowUpKind, KindsDiffer DEF FollowUp!Idle
<1> QED BY <1>1, <1>2, <1>3

\* A request that starts while another one runs disturbs; else it is the one there is.
LEMMA StartsAlone ==
    ASSUME FollowUp!FollowUpInv, NEW r \in Requests, NEW c, FollowUp!Starts(r),
           FollowUp!Goes(r, c), UNCHANGED <<v1, v3>>,
           c.op \in FollowUp!OpsOf[v1] => c.row = v3[c.id] /\ c.step # "update"
    PROVE  /\ FollowUp!Alone' /\ v9' \in BOOLEAN /\ (v9 => v9')
           /\ ~v9' => \A q \in Requests : v4[q] = FollowUp!Idle
<1> USE DEF FollowUp!FollowUpInv
<1>1. v4'[r] = c /\ \A q \in Requests \ {r} : v4'[q] = v4[q]
  BY SlotGoes
<1>2. v9' = (v9 \/ \E q \in Requests : v4[q] # FollowUp!Idle)
  BY DEF FollowUp!Starts
<1>3. v9' \in BOOLEAN /\ (v9 => v9') /\ (~v9' => \A q \in Requests : v4[q] = FollowUp!Idle)
  BY <1>2 DEF FollowUp!TypeOK
<1>4. FollowUp!Alone'
  <2> SUFFICES ASSUME ~v9'
               PROVE  /\ \A s, q \in Requests :
                           v4'[s] # FollowUp!Idle /\ v4'[q] # FollowUp!Idle => s = q
                      /\ \A q \in Requests : v4'[q].op \in FollowUp!OpsOf[v1]
                           => v4'[q].row = v3[v4'[q].id] /\ v4'[q].step # "update"
    BY DEF FollowUp!Alone, FollowUp!Idle, FollowUp!OpsOf
  <2>1. \A q \in Requests \ {r} : v4'[q] = FollowUp!Idle
    BY <1>1, <1>3
  <2>2. FollowUp!Idle.op \notin FollowUp!OpsOf[v1]
    BY FollowUpKind, KindsDiffer DEF FollowUp!Idle
  <2> QED BY <1>1, <2>1, <2>2
<1> QED BY <1>3, <1>4

LEMMA FollowUpAdvance ==
    ASSUME FollowUp!FollowUpInv, FollowUp!Advance
    PROVE  FollowUp!FollowUpInv'
<1> USE DEF FollowUp!FollowUpInv
<1>1. /\ v2' \in {"interview", "working", "over"}
      /\ v9' = (v9 \/ \E r \in Requests : v4[r] # FollowUp!Idle)
      /\ UNCHANGED <<v1, v3, v4, v5, v6, v7, v8, v10>>
  BY DEF FollowUp!Advance, FollowUp!History
<1>2. /\ v9' \in BOOLEAN /\ (v9 => v9')
      /\ ~v9' => \A r \in Requests : v4[r] = FollowUp!Idle
  BY <1>1 DEF FollowUp!TypeOK
<1>3. /\ FollowUp!There' = FollowUp!There /\ FollowUp!Ids' = FollowUp!Ids
      /\ FollowUp!Row' = FollowUp!Row
      /\ FollowUp!RowsInTurn' /\ FollowUp!ApprovedAsReviewed' /\ FollowUp!RevisionsCounted'
  BY <1>1, <1>2, RowsStay
<1>4. FollowUp!TypeOK'
  BY <1>1, <1>2, <1>3 DEF FollowUp!TypeOK, FollowUp!StatusOf, FollowUp!NoRow
<1>5. FollowUp!CallsFit'
  BY <1>1, <1>3, SlotFits DEF FollowUp!CallsFit
<1>6. FollowUp!Alone'
  BY <1>1, <1>2 DEF FollowUp!Alone, FollowUp!Idle, FollowUp!OpsOf
<1>7. FollowUp!InterviewsGoOn'
  BY <1>1, <1>2, <1>3 DEF FollowUp!InterviewsGoOn
<1> QED BY <1>3, <1>4, <1>5, <1>6, <1>7

\* A new row of a status that its kind has.
LEMMA NewRow ==
    ASSUME FollowUp!TypeOK, NEW status \in FollowUp!StatusOf[v1],
           NEW file \in 0..FollowUpUploads[v1], NEW from \in {0} \cup FollowUp!Ids
    PROVE  /\ [FollowUp!New(status, file) EXCEPT !.from = from] \in FollowUp!Row
           /\ FollowUp!New(status, file) \in FollowUp!Row
           /\ FollowUp!New(status, file).status = status
           /\ FollowUp!New(status, file).revision = 1
           /\ FollowUp!New(status, file).resolution = "none"
BY DEF FollowUp!New, FollowUp!Row

LEMMA FollowUpScheduleStart ==
    ASSUME FollowUp!FollowUpInv, NEW r \in Requests, FollowUp!ScheduleStart(r)
    PROVE  FollowUp!FollowUpInv'
<1> DEFINE c == [op |-> "schedule", read |-> v2]
<1> USE DEF FollowUp!FollowUpInv
<1>1. /\ v1 = "interview" /\ FollowUp!Starts(r) /\ v2 \in {"open", "interview"}
      /\ FollowUp!Goes(r, c) /\ UNCHANGED <<v1, v2, v3, v5, v6, v7, v8, v10>>
  BY DEF FollowUp!ScheduleStart, FollowUp!History
<1>2. c \in [op : {"schedule"}, read : {"open", "interview"}] /\ c.read = v2 /\ c.op = "schedule"
  BY <1>1
<1> HIDE DEF c
<1>3. c.op \notin FollowUp!OpsOf[v1]
  BY <1>2, FollowUpKind, KindsDiffer
<1>4. /\ FollowUp!Alone' /\ v9' \in BOOLEAN /\ (v9 => v9')
      /\ ~v9' => \A q \in Requests : v4[q] = FollowUp!Idle
  BY <1>1, <1>3, StartsAlone
<1>5. DOMAIN v4' = Requests /\ v4'[r] = c /\ \A q \in Requests \ {r} : v4'[q] = v4[q]
  BY <1>1, SlotGoes
<1>6. /\ FollowUp!There' = FollowUp!There /\ FollowUp!Ids' = FollowUp!Ids
      /\ FollowUp!Row' = FollowUp!Row
      /\ FollowUp!RowsInTurn' /\ FollowUp!ApprovedAsReviewed' /\ FollowUp!RevisionsCounted'
  BY <1>1, <1>4, RowsStay
<1>7. FollowUp!TypeOK'
  BY <1>1, <1>4, <1>5, <1>6 DEF FollowUp!TypeOK, FollowUp!StatusOf, FollowUp!NoRow
<1>8. FollowUp!CallsFit'
  <2>1. FollowUp!Fits(r)'
    BY <1>1, <1>2, <1>5 DEF FollowUp!Fits
  <2> QED BY <1>1, <1>5, <1>6, <2>1, SlotFits DEF FollowUp!CallsFit
<1>9. FollowUp!InterviewsGoOn'
  BY <1>1, <1>4, <1>6 DEF FollowUp!InterviewsGoOn, FollowUp!Idle
<1> QED BY <1>4, <1>6, <1>7, <1>8, <1>9

LEMMA FollowUpScheduleSave ==
    ASSUME FollowUp!FollowUpInv, NEW r \in Requests, FollowUp!ScheduleSave(r)
    PROVE  FollowUp!FollowUpInv'
<1> DEFINE c == IF v4[r].read = "open" THEN [op |-> "move"] ELSE FollowUp!Idle
           row == FollowUp!New("scheduled", 0)
<1> USE DEF FollowUp!FollowUpInv
<1>1. /\ v4[r].op = "schedule" /\ FollowUp!Insert(row) /\ FollowUp!Goes(r, c)
      /\ UNCHANGED <<v1, v2, v5, v6, v7, v8, v9, v10>>
  BY DEF FollowUp!ScheduleSave, FollowUp!History
<1>2. v4[r] # FollowUp!Idle /\ v1 = "interview" /\ (v2 = "open" => v4[r].read = "open")
  <2>1. "schedule" \notin FollowUp!OpsOf[v1]
    BY FollowUpKind, KindsDiffer
  <2> QED BY <1>1, <2>1 DEF FollowUp!CallsFit, FollowUp!Fits, FollowUp!Idle
<1>3. /\ v2 = "open" => c = [op |-> "move"]
      /\ c = FollowUp!Idle \/ c = [op |-> "move"]
      /\ c.op \in {"none", "move"}
  BY <1>2 DEF FollowUp!Idle
<1>4. row \in FollowUp!Row /\ row.status = "scheduled" /\ row.revision = 1 /\ row.resolution = "none"
  <2>1. "scheduled" \in FollowUp!StatusOf[v1] /\ 0 \in 0..FollowUpUploads[v1]
    BY <1>2, FollowUpKind DEF FollowUp!StatusOf, FollowUp!InterviewStatus
  <2> QED BY <2>1, NewRow
<1> HIDE DEF c, row
<1>5. /\ FollowUp!Ids' = FollowUp!Ids /\ FollowUp!Row' = FollowUp!Row
      /\ v3' \in [FollowUp!Ids -> FollowUp!Row \cup {FollowUp!NoRow}]
      /\ FollowUp!RowsInTurn' /\ FollowUp!ApprovedAsReviewed' /\ FollowUp!RevisionsCounted'
      /\ \E i \in FollowUp!Ids \ FollowUp!There :
           FollowUp!There' = FollowUp!There \cup {i} /\ v3' = [v3 EXCEPT ![i] = row]
  BY <1>1, <1>4, RowInserted
<1>6. DOMAIN v4' = Requests /\ v4'[r] = c /\ \A q \in Requests \ {r} : v4'[q] = v4[q]
  BY <1>1, SlotGoes
<1>7. c.op \notin FollowUp!OpsOf[v1]
  BY <1>3, FollowUpKind, KindsDiffer
<1>8. FollowUp!Alone'
  BY <1>1, <1>2, <1>7, GoesOnAlone
<1>9. FollowUp!TypeOK'
  BY <1>1, <1>5, <1>6 DEF FollowUp!TypeOK, FollowUp!StatusOf, FollowUp!NoRow
<1>10. FollowUp!CallsFit'
  <2>1. FollowUp!Fits(r)'
    BY <1>1, <1>2, <1>3, <1>6 DEF FollowUp!Fits, FollowUp!Idle
  <2> QED BY <1>1, <1>5, <1>6, <2>1, SlotFits DEF FollowUp!CallsFit
<1>11. FollowUp!InterviewsGoOn'
  <2> SUFFICES ASSUME ~v9
               PROVE  /\ v2 = "open" => \E q \in Requests : v4'[q].op = "move"
                      /\ \A i \in FollowUp!There' : v3'[i].status = "rescheduled"
                           => \/ \E j \in FollowUp!There' : v3'[j].from = i
                              \/ \E q \in Requests : v4'[q].op = "again" /\ v4'[q].id = i
    BY <1>1 DEF FollowUp!InterviewsGoOn
  <2>1. v2 = "open" => v4'[r].op = "move"
    BY <1>3, <1>6
  <2>2. PICK i \in FollowUp!Ids \ FollowUp!There :
              FollowUp!There' = FollowUp!There \cup {i} /\ v3' = [v3 EXCEPT ![i] = row]
    BY <1>5
  <2>3. v3'[i] = row /\ \A j \in FollowUp!There : v3'[j] = v3[j]
    BY <2>2, FollowUpKind DEF FollowUp!TypeOK
  <2>4. \A q \in Requests : v4[q].op # "again"
    BY <1>1, <1>2 DEF FollowUp!Alone, FollowUp!Idle
  <2>5. \A j \in FollowUp!There : v3[j].status = "rescheduled"
                                    => \E k \in FollowUp!There : v3[k].from = j
    BY <1>2, <2>4 DEF FollowUp!InterviewsGoOn
  <2> QED BY <1>4, <2>1, <2>2, <2>3, <2>5
<1> QED BY <1>5, <1>8, <1>9, <1>10, <1>11

LEMMA FollowUpScheduleMove ==
    ASSUME FollowUp!FollowUpInv, NEW r \in Requests, FollowUp!ScheduleMove(r)
    PROVE  FollowUp!FollowUpInv'
<1> USE DEF FollowUp!FollowUpInv
<1>1. /\ v4[r].op = "move" /\ v2' = (IF v2 = "open" THEN "interview" ELSE v2)
      /\ FollowUp!Goes(r, FollowUp!Idle) /\ UNCHANGED <<v1, v3, v5, v6, v7, v8, v9, v10>>
  BY DEF FollowUp!ScheduleMove, FollowUp!History
<1>2. v2' # "open" /\ v2' \in {"open", "interview", "working", "over"}
  BY <1>1 DEF FollowUp!TypeOK
<1>3. v4[r] # FollowUp!Idle
  BY <1>1 DEF FollowUp!Idle
<1>4. /\ FollowUp!There' = FollowUp!There /\ FollowUp!Ids' = FollowUp!Ids
      /\ FollowUp!Row' = FollowUp!Row
      /\ FollowUp!RowsInTurn' /\ FollowUp!ApprovedAsReviewed' /\ FollowUp!RevisionsCounted'
  BY <1>1, RowsStay
<1>5. /\ DOMAIN v4' = Requests /\ v4'[r] = FollowUp!Idle
      /\ \A q \in Requests \ {r} : v4'[q] = v4[q]
  BY <1>1, SlotGoes
<1>6. FollowUp!Idle.op \notin FollowUp!OpsOf[v1]
  BY FollowUpKind, KindsDiffer DEF FollowUp!Idle
<1>7. FollowUp!Alone'
  BY <1>1, <1>3, <1>6, GoesOnAlone
<1>8. FollowUp!TypeOK'
  BY <1>1, <1>2, <1>4, <1>5 DEF FollowUp!TypeOK, FollowUp!StatusOf, FollowUp!NoRow
<1>9. FollowUp!CallsFit'
  BY <1>1, <1>2, <1>4, <1>5, SlotFits DEF FollowUp!CallsFit
<1>10. FollowUp!InterviewsGoOn'
  BY <1>1, <1>2, <1>4, <1>5 DEF FollowUp!InterviewsGoOn
<1> QED BY <1>4, <1>7, <1>8, <1>9, <1>10

\* The handlers that insert a row and are then over.
LEMMA CreateInserts ==
    ASSUME FollowUp!FollowUpInv, v1 # "interview", NEW status \in FollowUp!StatusOf[v1],
           status # "approved", status # "rescheduled",
           NEW file \in 0..FollowUpUploads[v1], FollowUp!Insert(FollowUp!New(status, file)),
           v5' \in 0..FollowUpUploads[v1], UNCHANGED <<v1, v2, v4, v6, v7, v8, v9, v10>>
    PROVE  FollowUp!FollowUpInv'
<1> DEFINE row == FollowUp!New(status, file)
<1> USE DEF FollowUp!FollowUpInv
<1>1. row \in FollowUp!Row /\ row.status = status /\ row.revision = 1 /\ row.resolution = "none"
  BY NewRow
<1>2. FollowUp!Insert(row)
  OBVIOUS
<1> HIDE DEF row
<1>3. /\ FollowUp!Ids' = FollowUp!Ids /\ FollowUp!Row' = FollowUp!Row
      /\ v3' \in [FollowUp!Ids -> FollowUp!Row \cup {FollowUp!NoRow}]
      /\ FollowUp!RowsInTurn' /\ FollowUp!ApprovedAsReviewed' /\ FollowUp!RevisionsCounted'
      /\ \E i \in FollowUp!Ids \ FollowUp!There :
           FollowUp!There' = FollowUp!There \cup {i} /\ v3' = [v3 EXCEPT ![i] = row]
  BY <1>1, <1>2, RowInserted
<1>4. FollowUp!TypeOK'
  BY <1>3 DEF FollowUp!TypeOK, FollowUp!StatusOf, FollowUp!NoRow
<1>5. FollowUp!CallsFit'
  BY <1>3, SlotFits DEF FollowUp!CallsFit
<1>6. FollowUp!Alone'
  <2>1. \A i \in FollowUp!There : v3'[i] = v3[i]
    BY <1>3, FollowUpKind DEF FollowUp!TypeOK
  <2>2. \A q \in Requests : v4[q].op \in FollowUp!OpsOf[v1] => v4[q].id \in FollowUp!There
    BY FollowUpKind, KindsDiffer DEF FollowUp!CallsFit, FollowUp!Fits, FollowUp!Idle
  <2> QED BY <2>1, <2>2 DEF FollowUp!Alone, FollowUp!Idle, FollowUp!OpsOf
<1>7. FollowUp!InterviewsGoOn'
  BY DEF FollowUp!InterviewsGoOn
<1> QED BY <1>3, <1>4, <1>5, <1>6, <1>7

LEMMA FollowUpCreate ==
    ASSUME FollowUp!FollowUpInv,
           \/ FollowUp!CreateDeliverable \/ FollowUp!BulkCreateDeliverable
           \/ FollowUp!SubmitDeliverable \/ FollowUp!RequestSelectionDocument
    PROVE  FollowUp!FollowUpInv'
<1>1. FollowUp!TypeOK
  BY DEF FollowUp!FollowUpInv
<1>2. v5 \in 0..FollowUpUploads[v1] /\ FollowUpUploads[v1] \in Nat
  BY <1>1, FollowUpKind DEF FollowUp!TypeOK
<1>3. CASE FollowUp!CreateDeliverable \/ FollowUp!BulkCreateDeliverable
  <2>1. /\ v1 = "deliverable" /\ FollowUp!Insert(FollowUp!New("pending", 0))
        /\ UNCHANGED <<v1, v2, v4, v5, v6, v7, v8, v9, v10>>
    BY <1>3 DEF FollowUp!CreateDeliverable, FollowUp!BulkCreateDeliverable, FollowUp!History
  <2>2. "pending" \in FollowUp!StatusOf[v1]
    BY <2>1 DEF FollowUp!StatusOf, FollowUp!DeliverableStatus
  <2> QED BY <1>2, <2>1, <2>2, CreateInserts
<1>4. CASE FollowUp!SubmitDeliverable
  <2>1. /\ v1 = "deliverable" /\ v5 < FollowUpUploads[v1] /\ v5' = v5 + 1
        /\ FollowUp!Insert(FollowUp!New("submitted", v5'))
        /\ UNCHANGED <<v1, v2, v4, v6, v7, v8, v9, v10>>
    BY <1>4 DEF FollowUp!SubmitDeliverable, FollowUp!History
  <2>2. "submitted" \in FollowUp!StatusOf[v1]
    BY <2>1 DEF FollowUp!StatusOf, FollowUp!DeliverableStatus
  <2>3. v5' \in 0..FollowUpUploads[v1]
    BY <1>2, <2>1
  <2> QED BY <2>1, <2>2, <2>3, CreateInserts
<1>5. CASE FollowUp!RequestSelectionDocument
  <2>1. /\ v1 = "selection" /\ FollowUp!Insert(FollowUp!New("requested", 0))
        /\ UNCHANGED <<v1, v2, v4, v5, v6, v7, v8, v9, v10>>
    BY <1>5 DEF FollowUp!RequestSelectionDocument, FollowUp!History
  <2>2. "requested" \in FollowUp!StatusOf[v1]
    BY <2>1 DEF FollowUp!StatusOf, FollowUp!SelectionDocumentStatus
  <2> QED BY <1>2, <2>1, <2>2, CreateInserts
<1> QED BY <1>3, <1>4, <1>5

LEMMA FollowUpRead ==
    ASSUME FollowUp!FollowUpInv, NEW r \in Requests, NEW i \in FollowUp!Ids,
           NEW op \in FollowUp!OpsOf[v1], FollowUp!Read(r, op, i)
    PROVE  FollowUp!FollowUpInv'
<1> DEFINE c == [op |-> op, step |-> "select", id |-> i, row |-> v3[i], file |-> v5']
<1> USE DEF FollowUp!FollowUpInv
<1>1. /\ FollowUp!Starts(r) /\ i \in FollowUp!There /\ FollowUp!Admits(op, v3[i])
      /\ op \in FollowUp!Uploading => v5 < FollowUpUploads[v1]
      /\ v5' = (IF op \in FollowUp!Uploading THEN v5 + 1 ELSE v5)
      /\ FollowUp!Goes(r, c) /\ UNCHANGED <<v1, v2, v3, v6, v7, v8, v10>>
  BY DEF FollowUp!Read, FollowUp!History
<1>2. v5' \in 0..FollowUpUploads[v1]
  BY <1>1, FollowUpKind DEF FollowUp!TypeOK
<1>3. v3[i] \in FollowUp!Row
  BY <1>1, FollowUpKind
<1>4. /\ c \in [op : FollowUp!OpsOf[v1], step : {"select"}, id : FollowUp!There,
                row : FollowUp!Row, file : 0..FollowUpUploads[v1]]
      /\ c.op = op /\ c.step = "select" /\ c.id = i /\ c.row = v3[i]
  BY <1>1, <1>2, <1>3
<1> HIDE DEF c
<1>5. /\ FollowUp!Alone' /\ v9' \in BOOLEAN /\ (v9 => v9')
      /\ ~v9' => \A q \in Requests : v4[q] = FollowUp!Idle
  BY <1>1, <1>4, StartsAlone
<1>6. DOMAIN v4' = Requests /\ v4'[r] = c /\ \A q \in Requests \ {r} : v4'[q] = v4[q]
  BY <1>1, SlotGoes
<1>7. /\ FollowUp!There' = FollowUp!There /\ FollowUp!Ids' = FollowUp!Ids
      /\ FollowUp!Row' = FollowUp!Row
      /\ FollowUp!RowsInTurn' /\ FollowUp!ApprovedAsReviewed' /\ FollowUp!RevisionsCounted'
  BY <1>1, <1>5, RowsStay
<1>8. FollowUp!TypeOK'
  BY <1>1, <1>2, <1>5, <1>6, <1>7 DEF FollowUp!TypeOK, FollowUp!StatusOf, FollowUp!NoRow
<1>9. FollowUp!CallsFit'
  <2>1. v1 # "interview" => c.row.resolution = "none"
    BY <1>1, <1>4 DEF FollowUp!RowsInTurn
  <2>2. FollowUp!Admits(c.op, c.row)
    BY <1>1, <1>4
  <2>3. /\ v4'[r] \in [op : FollowUp!OpsOf[v1], step : {"select"}, id : FollowUp!There',
                       row : FollowUp!Row', file : 0..FollowUpUploads[v1]]
        /\ FollowUp!Admits(v4'[r].op, v4'[r].row)
        /\ v1 # "interview" => v4'[r].row.resolution = "none"
    BY <1>4, <1>6, <1>7, <2>1, <2>2
  <2>4. FollowUp!Fits(r)'
    BY <1>1, <2>3 DEF FollowUp!Fits, FollowUp!OpsOf, FollowUp!Admits, FollowUp!Reviewing
  <2> QED BY <1>1, <1>6, <1>7, <2>4, SlotFits DEF FollowUp!CallsFit
<1>10. FollowUp!InterviewsGoOn'
  <2> SUFFICES ASSUME v1 = "interview", ~v9'
               PROVE  /\ (FollowUp!There # {} /\ v2 = "open")
                            => \E q \in Requests : v4'[q].op = "move"
                      /\ \A j \in FollowUp!There : v3[j].status = "rescheduled"
                           => \/ \E k \in FollowUp!There : v3[k].from = j
                              \/ \E q \in Requests : v4'[q].op = "again" /\ v4'[q].id = j
    BY <1>1, <1>7 DEF FollowUp!InterviewsGoOn
  <2>1. ~v9 /\ \A q \in Requests : v4[q].op = "none"
    BY <1>5 DEF FollowUp!Idle
  <2> QED BY <2>1 DEF FollowUp!InterviewsGoOn
<1> QED BY <1>5, <1>7, <1>8, <1>9, <1>10

\* What a save leaves of a row that was loaded.
LEMMA RowChanged ==
    ASSUME FollowUp!TypeOK, NEW op \in FollowUp!OpsOf[v1], NEW row \in FollowUp!Row,
           NEW file \in 0..FollowUpUploads[v1], FollowUp!Admits(op, row),
           v1 # "interview" => row.resolution = "none"
    PROVE  LET new == FollowUp!Changed(op, row, file)
           IN  /\ new \in FollowUp!Row /\ new.from = row.from
               /\ new.status = "approved" => op \in FollowUp!Reviewing /\ new.file = row.file
               /\ new.revision = row.revision
                    + (IF op = "update" /\ row.status = "needs_revision" THEN 1 ELSE 0)
               /\ v1 # "interview" => new.resolution = "none"
               /\ new.resolution = "none" => row.resolution = "none"
               /\ new.status = "rescheduled" /\ row.status # "rescheduled" => op = "reschedule"
<1>1. CASE v1 = "interview"
  <2>1. op \in {"pass", "cancel", "feedback", "reschedule"} /\ row.status # "approved"
    BY <1>1, KindsDiffer DEF FollowUp!Row
  <2>2. {"completed", "cancelled", "rescheduled"} \subseteq FollowUp!StatusOf[v1]
    BY <1>1 DEF FollowUp!StatusOf, FollowUp!InterviewStatus
  <2>3. FollowUp!Changed(op, row, file) = FollowUp!InterviewChanged(op, row)
    BY <1>1 DEF FollowUp!Changed
  <2>4. CASE op = "pass"
    <3> DEFINE new == [row EXCEPT !.status = "completed", !.resolution = "passed"]
    <3>1. FollowUp!Changed(op, row, file) = new
      BY <2>3, <2>4 DEF FollowUp!InterviewChanged
    <3>2. /\ new.status = "completed" /\ new.resolution = "passed" /\ new.from = row.from
          /\ new.revision = row.revision /\ row.revision \in Nat
      BY DEF FollowUp!Row
    <3>3. new \in FollowUp!Row
      BY <2>2 DEF FollowUp!Row
    <3> HIDE DEF new
    <3> QED BY <1>1, <2>4, <3>1, <3>2, <3>3
  <2>5. CASE op = "cancel"
    BY <1>1, <2>2, <2>3, <2>5 DEF FollowUp!InterviewChanged, FollowUp!Row
  <2>6. CASE op = "reschedule"
    BY <1>1, <2>2, <2>3, <2>6 DEF FollowUp!InterviewChanged, FollowUp!Row
  <2>7. CASE op = "feedback"
    BY <1>1, <2>1, <2>3, <2>7 DEF FollowUp!InterviewChanged, FollowUp!Row
  <2> QED BY <2>1, <2>4, <2>5, <2>6, <2>7
<1>2. CASE v1 = "deliverable"
  <2>1. op \in {"update", "approve", "reject", "revise"}
    BY <1>2, KindsDiffer
  <2>2. {"submitted", "approved", "rejected", "needs_revision"} \subseteq FollowUp!StatusOf[v1]
    BY <1>2 DEF FollowUp!StatusOf, FollowUp!DeliverableStatus
  <2>3. FollowUp!Changed(op, row, file) = FollowUp!DeliverableChanged(op, row, file)
    BY <1>2 DEF FollowUp!Changed
  <2>4. CASE op = "update"
    <3> DEFINE n == IF row.status = "needs_revision" THEN row.revision + 1 ELSE row.revision
               new == [row EXCEPT !.status = "submitted", !.file = file, !.revision = n]
    <3>1. FollowUp!Changed(op, row, file) = new
      BY <2>3, <2>4 DEF FollowUp!DeliverableChanged
    <3>2. row.revision \in Nat /\ n \in Nat
          /\ n = row.revision + (IF row.status = "needs_revision" THEN 1 ELSE 0)
      BY DEF FollowUp!Row
    <3> HIDE DEF n
    <3>3. /\ new.status = "submitted" /\ new.resolution = row.resolution
          /\ new.from = row.from /\ new.revision = n
      BY DEF FollowUp!Row
    <3>4. new \in FollowUp!Row
      BY <2>2, <3>2 DEF FollowUp!Row
    <3> HIDE DEF new
    <3> QED BY <1>2, <2>4, <3>1, <3>2, <3>3, <3>4
  <2>5. CASE op # "update"
    <3>1. op \in FollowUp!Reviewing
          /\ FollowUp!Changed(op, row, file) = [row EXCEPT !.status = FollowUp!Reviewed[op]]
      BY <2>1, <2>3, <2>5 DEF FollowUp!DeliverableChanged, FollowUp!Reviewing
    <3>2. FollowUp!Reviewed[op] \in {"approved", "rejected", "needs_revision"}
      BY <2>1, <2>5 DEF FollowUp!Reviewed
    <3> QED BY <1>2, <2>2, <2>5, <3>1, <3>2 DEF FollowUp!Row
  <2> QED BY <2>4, <2>5
<1>3. CASE v1 = "selection"
  <2>1. op \in {"submit", "approve", "reject"}
    BY <1>3, KindsDiffer
  <2>2. {"submitted", "approved", "rejected"} \subseteq FollowUp!StatusOf[v1]
    BY <1>3 DEF FollowUp!StatusOf, FollowUp!SelectionDocumentStatus
  <2>3. FollowUp!Changed(op, row, file) = FollowUp!SelectionChanged(op, row, file)
    BY <1>3 DEF FollowUp!Changed
  <2>4. CASE op = "submit"
    <3> DEFINE new == [row EXCEPT !.status = "submitted", !.file = file]
    <3>1. FollowUp!Changed(op, row, file) = new
      BY <2>3, <2>4 DEF FollowUp!SelectionChanged
    <3>2. /\ new.status = "submitted" /\ new.resolution = row.resolution
          /\ new.from = row.from /\ new.revision = row.revision /\ row.revision \in Nat
      BY DEF FollowUp!Row
    <3>3. new \in FollowUp!Row
      BY <2>2 DEF FollowUp!Row
    <3> HIDE DEF new
    <3> QED BY <1>3, <2>4, <3>1, <3>2, <3>3
  <2>5. CASE op # "submit"
    <3>1. op \in FollowUp!Reviewing
          /\ FollowUp!Changed(op, row, file) = [row EXCEPT !.status = FollowUp!Reviewed[op]]
      BY <2>1, <2>3, <2>5 DEF FollowUp!SelectionChanged, FollowUp!Reviewing
    <3>2. FollowUp!Reviewed[op] \in {"approved", "rejected"}
      BY <2>1, <2>5 DEF FollowUp!Reviewed
    <3> QED BY <1>3, <2>1, <2>2, <3>1, <3>2 DEF FollowUp!Row
  <2> QED BY <2>4, <2>5
<1> QED BY <1>1, <1>2, <1>3, FollowUpKind

\* A request that saves has loaded the row it names.
LEMMA SlotLoaded ==
    ASSUME FollowUp!FollowUpInv, NEW r \in Requests, v4[r].op \in FollowUp!OpsOf[v1]
    PROVE  /\ v4[r].id \in FollowUp!There /\ v4[r].row \in FollowUp!Row
           /\ v4[r].file \in 0..FollowUpUploads[v1]
           /\ v4[r].step = "update" => v4[r].base \in FollowUp!Row
           /\ FollowUp!Admits(v4[r].op, v4[r].row) /\ v4[r] # FollowUp!Idle
           /\ v1 # "interview" => v4[r].row.resolution = "none"
<1>1. v4[r].op \notin {"none", "schedule", "move", "again"}
  BY FollowUpKind, KindsDiffer DEF FollowUp!FollowUpInv
<1>2. FollowUp!Fits(r)
  BY DEF FollowUp!FollowUpInv, FollowUp!CallsFit
<1> QED BY <1>1, <1>2 DEF FollowUp!Fits, FollowUp!Idle

\* What is written of a row: the columns of what is to be saved, or those that are there.
LEMMA RowMerged ==
    ASSUME FollowUp!TypeOK, NEW row \in FollowUp!Row, NEW base \in FollowUp!Row,
           NEW saved \in FollowUp!Row
    PROVE  LET new == FollowUp!Merged(row, base, saved)
           IN  /\ new \in FollowUp!Row
               /\ new.resolution \in {saved.resolution, row.resolution}
               /\ new.from \in {saved.from, row.from}
               /\ row = base => new = saved
<1> DEFINE new == FollowUp!Merged(row, base, saved)
           Columns == {"status", "file", "revision", "resolution", "from"}
<1>1. DOMAIN row = Columns /\ DOMAIN saved = Columns
  BY DEF FollowUp!Row
<1>2. new = [k \in Columns |-> IF saved[k] # base[k] THEN saved[k] ELSE row[k]]
  BY <1>1 DEF FollowUp!Merged
<1>3. /\ new.status \in {saved.status, row.status} /\ new.file \in {saved.file, row.file}
      /\ new.revision \in {saved.revision, row.revision}
      /\ new.resolution \in {saved.resolution, row.resolution}
      /\ new.from \in {saved.from, row.from}
  BY <1>2
<1>4. new = [status |-> new.status, file |-> new.file, revision |-> new.revision,
             resolution |-> new.resolution, from |-> new.from]
  BY <1>2
<1>5. row = base => new = saved
  <2> SUFFICES ASSUME row = base PROVE new = saved
    OBVIOUS
  <2>1. saved = [k \in Columns |-> saved[k]]
    BY <1>1 DEF FollowUp!Row
  <2> QED BY <1>2, <2>1
<1> HIDE DEF new
<1>6. new \in FollowUp!Row
  BY <1>3, <1>4 DEF FollowUp!Row
<1> QED BY <1>3, <1>5, <1>6 DEF new

LEMMA FollowUpSaveSelect ==
    ASSUME FollowUp!FollowUpInv, NEW r \in Requests, FollowUp!SaveSelect(r)
    PROVE  FollowUp!FollowUpInv'
<1> DEFINE i == v4[r].id
           c == [op |-> v4[r].op, step |-> "update", id |-> i, row |-> v4[r].row,
                 file |-> v4[r].file, base |-> v3[i]]
<1> USE DEF FollowUp!FollowUpInv
<1>1. /\ v4[r].op \in FollowUp!OpsOf[v1] /\ FollowUp!Goes(r, c)
      /\ UNCHANGED <<v1, v2, v3, v5, v6, v7, v8, v9, v10>>
  BY DEF FollowUp!SaveSelect, FollowUp!Holds, FollowUp!History
<1>2. /\ i \in FollowUp!There /\ v4[r].row \in FollowUp!Row
      /\ v4[r].file \in 0..FollowUpUploads[v1]
      /\ FollowUp!Admits(v4[r].op, v4[r].row) /\ v4[r] # FollowUp!Idle
      /\ v1 # "interview" => v4[r].row.resolution = "none"
  BY <1>1, SlotLoaded
<1>3. v3[i] \in FollowUp!Row
  BY <1>2, FollowUpKind
<1>4. /\ c \in [op : FollowUp!OpsOf[v1], step : {"update"}, id : FollowUp!There,
                row : FollowUp!Row, file : 0..FollowUpUploads[v1], base : FollowUp!Row]
      /\ c.op = v4[r].op /\ c.id = i /\ c.row = v4[r].row /\ c.base = v3[i]
  BY <1>1, <1>2, <1>3
<1> HIDE DEF c, i
<1>5. DOMAIN v4' = Requests /\ v4'[r] = c /\ \A q \in Requests \ {r} : v4'[q] = v4[q]
  BY <1>1, SlotGoes
<1>6. /\ FollowUp!There' = FollowUp!There /\ FollowUp!Ids' = FollowUp!Ids
      /\ FollowUp!Row' = FollowUp!Row
      /\ FollowUp!RowsInTurn' /\ FollowUp!ApprovedAsReviewed' /\ FollowUp!RevisionsCounted'
  BY <1>1, RowsStay
<1>7. FollowUp!TypeOK'
  BY <1>1, <1>5, <1>6 DEF FollowUp!TypeOK, FollowUp!StatusOf, FollowUp!NoRow
<1>8. FollowUp!CallsFit'
  <2>1. /\ v4'[r] \in [op : FollowUp!OpsOf[v1], step : {"update"}, id : FollowUp!There',
                       row : FollowUp!Row', file : 0..FollowUpUploads[v1], base : FollowUp!Row']
        /\ FollowUp!Admits(v4'[r].op, v4'[r].row)
        /\ v1 # "interview" => v4'[r].row.resolution = "none"
    BY <1>2, <1>4, <1>5, <1>6
  <2>2. FollowUp!Fits(r)'
    BY <1>1, <2>1 DEF FollowUp!Fits, FollowUp!OpsOf, FollowUp!Admits, FollowUp!Reviewing
  <2> QED BY <1>1, <1>5, <1>6, <2>2, SlotFits DEF FollowUp!CallsFit
<1>9. FollowUp!Alone'
  <2>1. ~v9 => v4[r].row = v3[i]
    BY <1>1 DEF FollowUp!Alone, i
  <2> QED BY <1>1, <1>2, <1>4, <2>1, GoesOnAlone
<1>10. FollowUp!InterviewsGoOn'
  <2>1. v4[r].op \notin {"move", "again"}
    BY <1>1, FollowUpKind, KindsDiffer
  <2>2. \A q \in Requests : v4[q].op \in {"move", "again"} => v4'[q] = v4[q]
    BY <1>5, <2>1
  <2> QED BY <1>1, <1>6, <2>2 DEF FollowUp!InterviewsGoOn
<1> QED BY <1>6, <1>7, <1>8, <1>9, <1>10

LEMMA FollowUpSaveUpdate ==
    ASSUME FollowUp!FollowUpInv, NEW r \in Requests, FollowUp!SaveUpdate(r)
    PROVE  FollowUp!FollowUpInv'
<1> DEFINE i == v4[r].id
           saved == FollowUp!Saved(v4[r])
           new == FollowUp!Merged(v3[i], v4[r].base, saved)
           c == IF v4[r].op = "reschedule" THEN [op |-> "again", id |-> i] ELSE FollowUp!Idle
<1> USE DEF FollowUp!FollowUpInv
<1>1. /\ v4[r].op \in FollowUp!OpsOf[v1] /\ v4[r].step = "update"
      /\ v3' = [v3 EXCEPT ![i] = new]
      /\ v7' = (IF v4[r].op \in FollowUp!Reviewing THEN [v7 EXCEPT ![i] = v4[r].row.file] ELSE v7)
      /\ v8' = (IF v4[r].op = "update" /\ v3[i].status = "needs_revision"
                THEN [v8 EXCEPT ![i] = v8[i] + 1] ELSE v8)
      /\ v10' = (IF v1 # "interview" /\ v3[i] # v4[r].base THEN v10 \cup {i} ELSE v10)
      /\ FollowUp!Goes(r, c) /\ UNCHANGED <<v1, v2, v5, v6, v9>>
  BY DEF FollowUp!SaveUpdate, FollowUp!Holds
<1>2. /\ i \in FollowUp!There /\ v4[r].row \in FollowUp!Row
      /\ v4[r].file \in 0..FollowUpUploads[v1]
      /\ v4[r].base \in FollowUp!Row
      /\ FollowUp!Admits(v4[r].op, v4[r].row) /\ v4[r] # FollowUp!Idle
      /\ v1 # "interview" => v4[r].row.resolution = "none"
  BY <1>1, SlotLoaded
<1>3. /\ saved \in FollowUp!Row /\ saved.from = v4[r].row.from
      /\ saved.status = "approved"
           => v4[r].op \in FollowUp!Reviewing /\ saved.file = v4[r].row.file
      /\ saved.revision = v4[r].row.revision
           + (IF v4[r].op = "update" /\ v4[r].row.status = "needs_revision" THEN 1 ELSE 0)
      /\ v1 # "interview" => saved.resolution = "none"
      /\ saved.status = "rescheduled" /\ v4[r].row.status # "rescheduled"
           => v4[r].op = "reschedule"
  BY <1>1, <1>2, RowChanged DEF FollowUp!Saved
<1>4. i \in FollowUp!Ids /\ v3[i] \in FollowUp!Row
  BY <1>2, FollowUpKind
<1> HIDE DEF saved
<1>20. /\ new \in FollowUp!Row /\ new.resolution \in {saved.resolution, v3[i].resolution}
       /\ v3[i] = v4[r].base => new = saved
  BY <1>2, <1>3, <1>4, RowMerged
<1>5. /\ v4[r].op = "reschedule" => c = [op |-> "again", id |-> i]
      /\ c = FollowUp!Idle \/ (v1 = "interview" /\ c = [op |-> "again", id |-> i])
      /\ c.op \in {"none", "again"}
  <2>1. v4[r].op = "reschedule" => v1 = "interview"
    BY <1>1, FollowUpKind, KindsDiffer
  <2> QED BY <2>1 DEF FollowUp!Idle
<1> HIDE DEF c, new, i
<1>6. v3'[i] = new /\ \A j \in FollowUp!Ids \ {i} : v3'[j] = v3[j]
  BY <1>1, <1>4 DEF FollowUp!TypeOK
<1>7. FollowUp!Ids' = FollowUp!Ids /\ FollowUp!Row' = FollowUp!Row
  BY <1>1 DEF FollowUp!Row, FollowUp!StatusOf, FollowUp!Ids, FollowUp!InterviewStatus,
         FollowUp!DeliverableStatus, FollowUp!SelectionDocumentStatus
<1>8. FollowUp!There' = FollowUp!There
  <2>1. new # FollowUp!NoRow
    BY <1>20, FollowUpKind
  <2> QED BY <1>2, <1>6, <1>7, <2>1 DEF FollowUp!There, FollowUp!NoRow
<1>9. DOMAIN v4' = Requests /\ v4'[r] = c /\ \A q \in Requests \ {r} : v4'[q] = v4[q]
  BY <1>1, SlotGoes
<1>10. FollowUp!Alone'
  <2>1. c.op \notin FollowUp!OpsOf[v1]
    BY <1>5, FollowUpKind, KindsDiffer
  <2> QED BY <1>1, <1>2, <2>1, GoesOnAlone
<1>11. FollowUp!TypeOK'
  <2>1. v3' \in [FollowUp!Ids -> FollowUp!Row \cup {FollowUp!NoRow}]
    BY <1>1, <1>4, <1>20 DEF FollowUp!TypeOK
  <2>2. v4[r].row.file \in 0..FollowUpUploads[v1]
    BY <1>2 DEF FollowUp!Row
  <2>3. v7' \in [FollowUp!Ids -> 0..FollowUpUploads[v1]]
    BY <1>1, <1>4, <2>2 DEF FollowUp!TypeOK
  <2>4. v8' \in [FollowUp!Ids -> Nat]
    BY <1>1, <1>4 DEF FollowUp!TypeOK
  <2>5. v10' \subseteq FollowUp!Ids
    BY <1>1, <1>4 DEF FollowUp!TypeOK
  <2> QED BY <1>1, <1>7, <1>9, <2>1, <2>3, <2>4, <2>5
          DEF FollowUp!TypeOK, FollowUp!StatusOf, FollowUp!NoRow
<1>12. FollowUp!CallsFit'
  <2>1. FollowUp!Fits(r)'
    BY <1>1, <1>2, <1>5, <1>8, <1>9 DEF FollowUp!Fits, FollowUp!Idle
  <2> QED BY <1>1, <1>8, <1>9, <2>1, SlotFits DEF FollowUp!CallsFit
<1>13. FollowUp!RowsInTurn'
  <2>1. \A j \in FollowUp!There : v1 # "interview" => v3'[j].resolution = "none"
    BY <1>2, <1>3, <1>6, <1>20, FollowUpKind DEF FollowUp!RowsInTurn
  <2>2. \A j \in FollowUp!Ids \ FollowUp!There : v8'[j] = v8[j]
    BY <1>1, <1>2 DEF FollowUp!TypeOK
  <2> QED BY <1>1, <1>7, <1>8, <2>1, <2>2 DEF FollowUp!RowsInTurn
<1>14. FollowUp!ApprovedAsReviewed'
  <2> SUFFICES ASSUME NEW j \in FollowUp!There \ v10', v3'[j].status = "approved"
               PROVE  v3'[j].file = v7'[j]
    BY <1>8 DEF FollowUp!ApprovedAsReviewed
  <2>1. CASE j = i
    <3>1. v1 # "interview"
      <4>1. v3'[j] \in FollowUp!Row
        BY <1>6, <1>20, <2>1
      <4> QED BY <4>1, FollowUpKind, KindsDiffer DEF FollowUp!Row
    <3>2. v3'[j] = saved
      BY <1>1, <1>6, <1>20, <2>1, <3>1
    <3> QED BY <1>1, <1>3, <1>4, <2>1, <3>2 DEF FollowUp!TypeOK
  <2>2. CASE j # i
    <3>1. v3'[j] = v3[j] /\ v7'[j] = v7[j]
      BY <1>1, <1>6, <2>2, FollowUpKind DEF FollowUp!TypeOK
    <3> QED BY <1>1, <3>1 DEF FollowUp!ApprovedAsReviewed
  <2> QED BY <2>1, <2>2
<1>15. ~v9 => v4[r].row = v3[i] /\ new = saved
  <2>1. ~v9 => v4[r].row = v3[i] /\ v3[i] = v4[r].base
    BY <1>1 DEF FollowUp!Alone, i
  <2> QED BY <1>20, <2>1
<1>16. FollowUp!RevisionsCounted'
  <2> SUFFICES ASSUME ~v9, NEW j \in FollowUp!There
               PROVE  v3'[j].revision = 1 + v8'[j]
    BY <1>1, <1>8 DEF FollowUp!RevisionsCounted
  <2>1. v3[j].revision = 1 + v8[j] /\ v8[j] \in Nat
    BY FollowUpKind DEF FollowUp!RevisionsCounted, FollowUp!TypeOK
  <2>2. CASE j = i
    BY <1>1, <1>3, <1>4, <1>6, <1>15, <2>1, <2>2 DEF FollowUp!TypeOK
  <2>3. CASE j # i
    BY <1>1, <1>6, <2>1, <2>3, FollowUpKind DEF FollowUp!TypeOK
  <2> QED BY <2>2, <2>3
<1>17. FollowUp!InterviewsGoOn'
  <2> SUFFICES ASSUME v1 = "interview", ~v9
               PROVE  /\ ~(FollowUp!There # {} /\ v2 = "open")
                      /\ \A j \in FollowUp!There : v3'[j].status = "rescheduled"
                           => \/ \E k \in FollowUp!There : v3'[k].from = j
                              \/ v4'[r].op = "again" /\ v4'[r].id = j
    BY <1>1, <1>8 DEF FollowUp!InterviewsGoOn
  <2>1. \A q \in Requests : v4[q].op \notin {"again", "move"}
    <3>1. v4[r].op \notin {"again", "move"}
      BY <1>1, FollowUpKind, KindsDiffer
    <3> QED BY <1>2, <3>1 DEF FollowUp!Alone, FollowUp!Idle
  <2>2. /\ ~(FollowUp!There # {} /\ v2 = "open")
        /\ \A j \in FollowUp!There : v3[j].status = "rescheduled"
                                        => \E k \in FollowUp!There : v3[k].from = j
    BY <2>1 DEF FollowUp!InterviewsGoOn
  <2>3. \A k \in FollowUp!There : v3'[k].from = v3[k].from
    BY <1>3, <1>6, <1>15, FollowUpKind
  <2> SUFFICES ASSUME NEW j \in FollowUp!There, v3'[j].status = "rescheduled"
               PROVE  \/ \E k \in FollowUp!There : v3'[k].from = j
                      \/ v4'[r].op = "again" /\ v4'[r].id = j
    BY <2>2
  <2>4. CASE v3[j].status = "rescheduled"
    BY <2>2, <2>3, <2>4
  <2>5. CASE v3[j].status # "rescheduled"
    <3>1. j = i
      BY <1>6, <2>5, FollowUpKind
    <3>2. v4[r].op = "reschedule"
      BY <1>3, <1>6, <1>15, <2>5, <3>1
    <3> QED BY <1>5, <1>9, <3>1, <3>2
  <2> QED BY <2>4, <2>5
<1> QED BY <1>10, <1>11, <1>12, <1>13, <1>14, <1>16, <1>17

LEMMA FollowUpRescheduleInsert ==
    ASSUME FollowUp!FollowUpInv, NEW r \in Requests, FollowUp!RescheduleInsert(r)
    PROVE  FollowUp!FollowUpInv'
<1> DEFINE row == [FollowUp!New("scheduled", 0) EXCEPT !.from = v4[r].id]
<1> USE DEF FollowUp!FollowUpInv
<1>1. /\ v4[r].op = "again" /\ FollowUp!Insert(row) /\ FollowUp!Goes(r, FollowUp!Idle)
      /\ UNCHANGED <<v1, v2, v5, v6, v7, v8, v9, v10>>
  BY DEF FollowUp!RescheduleInsert, FollowUp!History
<1>2. v4[r] # FollowUp!Idle /\ v1 = "interview" /\ v4[r].id \in FollowUp!There
  <2>1. "again" \notin FollowUp!OpsOf[v1]
    BY FollowUpKind, KindsDiffer
  <2> QED BY <1>1, <2>1 DEF FollowUp!CallsFit, FollowUp!Fits, FollowUp!Idle
<1>3. /\ row \in FollowUp!Row /\ row.status = "scheduled" /\ row.revision = 1
      /\ row.resolution = "none" /\ row.from = v4[r].id
  <2>1. "scheduled" \in FollowUp!StatusOf[v1] /\ 0 \in 0..FollowUpUploads[v1]
    BY <1>2, FollowUpKind DEF FollowUp!StatusOf, FollowUp!InterviewStatus
  <2>2. v4[r].id \in FollowUp!Ids
    BY <1>2, FollowUpKind
  <2>3. row \in FollowUp!Row
    BY <2>1, <2>2, NewRow
  <2> QED BY <2>3 DEF FollowUp!New
<1> HIDE DEF row
<1>4. /\ FollowUp!Ids' = FollowUp!Ids /\ FollowUp!Row' = FollowUp!Row
      /\ v3' \in [FollowUp!Ids -> FollowUp!Row \cup {FollowUp!NoRow}]
      /\ FollowUp!RowsInTurn' /\ FollowUp!ApprovedAsReviewed' /\ FollowUp!RevisionsCounted'
      /\ \E i \in FollowUp!Ids \ FollowUp!There :
           FollowUp!There' = FollowUp!There \cup {i} /\ v3' = [v3 EXCEPT ![i] = row]
  BY <1>1, <1>3, RowInserted
<1>5. /\ DOMAIN v4' = Requests /\ v4'[r] = FollowUp!Idle
      /\ \A q \in Requests \ {r} : v4'[q] = v4[q]
  BY <1>1, SlotGoes
<1>6. FollowUp!Alone'
  <2>1. FollowUp!Idle.op \notin FollowUp!OpsOf[v1]
    BY FollowUpKind, KindsDiffer DEF FollowUp!Idle
  <2> QED BY <1>1, <1>2, <2>1, GoesOnAlone
<1>7. FollowUp!TypeOK'
  BY <1>1, <1>4, <1>5 DEF FollowUp!TypeOK, FollowUp!StatusOf, FollowUp!NoRow
<1>8. FollowUp!CallsFit'
  BY <1>1, <1>4, <1>5, SlotFits DEF FollowUp!CallsFit
<1>9. FollowUp!InterviewsGoOn'
  <2> SUFFICES ASSUME ~v9
               PROVE  /\ v2 # "open"
                      /\ \A i \in FollowUp!There' : v3'[i].status = "rescheduled"
                           => \E j \in FollowUp!There' : v3'[j].from = i
    BY <1>1 DEF FollowUp!InterviewsGoOn
  <2>1. \A q \in Requests : v4[q].op # "move" /\ (v4[q].op = "again" => q = r)
    BY <1>1, <1>2 DEF FollowUp!Alone, FollowUp!Idle
  <2>2. /\ v2 # "open"
        /\ \A i \in FollowUp!There : v3[i].status = "rescheduled"
             => i = v4[r].id \/ \E j \in FollowUp!There : v3[j].from = i
    BY <1>2, <2>1 DEF FollowUp!InterviewsGoOn
  <2>3. PICK i \in FollowUp!Ids \ FollowUp!There :
              FollowUp!There' = FollowUp!There \cup {i} /\ v3' = [v3 EXCEPT ![i] = row]
    BY <1>4
  <2>4. v3'[i] = row /\ \A j \in FollowUp!There : v3'[j] = v3[j]
    BY <2>3, FollowUpKind DEF FollowUp!TypeOK
  <2> QED BY <1>3, <2>2, <2>3, <2>4
<1> QED BY <1>4, <1>6, <1>7, <1>8, <1>9

LEMMA FollowUpRestart ==
    ASSUME FollowUp!FollowUpInv, FollowUp!Restart
    PROVE  FollowUp!FollowUpInv'
<1> USE DEF FollowUp!FollowUpInv
<1>1. /\ v6' = v6 + 1 /\ v6 < MaxRestarts
      /\ v9' = (v9 \/ \E r \in Requests : v4[r] # FollowUp!Idle)
      /\ v4' = [r \in Requests |-> FollowUp!Idle]
      /\ UNCHANGED <<v1, v2, v3, v5, v7, v8, v10>>
  BY DEF FollowUp!Restart, FollowUp!History
<1>2. /\ v9' \in BOOLEAN /\ (v9 => v9')
      /\ ~v9' => \A r \in Requests : v4[r] = FollowUp!Idle
  BY <1>1 DEF FollowUp!TypeOK
<1>3. /\ FollowUp!There' = FollowUp!There /\ FollowUp!Ids' = FollowUp!Ids
      /\ FollowUp!Row' = FollowUp!Row
      /\ FollowUp!RowsInTurn' /\ FollowUp!ApprovedAsReviewed' /\ FollowUp!RevisionsCounted'
  BY <1>1, <1>2, RowsStay
<1>4. v6' \in 0..MaxRestarts
  BY <1>1, ServicesAssumption DEF FollowUp!FollowUpAssumption, FollowUp!TypeOK
<1>5. FollowUp!TypeOK'
  BY <1>1, <1>2, <1>3, <1>4 DEF FollowUp!TypeOK, FollowUp!StatusOf, FollowUp!NoRow
<1>6. FollowUp!CallsFit'
  BY <1>1, <1>3, SlotFits DEF FollowUp!CallsFit
<1>7. FollowUp!Alone'
  <2>1. FollowUp!Idle.op \notin FollowUp!OpsOf[v1]
    BY FollowUpKind, KindsDiffer DEF FollowUp!Idle
  <2>2. \A r \in Requests : v4'[r] = FollowUp!Idle
    BY <1>1
  <2> QED BY <1>1, <2>1, <2>2 DEF FollowUp!Alone, FollowUp!Idle, FollowUp!OpsOf
<1>8. FollowUp!InterviewsGoOn'
  <2>1. ~v9' => \A r \in Requests : v4[r].op = "none"
    BY <1>2 DEF FollowUp!Idle
  <2> QED BY <1>1, <1>2, <1>3, <2>1 DEF FollowUp!InterviewsGoOn
<1> QED BY <1>3, <1>5, <1>6, <1>7, <1>8

LEMMA FollowUpStep == FollowUp!FollowUpInv /\ FollowUp!Next => FollowUp!FollowUpInv'
BY FollowUpAdvance, FollowUpRestart, FollowUpCreate, FollowUpScheduleStart,
   FollowUpScheduleSave, FollowUpScheduleMove, FollowUpSaveSelect, FollowUpSaveUpdate, FollowUpRescheduleInsert,
   FollowUpRead
DEF FollowUp!Next, FollowUp!Schedule

LEMMA FollowUpStutter ==
    ASSUME FollowUp!FollowUpInv, UNCHANGED all
    PROVE  FollowUp!FollowUpInv'
<1> USE DEF FollowUp!FollowUpInv
<1>1. UNCHANGED <<v1, v2, v3, v4, v5, v6, v7, v8, v9, v10>>
  BY DEF all
<1>2. /\ FollowUp!There' = FollowUp!There /\ FollowUp!Ids' = FollowUp!Ids
      /\ FollowUp!Row' = FollowUp!Row
      /\ FollowUp!RowsInTurn' /\ FollowUp!ApprovedAsReviewed' /\ FollowUp!RevisionsCounted'
  BY <1>1, RowsStay
<1>3. FollowUp!TypeOK'
  BY <1>1, <1>2 DEF FollowUp!TypeOK, FollowUp!StatusOf, FollowUp!NoRow
<1>4. FollowUp!CallsFit'
  BY <1>1, <1>2, SlotFits DEF FollowUp!CallsFit
<1>5. FollowUp!Alone'
  BY <1>1 DEF FollowUp!Alone, FollowUp!Idle, FollowUp!OpsOf
<1>6. FollowUp!InterviewsGoOn'
  BY <1>1, <1>2 DEF FollowUp!InterviewsGoOn
<1> QED BY <1>2, <1>3, <1>4, <1>5, <1>6

\* A row that is reopened, or whose resolution is undone, is saved by a request that had
\* loaded it before.
LEMMA FollowUpUndone ==
    ASSUME FollowUp!FollowUpInv, FollowUp!Next
    PROVE  FollowUp!ReopenedByEarlier /\ FollowUp!UndoneByEarlier
<1> USE DEF FollowUp!FollowUpInv
<1>1. ASSUME NEW i \in FollowUp!There, v3'[i] # v3[i]
      PROVE  \E r \in Requests : FollowUp!SaveUpdate(r) /\ v4[r].id = i
  <2>1. ASSUME NEW row, FollowUp!Insert(row) PROVE FALSE
    <3>1. FollowUp!Next1 \notin FollowUp!There
      BY NextRow
    <3> QED BY <1>1, <2>1, <3>1, FollowUpKind DEF FollowUp!Insert, FollowUp!TypeOK
  <2>2. PICK r \in Requests : FollowUp!SaveUpdate(r)
    BY <1>1, <2>1
    DEF FollowUp!Next, FollowUp!Advance, FollowUp!Restart, FollowUp!CreateDeliverable,
        FollowUp!BulkCreateDeliverable, FollowUp!SubmitDeliverable,
        FollowUp!RequestSelectionDocument, FollowUp!Schedule, FollowUp!ScheduleStart,
        FollowUp!ScheduleSave, FollowUp!ScheduleMove, FollowUp!SaveSelect,
        FollowUp!RescheduleInsert, FollowUp!Read
  <2>3. v3' = [v3 EXCEPT ![v4[r].id] =
                 FollowUp!Merged(@, v4[r].base, FollowUp!Saved(v4[r]))]
    BY <2>2 DEF FollowUp!SaveUpdate
  <2> QED BY <1>1, <2>2, <2>3, FollowUpKind DEF FollowUp!TypeOK
<1>2. ASSUME NEW i \in FollowUp!There, NEW r \in Requests, FollowUp!SaveUpdate(r), v4[r].id = i
      PROVE  /\ v4[r].op \in FollowUp!OpsOf[v1] /\ FollowUp!Admits(v4[r].op, v4[r].row)
             /\ v1 # "interview" => v3[i].resolution = "none"
             /\ v3[i].resolution # "none" /\ v3'[i].resolution = "none"
                  => v4[r].row.resolution = "none"
  <2> DEFINE saved == FollowUp!Saved(v4[r])
             new == FollowUp!Merged(v3[i], v4[r].base, saved)
  <2>1. /\ v4[r].op \in FollowUp!OpsOf[v1] /\ v4[r].step = "update"
        /\ v3' = [v3 EXCEPT ![i] = new]
    BY <1>2 DEF FollowUp!SaveUpdate, FollowUp!Holds
  <2>2. v3'[i] = new /\ v3[i] \in FollowUp!Row
    BY <2>1, FollowUpKind DEF FollowUp!TypeOK
  <2>3. /\ FollowUp!Admits(v4[r].op, v4[r].row) /\ v4[r].base \in FollowUp!Row
        /\ saved \in FollowUp!Row
        /\ saved.resolution = "none" => v4[r].row.resolution = "none"
    BY <2>1, SlotLoaded, RowChanged DEF FollowUp!Saved
  <2> HIDE DEF saved
  <2>4. new.resolution \in {saved.resolution, v3[i].resolution}
    BY <2>2, <2>3, RowMerged
  <2>5. v1 # "interview" => v3[i].resolution = "none"
    BY DEF FollowUp!RowsInTurn
  <2> QED BY <2>1, <2>2, <2>3, <2>4, <2>5
<1>3. FollowUp!ReopenedByEarlier
  <2> SUFFICES ASSUME NEW i \in FollowUp!There, v1 = "deliverable", v3[i].status = "approved",
                      v3'[i].status # "approved"
               PROVE  \E r \in Requests : /\ v4[r].op \in FollowUp!OpsOf["deliverable"]
                                          /\ v4[r].id = i /\ v4[r].row.status # "approved"
    BY DEF FollowUp!ReopenedByEarlier
  <2>1. PICK r \in Requests : FollowUp!SaveUpdate(r) /\ v4[r].id = i
    BY <1>1
  <2>2. v4[r].op \in {"update", "approve", "reject", "revise"}
        /\ FollowUp!Admits(v4[r].op, v4[r].row)
    BY <1>2, <2>1, KindsDiffer
  <2>3. v4[r].row.status # "approved"
    BY <2>2 DEF FollowUp!Admits, FollowUp!Reviewing
  <2> QED BY <1>2, <2>1, <2>3
<1>4. FollowUp!UndoneByEarlier
  <2> SUFFICES ASSUME NEW i \in FollowUp!There, v3[i].resolution # "none",
                      v3'[i].resolution = "none"
               PROVE  \E r \in Requests : /\ v4[r].op \in FollowUp!OpsOf["interview"]
                                          /\ v4[r].id = i /\ v4[r].row.resolution = "none"
    BY DEF FollowUp!UndoneByEarlier
  <2>1. PICK r \in Requests : FollowUp!SaveUpdate(r) /\ v4[r].id = i
    BY <1>1
  <2> QED BY <1>2, <2>1
<1> QED BY <1>3, <1>4
=============================================================================
