----------------------------- MODULE ChatGateway -----------------------------
(***************************************************************************)
(* The WebSocket gateway of chat-service (chat.gateway.ts): the sockets of *)
(* one user, whether the others are told that he is online, and what his   *)
(* sockets show of one conversation while others write in it.              *)
(*                                                                         *)
(* Every handler awaits the database in between, so that handlers of       *)
(* several sockets overlap. A message goes out to the room of the          *)
(* conversation at the end of sendMessage, well after it was inserted.     *)
(***************************************************************************)
EXTENDS Integers, FiniteSets

CONSTANTS
    Sockets,       \* of one user
    MaxMessages,   \* bound on the messages
    MaxFaults,     \* bound on the queries that fail
    MaxRestarts    \* bound on the restarts of chat-service

VARIABLES
    activeUsers,   \* the sockets the gateway has of the user
    announcing,    \* the changes of his status it is about to send
    told,          \* the status that was sent last
    member,        \* he takes part in the conversation
    room,          \* his sockets in the room of the conversation
    joining,       \* [socket |-> how far its join is]
    history,       \* [socket |-> what its join has read]
    shown,         \* [socket |-> the messages it has received]
    caughtUp,      \* the sockets in the room that received the history
    message,       \* [message |-> none, inserted or sent]
    faults, restarts,
    raced          \* history: two changes of status overlapped, or one was not sent

vars == <<activeUsers, announcing, told, member, room, joining, history, shown, caughtUp,
          message, faults, restarts, raced>>
Presence == <<activeUsers, announcing, told, raced>>
Rooms == <<room, joining, history, shown, caughtUp>>

Messages == 1..MaxMessages
Inserted == {m \in Messages : message[m] # "none"}

Init ==
    /\ activeUsers = {} /\ announcing = {} /\ told = "offline" /\ raced = FALSE
    /\ member = TRUE /\ room = {} /\ caughtUp = {}
    /\ joining = [s \in Sockets |-> "no"]
    /\ history = [s \in Sockets |-> {}] /\ shown = history
    /\ message = [m \in Messages |-> "none"]
    /\ faults = 0 /\ restarts = 0

(***************************************************************************)
(* Presence                                                                *)
(***************************************************************************)
First(sockets) == Cardinality(sockets) = 1
Last(sockets) == sockets = {}

Announce(s, status) ==
    /\ announcing' = announcing \cup {[socket |-> s, status |-> status]}
    /\ raced' = (raced \/ announcing # {})

handleConnection(s) ==
    /\ s \notin activeUsers
    /\ \A a \in announcing : a.socket # s
    /\ activeUsers' = activeUsers \cup {s}
    /\ IF First(activeUsers') THEN Announce(s, "online") ELSE UNCHANGED <<announcing, raced>>
    /\ UNCHANGED <<told, member, Rooms, message, faults, restarts>>

\* The server takes the socket out of its rooms by itself.
handleDisconnect(s) ==
    /\ s \in activeUsers
    /\ activeUsers' = activeUsers \ {s}
    /\ IF Last(activeUsers') THEN Announce(s, "offline") ELSE UNCHANGED <<announcing, raced>>
    /\ room' = room \ {s} /\ caughtUp' = caughtUp \ {s}
    /\ joining' = [joining EXCEPT ![s] = "no"]
    /\ history' = [history EXCEPT ![s] = {}] /\ shown' = [shown EXCEPT ![s] = {}]
    /\ UNCHANGED <<told, member, message, faults, restarts>>

\* Once the conversations of the user are known; an error is only logged.
broadcastUserStatus(a) ==
    /\ announcing' = announcing \ {a}
    /\ \/ told' = a.status /\ UNCHANGED <<raced, faults>>
       \/ /\ faults < MaxFaults /\ faults' = faults + 1
          /\ raced' = TRUE /\ UNCHANGED told
    /\ UNCHANGED <<activeUsers, member, Rooms, message, restarts>>

(***************************************************************************)
(* Rooms                                                                   *)
(***************************************************************************)
\* isParticipant
JoinStart(s) ==
    /\ s \in activeUsers /\ joining[s] = "no" /\ member
    /\ joining' = [joining EXCEPT ![s] = "allowed"]
    /\ UNCHANGED <<Presence, member, room, history, shown, caughtUp, message, faults, restarts>>

JoinRoom(s) ==
    /\ joining[s] = "allowed"
    /\ room' = room \cup {s}
    /\ joining' = [joining EXCEPT ![s] = "joined"]
    /\ UNCHANGED <<Presence, member, history, shown, caughtUp, message, faults, restarts>>

\* getMessages, which asks again; more than it reads is never there (limit 50).
JoinHistory(s) ==
    /\ joining[s] = "joined"
    /\ IF member
       THEN /\ history' = [history EXCEPT ![s] = Inserted]
            /\ joining' = [joining EXCEPT ![s] = "read"]
       ELSE joining' = [joining EXCEPT ![s] = "no"] /\ UNCHANGED history
    /\ UNCHANGED <<Presence, member, room, shown, caughtUp, message, faults, restarts>>

JoinEmit(s) ==
    /\ joining[s] = "read"
    /\ shown' = [shown EXCEPT ![s] = @ \cup history[s]]
    /\ caughtUp' = caughtUp \cup (room \cap {s})
    /\ joining' = [joining EXCEPT ![s] = "no"] /\ history' = [history EXCEPT ![s] = {}]
    /\ UNCHANGED <<Presence, member, room, message, faults, restarts>>

handleLeaveConversation(s) ==
    /\ s \in room
    /\ room' = room \ {s} /\ caughtUp' = caughtUp \ {s}
    /\ UNCHANGED <<Presence, member, joining, history, shown, message, faults, restarts>>

\* archiveConversation and ensureParticipants leave the room as it is.
Membership ==
    /\ member' = ~member
    /\ UNCHANGED <<Presence, Rooms, message, faults, restarts>>

(***************************************************************************)
(* sendMessage                                                             *)
(***************************************************************************)
SendInsert(m) ==
    /\ message[m] = "none"
    /\ message' = [message EXCEPT ![m] = "inserted"]
    /\ UNCHANGED <<Presence, member, Rooms, faults, restarts>>

Reached == room

SendBroadcast(m) ==
    /\ message[m] = "inserted"
    /\ message' = [message EXCEPT ![m] = "sent"]
    /\ shown' = [s \in Sockets |-> IF s \in Reached THEN shown[s] \cup {m} ELSE shown[s]]
    /\ UNCHANGED <<Presence, member, room, joining, history, caughtUp, faults, restarts>>

\* What was inserted and not sent stays in the history only.
Restart ==
    /\ restarts < MaxRestarts /\ restarts' = restarts + 1
    /\ raced' = TRUE /\ activeUsers' = {} /\ announcing' = {}
    /\ room' = {} /\ caughtUp' = {}
    /\ joining' = [s \in Sockets |-> "no"]
    /\ history' = [s \in Sockets |-> {}] /\ shown' = [s \in Sockets |-> {}]
    /\ UNCHANGED <<told, member, message, faults>>

Next ==
    \/ \E s \in Sockets :
         \/ handleConnection(s) \/ handleDisconnect(s)
         \/ JoinStart(s) \/ JoinRoom(s) \/ JoinHistory(s) \/ JoinEmit(s)
         \/ handleLeaveConversation(s)
    \/ \E a \in announcing : broadcastUserStatus(a)
    \/ \E m \in Messages : SendInsert(m) \/ SendBroadcast(m)
    \/ Membership \/ Restart

Spec == Init /\ [][Next]_vars

(***************************************************************************)
(* Properties                                                              *)
(***************************************************************************)
TypeOK ==
    /\ activeUsers \subseteq Sockets /\ room \subseteq activeUsers
    /\ announcing \subseteq [socket : Sockets, status : {"online", "offline"}]
    /\ told \in {"online", "offline"} /\ member \in BOOLEAN /\ raced \in BOOLEAN
    /\ joining \in [Sockets -> {"no", "allowed", "joined", "read"}]
    /\ history \in [Sockets -> SUBSET Messages] /\ shown \in [Sockets -> SUBSET Messages]
    /\ caughtUp \subseteq room
    /\ message \in [Messages -> {"none", "inserted", "sent"}]

\* A socket in the room that has its history lacks no message that was sent: the join
\* reads the history after it has entered the room.
NothingMissed ==
    \A s \in caughtUp : \A m \in Messages : message[m] = "sent" => m \in shown[s]

\* The others were told the status he has, with several sockets that come and go,
\* unless two changes overlapped or one could not be sent.
Status == IF activeUsers = {} THEN "offline" ELSE "online"
PresenceIsTold == (announcing = {} /\ ~raced) => told = Status

(***************************************************************************)
(* What every step keeps                                                   *)
(***************************************************************************)
\* What is about to be sent, else what was sent, is the status he has.
StatusIsComing ==
    ~raced => /\ \A a \in announcing : a.status = Status
              /\ announcing = {} => told = Status

\* A join in the room that has read the history lacks nothing of both.
JoinsCatchUp ==
    \A s \in Sockets :
        /\ joining[s] # "no" => s \in activeUsers
        /\ joining[s] = "read" /\ s \in room
             => \A m \in Messages : message[m] = "sent" => m \in history[s] \cup shown[s]

GatewayInv == TypeOK /\ NothingMissed /\ StatusIsComing /\ JoinsCatchUp
===============================================================================
