-------------------------- MODULE ChatConversation --------------------------
(***************************************************************************)
(* One conversation of chat-service (chat.service.ts): its participants,   *)
(* its messages and their reactions, while several requests run at a time. *)
(* A request is split at each statement on the database: participants and  *)
(* messages are read, changed in memory and saved, while the counts of     *)
(* unread messages are raised by one statement. The save of a message is   *)
(* two statements: it reads the row again and writes the columns in which  *)
(* that differs from what the request has in hand. That of a participant,  *)
(* of whom nothing is said once others wrote to him meanwhile (raced), is  *)
(* one step.                                                               *)
(*                                                                         *)
(* What a message says is "text" as it was sent, "edited" or, once it was  *)
(* deleted, "none"; attachments are part of the message, and its place in  *)
(* the sequence is its createdAt. The mark of the last message that was    *)
(* read is left out.                                                       *)
(***************************************************************************)
EXTENDS Integers, Sequences, FiniteSets

CONSTANTS
    Users,         \* the participants
    Requests,      \* slots for the requests that run at a time
    MaxMessages,   \* bound on the messages
    MaxReacted,    \* bound on the messages that get reactions
    Mixes,         \* bound: the sets of operations that are requested together
    MaxRestarts    \* bound on the restarts of chat-service

ConversationAssumption == IsFiniteSet(Requests) /\ {MaxMessages, MaxReacted} \subseteq Nat

VARIABLES
    mix,           \* the operations that are requested
    participant,   \* [user |-> its row in conversation_participants]
    message,       \* messages, oldest first
    reactions,     \* [<<message, user>> |-> how many rows of one emoji]
    lastMessage,   \* lastMessageAt of the conversation
    call,          \* what runs in each slot
    restarts,
    notified,      \* history: [user |-> messages he was told of and has not read]
    raced,         \* history: users whose row was read while it changed
    doubled,       \* history: <<message, user>> with two reactions at a time
    slipped        \* history: messages that changed between the statements of a save

vars == <<mix, participant, message, reactions, lastMessage, call, restarts, notified,
          raced, doubled, slipped>>
History == <<mix, notified, raced, doubled, slipped>>

Ids == 1..Len(message)
Idle == [op |-> "none"]
Participant == [active : BOOLEAN, unread : Nat]
Message == [sender : Users, content : {"text", "edited", "none"}, isDeleted : BOOLEAN]

Running(op) == {q \in Requests : call[q].op = op}
RowOps == {"read", "archive", "rejoin"}
Holding(u) == {q \in Requests : call[q].op \in RowOps /\ call[q].whose = u}

Init ==
    /\ mix \in Mixes
    /\ participant = [u \in Users |-> [active |-> TRUE, unread |-> 0]]
    /\ message = <<>> /\ lastMessage = 0
    /\ reactions = [x \in (1..MaxReacted) \X Users |-> 0]
    /\ call = [r \in Requests |-> Idle]
    /\ notified = [u \in Users |-> 0]
    /\ raced = {} /\ doubled = {} /\ slipped = {} /\ restarts = 0

\* assertParticipant
Asserted(u) == participant[u].active

Goes(r, c) == call' = [call EXCEPT ![r] = c]

(***************************************************************************)
(* sendMessage                                                             *)
(***************************************************************************)
SendStart(r, u) ==
    /\ call[r] = Idle /\ "send" \in mix /\ Asserted(u)
    /\ Len(message) + Cardinality({q \in Running("send") : call[q].step = "insert"})
            < MaxMessages
    /\ Goes(r, [op |-> "send", step |-> "insert", sender |-> u])
    /\ raced' = raced \cup {w \in Users \ {u} : Holding(w) # {}}
    /\ UNCHANGED <<mix, participant, message, reactions, lastMessage, restarts, notified,
                   doubled, slipped>>

SendInsert(r) ==
    /\ call[r].op = "send" /\ call[r].step = "insert"
    /\ message' = Append(message, [sender |-> call[r].sender, content |-> "text",
                                   isDeleted |-> FALSE])
    /\ Goes(r, [op |-> "send", step |-> "summary", sender |-> call[r].sender,
                id |-> Len(message')])
    /\ UNCHANGED <<participant, reactions, lastMessage, restarts, History>>

SendSummary(r) ==
    /\ call[r].op = "send" /\ call[r].step = "summary"
    /\ lastMessage' = call[r].id
    /\ Goes(r, [op |-> "send", step |-> "count", sender |-> call[r].sender])
    /\ UNCHANGED <<participant, message, reactions, restarts, History>>

\* Whom a message is for.
Others(sender) == {u \in Users \ {sender} : participant[u].active}

\* One statement of the database for all rows.
SendCount(r) ==
    /\ call[r].op = "send" /\ call[r].step = "count"
    /\ participant' = [u \in Users |->
            IF u # call[r].sender /\ participant[u].active
            THEN [participant[u] EXCEPT !.unread = @ + 1] ELSE participant[u]]
    /\ Goes(r, [op |-> "send", step |-> "tell", sender |-> call[r].sender])
    /\ UNCHANGED <<message, reactions, lastMessage, restarts, History>>

\* recipientIds of chat.message.sent are read again.
SendTell(r) ==
    /\ call[r].op = "send" /\ call[r].step = "tell"
    /\ notified' = [u \in Users |->
            IF u \in Others(call[r].sender) THEN notified[u] + 1 ELSE notified[u]]
    /\ Goes(r, Idle)
    /\ UNCHANGED <<mix, participant, message, reactions, lastMessage, restarts, raced,
                   doubled, slipped>>

Send(r) ==
    (\E u \in Users : SendStart(r, u))
        \/ SendInsert(r) \/ SendSummary(r) \/ SendCount(r) \/ SendTell(r)

(***************************************************************************)
(* editMessage and deleteMessage                                           *)
(***************************************************************************)
\* Only its sender; for an edit, while the message is young enough.
ChangeLoad(r, op, m) ==
    /\ call[r] = Idle /\ op \in mix /\ ~message[m].isDeleted
    /\ Goes(r, [op |-> op, step |-> "select", id |-> m, row |-> message[m]])
    /\ UNCHANGED <<participant, message, reactions, lastMessage, restarts, History>>

\* What save(message) is to leave.
Edited(row) == [row EXCEPT !.content = "edited"]
Deleted(row) == [row EXCEPT !.isDeleted = TRUE, !.content = "none"]
Saved(c) == IF c.op = "edit" THEN Edited(c.row) ELSE Deleted(c.row)

Changing(r, step) == call[r].op \in {"edit", "delete"} /\ call[r].step = step

SaveSelect(r) ==
    /\ Changing(r, "select")
    /\ Goes(r, [op |-> call[r].op, step |-> "update", id |-> call[r].id,
                row |-> call[r].row, base |-> message[call[r].id]])
    /\ UNCHANGED <<participant, message, reactions, lastMessage, restarts, History>>

\* The columns that are to be other than they were found.
Merged(row, base, saved) ==
    [k \in DOMAIN row |-> IF saved[k] # base[k] THEN saved[k] ELSE row[k]]

SaveUpdate(r) ==
    /\ Changing(r, "update")
    /\ LET c == call[r] IN
       /\ message' = [message EXCEPT ![c.id] = Merged(@, c.base, Saved(c))]
       /\ slipped' = IF message[c.id] # c.base THEN slipped \cup {c.id} ELSE slipped
    /\ Goes(r, Idle)
    /\ UNCHANGED <<mix, participant, reactions, lastMessage, restarts, notified, raced,
                   doubled>>

(***************************************************************************)
(* markConversationAsRead, archiveConversation, ensureParticipants         *)
(***************************************************************************)
\* ensureParticipants brings back whoever archived the conversation.
RowLoad(r, op, u) ==
    /\ call[r] = Idle /\ op \in mix /\ Asserted(u) = (op # "rejoin")
    /\ Goes(r, [op |-> op, whose |-> u, row |-> participant[u]])
    /\ raced' = IF Holding(u) # {} \/ \E q \in Running("send") : call[q].sender # u
                THEN raced \cup {u} ELSE raced
    /\ UNCHANGED <<mix, participant, message, reactions, lastMessage, restarts, notified,
                   doubled, slipped>>

RowSave(r, op, row) ==
    /\ call[r].op = op
    /\ participant' = [participant EXCEPT ![call[r].whose] = row]
    /\ Goes(r, Idle)
    /\ UNCHANGED <<mix, message, reactions, lastMessage, restarts, raced, doubled, slipped>>

ReadSave(r) ==
    /\ RowSave(r, "read", [call[r].row EXCEPT !.unread = 0])
    /\ notified' = [notified EXCEPT ![call[r].whose] = 0]

ArchiveSave(r) ==
    RowSave(r, "archive", [call[r].row EXCEPT !.active = FALSE]) /\ UNCHANGED notified

RejoinSave(r) ==
    RowSave(r, "rejoin", [call[r].row EXCEPT !.active = TRUE]) /\ UNCHANGED notified

(***************************************************************************)
(* addReaction and removeReaction                                          *)
(***************************************************************************)
FirstOf(m, u) == reactions[m, u] = 0

ReactLoad(r, m, u) ==
    /\ call[r] = Idle /\ "react" \in mix
    /\ ~message[m].isDeleted /\ Asserted(u) /\ FirstOf(m, u)
    /\ Goes(r, [op |-> "react", on |-> <<m, u>>])
    /\ doubled' = IF \E q \in Running("react") : call[q].on = <<m, u>>
                  THEN doubled \cup {<<m, u>>} ELSE doubled
    /\ UNCHANGED <<mix, participant, message, reactions, lastMessage, restarts, notified,
                   raced, slipped>>

ReactSave(r) ==
    /\ call[r].op = "react"
    /\ reactions' = [reactions EXCEPT ![call[r].on] = @ + 1]
    /\ Goes(r, Idle)
    /\ UNCHANGED <<participant, message, lastMessage, restarts, History>>

\* It asks neither whether the message is deleted nor who still takes part.
removeReaction(m, u) ==
    /\ reactions[m, u] > 0
    /\ reactions' = [reactions EXCEPT ![<<m, u>>] = @ - 1]
    /\ UNCHANGED <<participant, message, lastMessage, call, restarts, History>>

Restart ==
    /\ restarts < MaxRestarts /\ restarts' = restarts + 1
    /\ call' = [r \in Requests |-> Idle]
    /\ raced' = IF Running("send") # {} THEN Users ELSE raced
    /\ UNCHANGED <<mix, participant, message, reactions, lastMessage, notified, doubled,
                   slipped>>

Next ==
    \/ Restart
    \/ \E r \in Requests :
         \/ Send(r)
         \/ \E m \in Ids : ChangeLoad(r, "edit", m) \/ ChangeLoad(r, "delete", m)
         \/ SaveSelect(r) \/ SaveUpdate(r)
         \/ \E op \in RowOps : \E u \in Users : RowLoad(r, op, u)
         \/ ReadSave(r) \/ ArchiveSave(r) \/ RejoinSave(r)
         \/ \E m \in Ids \cap 1..MaxReacted : \E u \in Users : ReactLoad(r, m, u)
         \/ ReactSave(r)
    \/ \E m \in Ids \cap 1..MaxReacted : \E u \in Users : removeReaction(m, u)

Spec == Init /\ [][Next]_vars

(***************************************************************************)
(* Properties                                                              *)
(***************************************************************************)
TypeOK ==
    /\ participant \in [Users -> Participant]
    /\ message \in Seq(Message) /\ Len(message) <= MaxMessages
    /\ lastMessage \in 0..Len(message)
    /\ reactions \in [(1..MaxReacted) \X Users -> 0..Cardinality(Requests)]
    /\ \A r \in Requests :
         call[r].op \in {"none", "send", "edit", "delete", "react"} \cup RowOps
    /\ notified \in [Users -> Nat] /\ raced \subseteq Users /\ slipped \subseteq Ids

\* The count of unread messages is that of the messages he was notified of since he
\* last read, for whoever has no row that was saved while somebody else wrote to him.
UnreadWasNotified ==
    \A u \in Users \ raced :
        (\A q \in Running("send") : call[q].sender = u \/ call[q].step # "tell")
            => participant[u].unread = notified[u]

\* A deleted message says nothing and any other one does: an edit that comes late brings
\* the whole message back, or none of it, unless it came between the two statements of
\* the deletion's save or the deletion between those of its own.
DeletedSaysNothing ==
    \A m \in Ids \ slipped : message[m].isDeleted <=> message[m].content = "none"

\* Nobody reacts twice with one emoji, unless two of his reactions overlapped.
OneReactionEach ==
    \A x \in DOMAIN reactions \ doubled : reactions[x] <= 1

(***************************************************************************)
(* What every step keeps                                                   *)
(***************************************************************************)
\* What a request has read.
CallsAreTyped ==
    /\ DOMAIN call = Requests
    /\ \A r \in Requests :
        /\ call[r].op = "send"
             => /\ call[r].step \in {"insert", "summary", "count", "tell"}
                /\ call[r].sender \in Users
                /\ call[r].step = "summary" => call[r].id \in Ids
        /\ call[r].op \in {"edit", "delete"}
             => /\ call[r].step \in {"select", "update"}
                /\ call[r].id \in Ids /\ call[r].row \in Message
                /\ ~call[r].row.isDeleted
                /\ call[r].id \in slipped \/ call[r].row.content # "none"
                /\ call[r].step = "update" => call[r].base \in Message
        /\ call[r].op \in RowOps => call[r].whose \in Users /\ call[r].row \in Participant
        /\ call[r].op = "react" => call[r].on \in (1..MaxReacted) \X Users

\* Room for the messages that are about to be inserted.
Inserting == {q \in Running("send") : call[q].step = "insert"}
RoomForMessages == Len(message) + Cardinality(Inserting) <= MaxMessages

\* The reactions that are there and about to be.
Reacting(x) == {q \in Running("react") : call[q].on = x}
ReactionsAddUp ==
    \A x \in DOMAIN reactions :
        /\ reactions[x] + Cardinality(Reacting(x)) <= Cardinality(Requests)
        /\ x \notin doubled => reactions[x] + Cardinality(Reacting(x)) <= 1

\* Of the messages to u, those that are counted and not told of yet.
Telling(u) == {q \in Running("send") : call[q].step = "tell" /\ call[q].sender # u}
SendingTo(u) == {q \in Running("send") : call[q].sender # u}

\* Without a race a row has one holder, who has what is there, and nobody writes to him.
UnreadAddsUp ==
    \A u \in Users \ raced :
        /\ \A q \in Holding(u) : /\ call[q].row = participant[u]
                                 /\ SendingTo(u) = {}
                                 /\ Holding(u) = {q}
        /\ participant[u].unread = notified[u]
              + IF participant[u].active THEN Cardinality(Telling(u)) ELSE 0

ConversationInv ==
    /\ TypeOK /\ CallsAreTyped /\ DeletedSaysNothing
    /\ RoomForMessages /\ ReactionsAddUp /\ UnreadAddsUp
===============================================================================
