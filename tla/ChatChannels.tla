----------------------------- MODULE ChatChannels -----------------------------
(***************************************************************************)
(* The channels that chat-service opens by itself                          *)
(* (chat-events.subscriber.ts) for the applications to one project: who is *)
(* in them after any order of the events of application-service and        *)
(* admin-service. A handler looks for a channel and opens it in two        *)
(* statements; what it awaits may fail and is only logged.                 *)
(*                                                                         *)
(* People are [part, of]: the part they have and the application they have *)
(* it in. Every application has one asesor and at most one jurado of the   *)
(* anteproyecto. The messages of welcome are left out.                     *)
(***************************************************************************)
EXTENDS Integers, Sequences, FiniteSets

CONSTANTS
    Applications,  \* to the project
    MaxChannels,   \* bound on the conversations
    Scenarios,     \* bounds: what may happen to them, each a [kind, of], and how many
                   \* of its events are handled at a time: [events, handlers]
    MaxFaults,     \* bound on the calls of chat-service that fail
    MaxRestarts    \* bound on the restarts of chat-service

\* A disconnection names the project when an administrator asks for it, and does not
\* when the approval of the anteproyecto does.
Kinds == {"applicationAccepted", "supervisorAccepted", "juradoAssigned",
          "juradoDisconnected", "juradoAutoDisconnected"}

ChannelsAssumption ==
    /\ MaxChannels \in Nat
    /\ \A s \in Scenarios : s.events \subseteq [kind : Kinds, of : Applications]

VARIABLES
    scenario,      \* one of Scenarios
    jurado,        \* [application |-> none, accepted or disconnected], in admin-service
    happened,      \* what happened to the applications
    event,         \* [what happened |-> where its event is]
    channel,       \* conversations
    faults, restarts,
    overlapped,    \* history: two handlers ran at a time, or one was cut off
    early          \* history: applications whose jurado was there before the asesor accepted

vars == <<scenario, jurado, happened, event, channel, faults, restarts, overlapped, early>>
Desk == <<scenario, jurado, happened, early>>

Company == [part |-> "company", of |-> "project"]
Person(part, a) == [part |-> part, of |-> a]
People == [part : {"company", "student", "asesor", "jurado"}, of : {"project"} \cup Applications]

\* Direct channels are told apart by their two people, groups by name and project.
Directs == {"company-student", "asesor-student", "asesor-company"}
Groups == {"Equipo del proyecto", "Asesor y jurado"}
Team == "Equipo del proyecto"
Private == "Asesor y jurado"

Channel == [name : Directs \cup Groups, members : SUBSET People, isActive : BOOLEAN]

Nowhere == [at |-> "none"]
Queued == [at |-> "queued"]
Done == [at |-> "done"]
Events == scenario.events
Handling == {e \in Events : event[e].at \notin {"none", "queued", "done"}}

Init ==
    /\ scenario \in Scenarios
    /\ jurado = [a \in Applications |-> "none"] /\ happened = {}
    /\ event = [e \in Events |-> Nowhere]
    /\ channel = <<>>
    /\ faults = 0 /\ restarts = 0 /\ overlapped = FALSE /\ early = {}

(***************************************************************************)
(* The services that publish                                               *)
(***************************************************************************)
Happens(e) ==
    /\ e \notin happened /\ happened' = happened \cup {e}
    /\ event' = [event EXCEPT ![e] = Queued]
    /\ early' = IF e.kind = "supervisorAccepted" /\ jurado[e.of] = "accepted"
                THEN early \cup {e.of} ELSE early
    /\ UNCHANGED <<scenario, channel, faults, restarts, overlapped>>

Changes(e, from, to) ==
    jurado[e.of] = from /\ jurado' = [jurado EXCEPT ![e.of] = to] /\ Happens(e)

Publish(e) ==
    \/ /\ e.kind \in {"applicationAccepted", "supervisorAccepted"}
       /\ UNCHANGED jurado /\ Happens(e)
    \/ e.kind = "juradoAssigned" /\ Changes(e, "none", "accepted")
    \/ /\ e.kind \in {"juradoDisconnected", "juradoAutoDisconnected"}
       /\ Changes(e, "accepted", "disconnected")

(***************************************************************************)
(* The handlers                                                            *)
(***************************************************************************)
Goes(e, h) == event' = [event EXCEPT ![e] = h]

\* What the handler of supervisor.accepted opens next; the channels with the company
\* need to know who it is.
After(h) ==
    CASE h.name = "asesor-student" /\ h.company ->
            [at |-> "look", name |-> "asesor-company", company |-> TRUE]
      [] h.name = "asesor-company" -> [at |-> "look", name |-> Team, company |-> TRUE]
      [] (h.name = "asesor-student" /\ ~h.company) \/ h.name = Team -> [at |-> "assignments"]
      [] OTHER -> Done

Take(e) ==
    /\ event[e] = Queued /\ Cardinality(Handling) < scenario.handlers
    /\ Goes(e, CASE e.kind = "supervisorAccepted" -> [at |-> "company"]
                 [] e.kind = "applicationAccepted" ->
                        [at |-> "look", name |-> "company-student", company |-> TRUE]
                 [] e.kind \in {"juradoAssigned", "juradoDisconnected"} ->
                        [at |-> "look", name |-> Private]
                 [] e.kind = "juradoAutoDisconnected" -> Done)
    /\ overlapped' = (overlapped \/ (Handling # {} /\ e.kind # "juradoAutoDisconnected"))
    /\ UNCHANGED <<Desk, channel, faults, restarts>>

Fails == faults < MaxFaults /\ faults' = faults + 1

getCompanyUserId(e) ==
    /\ event[e].at = "company"
    /\ \E known \in BOOLEAN :
         /\ IF known THEN UNCHANGED faults ELSE Fails
         /\ Goes(e, [at |-> "look", name |-> "asesor-student", company |-> known])
    /\ UNCHANGED <<Desk, channel, restarts, overlapped>>

\* The private channel is opened for the jurado the application has at that time.
Active(a) == jurado[a] = "accepted"

Assignments(e) ==
    /\ event[e].at = "assignments"
    /\ \/ Fails /\ Goes(e, Done)
       \/ /\ UNCHANGED faults
          /\ Goes(e, IF Active(e.of) THEN [at |-> "look", name |-> Private] ELSE Done)
    /\ UNCHANGED <<Desk, channel, restarts, overlapped>>

Creator(name, a) ==
    IF name = "company-student" THEN Company ELSE Person("asesor", a)

Invited(name, a) ==
    CASE name \in {"company-student", "asesor-student"} -> {Person("student", a)}
      [] name = "asesor-company" -> {Company}
      [] name = Team -> {Person("student", a), Company}
      [] name = Private -> {Person("jurado", a)}

For(name, a) == {Creator(name, a)} \cup Invited(name, a)

\* findDirectConversation and findConversationByProjectAndName.
Found(e) ==
    {c \in DOMAIN channel :
        /\ channel[c].name = event[e].name
        /\ IF event[e].name \in Directs
           THEN For(event[e].name, e.of) \subseteq channel[c].members
           ELSE channel[c].isActive}

\* Mutant of Joins: the jurados, and not the asesor, enter a channel that is there.
JoinsJurado(e) ==
    CASE event[e].name = Team -> {Person("asesor", e.of)}
      [] event[e].name = Private -> {Person("jurado", e.of)}
      [] OTHER -> {}

\* Who enters a channel that is there.
Joins(e) ==
    CASE event[e].name = Team -> {Person("asesor", e.of)}
      [] event[e].name = Private /\ e.kind = "juradoAssigned" -> {Person("jurado", e.of)}
      [] event[e].name = Private /\ e.kind = "supervisorAccepted" ->
            {Person("jurado", e.of), Person("asesor", e.of)}
      [] OTHER -> {}

Look(e) ==
    /\ event[e].at = "look"
    /\ IF Found(e) = {}
       THEN IF e.kind \in {"supervisorAccepted", "applicationAccepted"}
            THEN Goes(e, [event[e] EXCEPT !.at = "insert"])
            ELSE Goes(e, Done)
       ELSE \E c \in Found(e) :
              Goes(e, IF e.kind = "juradoDisconnected"
                      THEN [at |-> "close", channel |-> c]
                      ELSE IF Joins(e) = {} THEN After(event[e])
                      ELSE [at |-> "join", channel |-> c, todo |-> Joins(e),
                            then |-> After(event[e])])
    /\ UNCHANGED <<Desk, channel, faults, restarts, overlapped>>

\* addParticipantIfMissing; a person with two rows counts once.
Join(e) ==
    /\ event[e].at = "join"
    /\ \E p \in event[e].todo :
         /\ channel' = [channel EXCEPT ![event[e].channel].members = @ \cup {p}]
         /\ Goes(e, IF event[e].todo = {p} THEN event[e].then
                    ELSE [event[e] EXCEPT !.todo = @ \ {p}])
    /\ UNCHANGED <<Desk, faults, restarts, overlapped>>

\* createConversation: the conversation, its owner, the others.
Insert(e) ==
    /\ event[e].at = "insert" /\ Len(channel) < MaxChannels
    /\ channel' = Append(channel, [name |-> event[e].name, members |-> {}, isActive |-> TRUE])
    /\ Goes(e, [at |-> "owner", channel |-> Len(channel'),
                owner |-> Creator(event[e].name, e.of), todo |-> Invited(event[e].name, e.of),
                then |-> After(event[e])])
    /\ UNCHANGED <<Desk, faults, restarts, overlapped>>

Owner(e) ==
    /\ event[e].at = "owner"
    /\ channel' = [channel EXCEPT ![event[e].channel].members = @ \cup {event[e].owner}]
    /\ Goes(e, [at |-> "members", channel |-> event[e].channel, todo |-> event[e].todo,
                then |-> event[e].then])
    /\ UNCHANGED <<Desk, faults, restarts, overlapped>>

Members(e) ==
    /\ event[e].at = "members"
    /\ channel' = [channel EXCEPT ![event[e].channel].members = @ \cup event[e].todo]
    /\ Goes(e, event[e].then)
    /\ UNCHANGED <<Desk, faults, restarts, overlapped>>

Close(e) ==
    /\ event[e].at = "close"
    /\ channel' = [channel EXCEPT ![event[e].channel].isActive = FALSE]
    /\ Goes(e, Done)
    /\ UNCHANGED <<Desk, faults, restarts, overlapped>>

\* What was not acknowledged is delivered again.
Restart ==
    /\ restarts < MaxRestarts /\ restarts' = restarts + 1
    /\ event' = [e \in Events |-> IF e \in Handling THEN Queued ELSE event[e]]
    /\ overlapped' = (overlapped \/ Handling # {})
    /\ UNCHANGED <<Desk, channel, faults>>

Next ==
    \/ \E e \in Events :
         \/ Publish(e) \/ Take(e) \/ getCompanyUserId(e) \/ Assignments(e)
         \/ Look(e) \/ Join(e) \/ Insert(e) \/ Owner(e) \/ Members(e) \/ Close(e)
    \/ Restart

Spec == Init /\ [][Next]_vars

(***************************************************************************)
(* Properties                                                              *)
(***************************************************************************)
TypeOK ==
    /\ jurado \in [Applications -> {"none", "accepted", "disconnected"}]
    /\ happened \subseteq Events /\ DOMAIN event = Events
    /\ \A e \in Events : event[e] = Nowhere <=> e \notin happened
    /\ channel \in Seq(Channel) /\ Len(channel) <= MaxChannels
    /\ faults \in Nat /\ overlapped \in BOOLEAN
    /\ early \subseteq {a \in Applications : jurado[a] # "none"}

Both(a) == {Person("asesor", a), Person("jurado", a)}
Settled == \A e \in happened : event[e] = Done

\* Once the acceptance of an asesor is handled, he and the jurado who was there when he
\* accepted share the private channel, in whatever order their events came, whatever else
\* was handled meanwhile and however often, unless a call failed.
JuradoMeetsAsesor ==
    faults = 0 =>
        \A e \in happened :
            (e.kind = "supervisorAccepted" /\ event[e] = Done
                /\ e.of \in early /\ jurado[e.of] = "accepted")
                    => \E c \in DOMAIN channel :
                            channel[c].name = Private /\ Both(e.of) \subseteq channel[c].members

\* There are no two open channels for one purpose, unless two handlers overlapped.
OneChannelEach ==
    ~overlapped => \A c, d \in DOMAIN channel :
        (c # d /\ channel[c].name = channel[d].name
            /\ channel[c].isActive /\ channel[d].isActive)
                => /\ channel[c].name \in Directs
                   /\ channel[c].members \cap channel[d].members \subseteq {Company}

\* When its jurados are disconnected, the private channel is closed.
ChannelIsClosed ==
    (Settled /\ ~overlapped /\ faults = 0 /\ \A a \in Applications : jurado[a] # "accepted")
        => \A c \in DOMAIN channel : channel[c].name = Private => ~channel[c].isActive

(***************************************************************************)
(* What every step keeps                                                   *)
(***************************************************************************)
\* What an event has a handler look for.
Names(kind) ==
    CASE kind = "applicationAccepted" -> {"company-student"}
      [] kind = "supervisorAccepted" -> {"asesor-student", "asesor-company", Team, Private}
      [] OTHER -> {Private}

Looks(at) == [at : at, name : Directs \cup {Team}, company : BOOLEAN]
                \cup [at : at, name : {Private}]
Afterwards(kind) ==
    {Done} \cup (IF kind = "supervisorAccepted" THEN {[at |-> "assignments"]} ELSE {})
           \cup {h \in Looks({"look"}) : h.name \in Names(kind)}

\* What a handler knows where it stands; the one of supervisor.accepted is through with
\* the private channel only.
Fits(e) ==
    /\ event[e].at \in {"none", "queued", "done", "company", "assignments", "look", "insert",
                        "join", "owner", "members", "close"}
    /\ event[e].at \in {"none", "queued", "done"} => event[e] \in {Nowhere, Queued, Done}
    /\ event[e].at \in {"company", "assignments"} => e.kind = "supervisorAccepted"
    /\ event[e].at \in {"look", "insert"}
         => event[e] \in Looks({"look", "insert"}) /\ event[e].name \in Names(e.kind)
    /\ event[e].at = "close"
         => /\ e.kind = "juradoDisconnected"
            /\ event[e].channel \in DOMAIN channel /\ channel[event[e].channel].name = Private
    /\ event[e].at = "join"
         => /\ event[e] \in [at : {"join"}, channel : DOMAIN channel, todo : SUBSET People,
                             then : Afterwards(e.kind)]
            /\ channel[event[e].channel].name \in Groups
    /\ event[e].at = "owner" => event[e].owner \in People
    /\ event[e].at \in {"owner", "members"}
         => /\ event[e].channel \in DOMAIN channel /\ event[e].todo \subseteq People
            /\ event[e].then \in Afterwards(e.kind)
    /\ (/\ e.kind = "supervisorAccepted"
        /\ event[e].at \in {"join", "owner", "members"} /\ event[e].then = Done)
         => channel[event[e].channel].name = Private
HandlersFit == scenario \in Scenarios /\ \A e \in Events : Fits(e)

\* Who is in the channel of a handler once it has let everybody in.
Inside(e) ==
    channel[event[e].channel].members \cup event[e].todo
        \cup (IF event[e].at = "owner" THEN {event[e].owner} ELSE {})
BothComeIn(e) ==
    (/\ e.kind = "supervisorAccepted" /\ event[e].at \in {"join", "owner", "members"}
     /\ channel[event[e].channel].name = Private) => Both(e.of) \subseteq Inside(e)

\* Handlers in turn: there is one at a time, and while it opens a channel there is no other
\* one for that purpose; all other direct channels have both their people.
Alone == \A e, f \in Handling : e = f
NotFor(c, a) ==
    IF channel[c].name \in Directs THEN ~(For(channel[c].name, a) \subseteq channel[c].members)
    ELSE ~channel[c].isActive
Opens(e, c) == event[e].at \in {"owner", "members"} /\ event[e].channel = c
Opening(e) ==
    /\ event[e].at = "insert"
         => \A c \in DOMAIN channel : channel[c].name = event[e].name => NotFor(c, e.of)
    /\ \A c \in DOMAIN channel : Opens(e, c)
         => /\ \A d \in DOMAIN channel \ {c} :
                 channel[d].name = channel[c].name => NotFor(d, e.of)
            /\ channel[c].name \in Directs => Inside(e) = For(channel[c].name, e.of)
Complete ==
    \A c \in DOMAIN channel :
        channel[c].name \in Directs
            => \/ \E a \in Applications : channel[c].members = For(channel[c].name, a)
               \/ \E e \in Events : Opens(e, c)
InTurn == ~overlapped => Alone /\ Complete /\ \A e \in Events : Opening(e)

ChannelsInv ==
    /\ TypeOK /\ HandlersFit /\ JuradoMeetsAsesor /\ InTurn /\ OneChannelEach
    /\ \A e \in Events : BothComeIn(e)
===============================================================================
