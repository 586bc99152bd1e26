---------------------------- MODULE Notifications ----------------------------
(***************************************************************************)
(* notification-service: the events it is sent become rows of              *)
(* notifications, pushes to the browser and mails, one recipient after     *)
(* another (notification.subscriber.ts, createNotification), while its     *)
(* user reads, deletes and changes preferences (notification.service.ts).  *)
(*                                                                         *)
(* One user, the watcher, has a browser that shows the count of unread     *)
(* notifications the service last emitted to it. The preferences of a user *)
(* are the set of the switches that are on; his row is created when it is  *)
(* first asked for. A mail is a task of its own that nobody waits for.     *)
(* The wording of the messages, quiet hours and the endpoints of web push  *)
(* (which nothing sends to) are left out.                                  *)
(***************************************************************************)
EXTENDS EventContracts, Integers, FiniteSets

CONSTANTS
    Deliveries,   \* the events on their way
    Mixes,        \* bound: the publications that arrive together, with what is requested
    MaxRequests,  \* bound on those requests
    MaxRestarts,  \* bound on the restarts of notification-service
    MaxFaults,    \* bound on the statements and calls that fail
    None          \* no publication, no row, no request

\* What the watcher may have running, and how far it is.
Running ==
    [op : {"connect", "mark"}, step : {"count"}]
        \cup [op : {"connect", "mark"}, step : {"emit"}, unread : Nat]
        \cup [op : {"preferences"}, step : {"save"}, found : BOOLEAN]

Switches == {"emailEnabled", "inAppEnabled", "applicationUpdates", "interviewReminders",
             "evaluationAlerts", "matchRecommendations", "projectUpdates",
             "chatMessages", "systemAnnouncements"}

NotificationsAssumption ==
    /\ \A mix \in Mixes : \A d \in Deliveries : mix.sent[d] \in Publications \cup {None}
    /\ None \notin Running /\ \A switches \in SUBSET Switches : switches # None

VARIABLES
    asks,         \* the operations the watcher requests
    delivery,     \* [delivery |-> the message and how far its handler is]
    notes,        \* rows of notifications, by delivery, recipient and attempt
    prefs,        \* [user |-> his switches that are on, None before his row exists]
    online,       \* the browser of the watcher is connected
    badge,        \* the count it shows
    call,         \* the request of the watcher that runs
    requests, restarts, faults,
    told,         \* history: <<delivery, user>> with a row
    hit,          \* history: <<delivery, user>> whose createNotification threw
    adjusted,     \* history: the watcher changed his preferences
    blurred       \* history: two counts of the watcher overlapped, or one was not sent

vars == <<asks, delivery, notes, prefs, online, badge, call, requests, restarts, faults,
          told, hit, adjusted, blurred>>

People == {"admin", "otherAdmin", "jurado", "otherJurado", "peer", "otherPeer",
           "student", "company", "asesor", "user"}
Watcher == "student"

Handler(d) == HandlerOf(delivery[d].event)
Recipient(d) == Head(delivery[d].left)
Key(d) == <<d, Recipient(d), delivery[d].attempt>>
At(d, step) == delivery[d].status = "handling" /\ delivery[d].step = step
Note == [read : BOOLEAN, shown : BOOLEAN,
         mail : {"none", "due", "tried", "noAddress"}]
Unread(u) == Cardinality({k \in DOMAIN notes : k[2] = u /\ ~notes[k].read})

\* The people the payload names, in the order of the handler, which has three fields at
\* most.
Recipients(h, has) ==
    LET named(i) == IF i <= Len(h.to) /\ h.to[i] \in has THEN Who(h.to[i]) ELSE <<>>
    IN named(1) \o named(2) \o named(3)

Message(event, has, status) ==
    [event |-> event, has |-> has, status |-> status, left |-> <<>>, step |-> "insert",
     attempt |-> 1, mails |-> FALSE, unread |-> 0]

\* The fields that may be empty are there or not.
Payloads(p) ==
    IF p = None THEN {Message("none", {}, "acked")}
    ELSE {Message(p.event, p.has \cup x, "queued") : x \in SUBSET p.may}

Init ==
    /\ \E mix \in Mixes :
        /\ asks = mix.asks
        /\ delivery \in {f \in [Deliveries -> UNION {Payloads(mix.sent[d]) : d \in Deliveries}] :
                            \A d \in Deliveries : f[d] \in Payloads(mix.sent[d])}
    /\ notes = <<>>
    /\ \E start \in {None, Switches \ {"emailEnabled"}, Switches \ {"inAppEnabled"},
                     Switches \ {"projectUpdates", "evaluationAlerts"}} :
            prefs = [u \in People |-> start]
    /\ online = FALSE /\ badge = 0 /\ call = None
    /\ requests = 0 /\ restarts = 0 /\ faults = 0
    /\ told = {} /\ hit = {} /\ adjusted = FALSE /\ blurred = FALSE

\* Somebody is between a change of the rows of the watcher and the count he is sent.
Busy ==
    \/ \E d \in Deliveries : /\ delivery[d].status = "handling"
                             /\ delivery[d].step # "insert" /\ Recipient(d) = Watcher
    \/ call # None
Blurs(u) == blurred' = (blurred \/ (u = Watcher /\ Busy))

(***************************************************************************)
(* The handlers of the subscriber                                          *)
(***************************************************************************)
\* The fields a handler reads, and whom it will tell; the administrators are not in the
\* payload.
Fields(d) == delivery[d].has \cup {"admins"}
Fed(d) == Handler(d).needs \subseteq Fields(d)
Named(d) == Recipients(Handler(d), Fields(d))

Goes(d, m) == delivery' = [delivery EXCEPT ![d] = m]

\* The handler returns, and the message is acknowledged, after its last recipient.
Handles(m, left) ==
    [m EXCEPT !.left = left, !.step = "insert", !.mails = FALSE, !.unread = 0,
              !.status = IF left = <<>> THEN "acked" ELSE "handling"]

\* A field the handler cannot do without is missing: it returns.
Take(d) ==
    /\ delivery[d].status = "queued"
    /\ Goes(d, Handles(delivery[d], IF Fed(d) THEN Named(d) ELSE <<>>))
    /\ UNCHANGED <<asks, notes, prefs, online, badge, call, requests, restarts, faults, told, hit,
                   adjusted, blurred>>

\* The list of administrators cannot be had: the handler returns.
TakeFails(d) ==
    /\ delivery[d].status = "queued" /\ delivery[d].event = "project.submitted_for_review"
    /\ faults < MaxFaults /\ faults' = faults + 1
    /\ Goes(d, Handles(delivery[d], <<>>))
    /\ hit' = hit \cup {<<d, u>> : u \in {"admin", "otherAdmin"}}
    /\ UNCHANGED <<asks, notes, prefs, online, badge, call, requests, restarts, told, adjusted, blurred>>

\* Mutant of Throws: the first failure ends the handler.
ThrowsAll(d) ==
    /\ Goes(d, Handles(delivery[d], <<>>))
    /\ hit' = hit \cup {<<d, Recipient(d)>>}

\* The catch of the handler: around one recipient, or around all of them.
Throws(d) ==
    /\ Goes(d, Handles(delivery[d],
                       IF Handler(d).together THEN <<>> ELSE Tail(delivery[d].left)))
    /\ hit' = hit \cup {<<d, Recipient(d)>>}

(***************************************************************************)
(* createNotification                                                      *)
(***************************************************************************)
Insert(d) ==
    /\ At(d, "insert")
    /\ notes' = [k \in DOMAIN notes \cup {Key(d)} |->
                    IF k = Key(d) THEN [read |-> FALSE, shown |-> FALSE, mail |-> "none"]
                    ELSE notes[k]]
    /\ told' = told \cup {<<d, Recipient(d)>>}
    /\ Goes(d, [delivery[d] EXCEPT !.step = "look"])
    /\ Blurs(Recipient(d))
    /\ UNCHANGED <<asks, prefs, online, badge, call, requests, restarts, faults, hit, adjusted>>

InsertFails(d) ==
    /\ At(d, "insert") /\ faults < MaxFaults /\ faults' = faults + 1
    /\ Throws(d)
    /\ UNCHANGED <<asks, notes, prefs, online, badge, call, requests, restarts, told, adjusted, blurred>>

\* shouldSendWebSocketNotification, shouldSendEmail, isTypeCategoryEnabled.
Wanted(switches, channel, category) ==
    channel \in switches /\ (category = "always" \/ category \in switches)

Mails(h, switches) == Wanted(switches, "emailEnabled", h.category) \/ h.forced

\* The preferences are known: the push, and whether a mail will follow.
Prefers(d, switches) ==
    /\ notes' = IF Key(d) \in DOMAIN notes
                THEN [notes EXCEPT ![Key(d)].shown =
                                        Wanted(switches, "inAppEnabled", Handler(d).category)]
                ELSE notes
    /\ Goes(d, [delivery[d] EXCEPT !.step = "count", !.mails = Mails(Handler(d), switches)])

\* getPreferences.
Look(d) ==
    /\ At(d, "look")
    /\ IF prefs[Recipient(d)] # None
       THEN Prefers(d, prefs[Recipient(d)])
       ELSE Goes(d, [delivery[d] EXCEPT !.step = "make"]) /\ UNCHANGED notes
    /\ UNCHANGED <<asks, prefs, online, badge, call, requests, restarts, faults, told, hit, adjusted,
                   blurred>>

Make(d) ==
    /\ At(d, "make") /\ prefs[Recipient(d)] = None
    /\ prefs' = [prefs EXCEPT ![Recipient(d)] = Switches]
    /\ Prefers(d, Switches)
    /\ UNCHANGED <<asks, online, badge, call, requests, restarts, faults, told, hit, adjusted, blurred>>

\* getPreferences or getUnreadCount throws once the row is there: a statement fails, or
\* preferences were created for the user meanwhile and the key of their table refuses a
\* second row.
StopsShort(d) ==
    /\ \/ At(d, "make") /\ prefs[Recipient(d)] # None /\ UNCHANGED faults
       \/ /\ At(d, "look") \/ At(d, "make") \/ At(d, "count")
          /\ faults < MaxFaults /\ faults' = faults + 1
    /\ Throws(d)
    /\ blurred' = (blurred \/ Recipient(d) = Watcher)
    /\ UNCHANGED <<asks, notes, prefs, online, badge, call, requests, restarts, told, adjusted>>

Count(d) ==
    /\ At(d, "count")
    /\ Goes(d, [delivery[d] EXCEPT !.step = "emit", !.unread = Unread(Recipient(d))])
    /\ UNCHANGED <<asks, notes, prefs, online, badge, call, requests, restarts, faults, told, hit,
                   adjusted, blurred>>

\* What the browser of the watcher shows after a count was emitted to u.
Emits(u, unread) == badge' = IF online /\ u = Watcher THEN unread ELSE badge

\* The count is emitted, the mail is started, and the next recipient follows.
Emit(d) ==
    /\ At(d, "emit")
    /\ Emits(Recipient(d), delivery[d].unread)
    /\ notes' = IF Key(d) \in DOMAIN notes /\ delivery[d].mails
                THEN [notes EXCEPT ![Key(d)].mail = "due"] ELSE notes
    /\ Goes(d, Handles(delivery[d], Tail(delivery[d].left)))
    /\ UNCHANGED <<asks, prefs, online, call, requests, restarts, faults, told, hit, adjusted, blurred>>

(***************************************************************************)
(* sendEmailForNotification                                                *)
(***************************************************************************)
Mailed(k, from, to) == notes[k].mail = from /\ notes' = [notes EXCEPT ![k].mail = to]

\* The address is asked of auth-service: without one nothing is tried. What SMTP answers
\* is kept in email_queue, and a refused mail is not tried again.
Mail(k) ==
    /\ \/ Mailed(k, "due", "tried") /\ UNCHANGED faults
       \/ Mailed(k, "due", "noAddress") /\ faults < MaxFaults /\ faults' = faults + 1
    /\ UNCHANGED <<asks, delivery, prefs, online, badge, call, requests, restarts, told, hit,
                   adjusted, blurred>>

(***************************************************************************)
(* The watcher: his browser and his requests                               *)
(***************************************************************************)
Asks(op) ==
    /\ op \in asks /\ call = None /\ requests < MaxRequests
    /\ requests' = requests + 1

\* handleConnection: the room is joined, then the first count is asked for.
Connect ==
    /\ Asks("connect") /\ ~online /\ online' = TRUE
    /\ call' = [op |-> "connect", step |-> "count"]
    /\ Blurs(Watcher)
    /\ UNCHANGED <<asks, delivery, notes, prefs, badge, restarts, faults, told, hit, adjusted>>

Disconnect ==
    /\ online /\ online' = FALSE /\ badge' = 0
    /\ call # None => call.op # "connect"
    /\ UNCHANGED <<asks, delivery, notes, prefs, call, requests, restarts, faults, told, hit, adjusted,
                   blurred>>

Mine == {k \in DOMAIN notes : k[2] = Watcher}

\* What follows a row that was marked.
Marked == [op |-> "mark", step |-> "count"]

\* markAsRead: only a row that is not read is saved and counted.
MarkAsRead(k) ==
    /\ Asks("mark") /\ ~notes[k].read
    /\ notes' = [notes EXCEPT ![k].read = TRUE]
    /\ call' = Marked
    /\ Blurs(Watcher)
    /\ UNCHANGED <<asks, delivery, prefs, online, badge, restarts, faults, told, hit, adjusted>>

\* markManyAsRead, of all rows.
MarkManyAsRead ==
    /\ Asks("markAll") /\ Unread(Watcher) > 0
    /\ notes' = [k \in DOMAIN notes |->
                    IF k \in Mine THEN [notes[k] EXCEPT !.read = TRUE] ELSE notes[k]]
    /\ call' = Marked
    /\ Blurs(Watcher)
    /\ UNCHANGED <<asks, delivery, prefs, online, badge, restarts, faults, told, hit, adjusted>>

\* getUnreadCount, and then the count goes to the room of the user.
CallCount ==
    /\ call # None /\ call.step = "count"
    /\ call' = [op |-> call.op, step |-> "emit", unread |-> Unread(Watcher)]
    /\ UNCHANGED <<asks, delivery, notes, prefs, online, badge, requests, restarts, faults, told, hit,
                   adjusted, blurred>>

CallEmit ==
    /\ call # None /\ call.step = "emit"
    /\ Emits(Watcher, call.unread)
    /\ call' = None
    /\ UNCHANGED <<asks, delivery, notes, prefs, online, requests, restarts, faults, told, hit, adjusted,
                   blurred>>

\* deleteNotification sends no count; a mail on its way still arrives.
DeleteNotification(k) ==
    /\ Asks("delete")
    /\ notes' = [x \in DOMAIN notes \ {k} |-> notes[x]]
    /\ blurred' = (blurred \/ Busy \/ ~notes[k].read)
    /\ UNCHANGED <<asks, delivery, prefs, online, badge, call, restarts, faults, told, hit, adjusted>>

\* updatePreferences reads the row, if there is one, and saves it.
PreferencesLoad ==
    /\ Asks("preferences")
    /\ call' = [op |-> "preferences", step |-> "save", found |-> prefs[Watcher] # None]
    /\ Blurs(Watcher)
    /\ UNCHANGED <<asks, delivery, notes, prefs, online, badge, restarts, faults, told, hit, adjusted>>

PreferencesSave ==
    /\ call # None /\ call.step = "save"
    /\ call' = None
    /\ IF call.found \/ prefs[Watcher] = None
       THEN /\ \E p \in {Switches, Switches \ {"emailEnabled"}} :
                    prefs' = [prefs EXCEPT ![Watcher] = p]
            /\ adjusted' = TRUE
       ELSE UNCHANGED <<asks, prefs, adjusted>>
    /\ UNCHANGED <<asks, delivery, notes, online, badge, requests, restarts, faults, told, hit, blurred>>

(***************************************************************************)
(* A restart: what was not acknowledged is delivered again, and the mails  *)
(* nobody waited for are gone.                                             *)
(***************************************************************************)
Restart ==
    /\ restarts < MaxRestarts /\ restarts' = restarts + 1
    /\ delivery' = [d \in Deliveries |->
            IF delivery[d].status = "handling"
            THEN [Message(delivery[d].event, delivery[d].has, "queued")
                    EXCEPT !.attempt = delivery[d].attempt + 1]
            ELSE delivery[d]]
    /\ notes' = [k \in DOMAIN notes |->
                    IF notes[k].mail = "due" THEN [notes[k] EXCEPT !.mail = "none"] ELSE notes[k]]
    /\ call' = None /\ online' = FALSE /\ badge' = 0
    /\ UNCHANGED <<asks, prefs, requests, faults, told, hit, adjusted, blurred>>

Handling(d) ==
    \/ Take(d) \/ TakeFails(d)
    \/ Insert(d) \/ InsertFails(d) \/ Look(d) \/ Make(d) \/ StopsShort(d) \/ Count(d) \/ Emit(d)
Watching ==
    \/ Connect \/ Disconnect \/ MarkManyAsRead \/ CallCount \/ CallEmit
    \/ \E k \in Mine : MarkAsRead(k) \/ DeleteNotification(k)
    \/ PreferencesLoad \/ PreferencesSave

Next ==
    \/ \E d \in Deliveries : Handling(d)
    \/ \E k \in DOMAIN notes : Mail(k)
    \/ Watching
    \/ Restart

Spec == Init /\ [][Next]_vars

-----------------------------------------------------------------------------
(***************************************************************************)
(* Properties                                                              *)
(***************************************************************************)

\* The variables of notification-service have their types.
TypeOK ==
    /\ \A d \in Deliveries : /\ delivery[d].status \in {"queued", "handling", "acked"}
                             /\ delivery[d].step \in {"insert", "look", "make", "count", "emit"}
                             /\ delivery[d].unread \in Nat /\ delivery[d].mails \in BOOLEAN
    /\ \A k \in DOMAIN notes : k \in Deliveries \X People \X Nat /\ notes[k] \in Note
    /\ \A u \in People : prefs[u] # None => prefs[u] \subseteq Switches
    /\ online \in BOOLEAN /\ badge \in Nat

OneTry == {"admin.supervisor.accepted", "admin.supervisor.replaced", "deliverable.submitted"}

\* The failure of one recipient keeps no other from being told, except where one try
\* surrounds them all: everybody an acknowledged event names has his row.
TheOthersAreTold ==
    \A d \in Deliveries :
        delivery[d].status = "acked" /\ delivery[d].event # "none" /\ Fed(d) =>
            \A i \in DOMAIN Named(d) :
                \/ <<d, Named(d)[i]>> \in told \cup hit
                \/ delivery[d].event \in OneTry /\ \E u \in People : <<d, u>> \in hit

\* Every publication with the fields it can have reaches somebody; the exceptions are the
\* publications that lack the field their reader asks for.
Unfed(d) ==
    \/ delivery[d].event \in {"none", "matching.score.calculated", "deliverable.submitted"}
    \/ delivery[d].event = "application.status.changed" /\ "companyUserId" \notin delivery[d].has
    \/ /\ delivery[d].event \in {"chat.message.sent", "academic.progress.near_completion",
                                 "academic.anteproyecto.submitted", "academic.anteproyecto.revised"}
       /\ delivery[d].has \cap {"recipientIds", "asesorUserId", "juradoUserIds"} = {}
SomebodyIsTold ==
    \A d \in Deliveries :
        delivery[d].status = "acked" /\ ~Unfed(d) => \E u \in People : <<d, u>> \in told \cup hit

\* What is mailed whatever the user prefers.
Mandated ==
    {"auth.email_verification.requested", "auth.password_reset.requested",
     "project.submitted_for_review", "project.faculty_approved", "project.faculty_rejected",
     "project.needs_changes", "admin.supervisor.assigned", "admin.supervisor.accepted",
     "admin.supervisor.declined", "admin.supervisor.replaced",
     "academic.anteproyecto.submitted", "academic.anteproyecto.revised",
     "academic.anteproyecto.correction_requested", "academic.anteproyecto.approved",
     "academic.anteproyecto.rejected", "academic.agreement.uploaded", "academic.completed"}

\* A mandatory mail is tried whatever the user prefers: of an event that was handled without
\* a restart, no row whose creation did not throw is left without one.
MandatoryMailIsTried ==
    \A k \in DOMAIN notes :
        LET d == k[1] IN
        /\ delivery[d].status = "acked" /\ restarts = 0 /\ <<d, k[2]>> \notin hit
        /\ delivery[d].event \in Mandated
        => notes[k].mail # "none"

\* A user who turned the mails off, or the kind of event, gets no mail that is not mandatory
\* and no push he does not want.
PreferencesAreKept ==
    \A k \in DOMAIN notes :
        LET h == Handler(k[1])
            off == prefs[k[2]] = Switches \ {"projectUpdates", "evaluationAlerts"}
        IN ~adjusted /\ prefs[k[2]] # None =>
            /\ (~h.forced /\ notes[k].mail # "none" =>
                    "emailEnabled" \in prefs[k[2]]
                    /\ ~(off /\ h.category \in {"projectUpdates", "evaluationAlerts"}))
            /\ (notes[k].shown => "inAppEnabled" \in prefs[k[2]]
                    /\ ~(off /\ h.category \in {"projectUpdates", "evaluationAlerts"}))

\* The count the browser shows is the number of unread rows once nothing is on its way,
\* unless two counts overlapped, one was never sent or an unread row was deleted.
BadgeIsCurrent == online /\ ~Busy /\ ~blurred => badge = Unread(Watcher)

(***************************************************************************)
(* What every step keeps                                                   *)
(***************************************************************************)
\* The mail and the push that a user with these switches gets of an event.
MailAllowed(d, switches) == Mails(Handler(d), switches)
PushAllowed(d, switches) == Wanted(switches, "inAppEnabled", Handler(d).category)

\* A message is one of those that are published, with any of the fields that may be empty.
WasPublished(m) == \E p \in Publications : m.event = p.event /\ p.has \subseteq m.has
                                                /\ m.has \subseteq p.has \cup p.may

Started(d) == delivery[d].status = "handling" /\ delivery[d].step # "insert"
Making(k) == Started(k[1]) /\ k = Key(k[1])

Messages ==
    [event : {"none"} \cup {p.event : p \in Publications},
     has : SUBSET UNION {p.has \cup p.may : p \in Publications},
     status : {"queued", "handling", "acked"}, left : Seq(People),
     step : {"insert", "look", "make", "count", "emit"},
     attempt : Nat, mails : BOOLEAN, unread : Nat]

MessagesAreTyped ==
    /\ delivery \in [Deliveries -> Messages]
    /\ \A d \in Deliveries :
        /\ delivery[d].event = "none" \/ WasPublished(delivery[d])
        /\ delivery[d].status # "acked" => delivery[d].event # "none"
        /\ delivery[d].status = "handling" <=> delivery[d].left # <<>>
        /\ delivery[d].step # "insert" \/ delivery[d].mails => delivery[d].status = "handling"

StateIsTyped ==
    /\ IsFiniteSet(DOMAIN notes)
    /\ notes \in [DOMAIN notes -> Note] /\ DOMAIN notes \subseteq Deliveries \X People \X Nat
    /\ prefs \in [People -> (SUBSET Switches) \cup {None}]
    /\ call \in Running \cup {None}
    /\ online \in BOOLEAN /\ badge \in Nat /\ restarts \in Nat
    /\ adjusted \in BOOLEAN /\ blurred \in BOOLEAN

\* Whom an event names is told, was hit by a failure, or is still to come.
NamedAreToCome ==
    \A d \in Deliveries :
        /\ Started(d) => <<d, Recipient(d)>> \in told
        /\ delivery[d].status # "queued" /\ delivery[d].event # "none" /\ Fed(d) =>
            \A i \in DOMAIN Named(d) :
                \/ <<d, Named(d)[i]>> \in told \cup hit
                \/ \E j \in DOMAIN delivery[d].left : delivery[d].left[j] = Named(d)[i]
                \/ delivery[d].event \in OneTry /\ \E u \in People : <<d, u>> \in hit

\* Without a restart, a row of an event with a mandatory mail has it, or its creation goes on.
ForcedMailIsComing ==
    /\ \A d \in Deliveries :
        delivery[d].step \in {"count", "emit"} /\ Handler(d).forced => delivery[d].mails
    /\ \A k \in DOMAIN notes :
        restarts = 0 /\ Handler(k[1]).forced /\ <<k[1], k[2]>> \notin hit =>
            notes[k].mail # "none" \/ Making(k)

\* Mails and pushes follow the preferences, which are those that were read unless the user
\* changed them.
PreferencesAreFollowed ==
    /\ \A d \in Deliveries : delivery[d].mails =>
        /\ prefs[Recipient(d)] # None
        /\ adjusted \/ MailAllowed(d, prefs[Recipient(d)])
    /\ \A k \in DOMAIN notes :
        IF prefs[k[2]] = None THEN notes[k].mail = "none" /\ ~notes[k].shown
        ELSE \/ adjusted
             \/ /\ notes[k].mail # "none" => MailAllowed(k[1], prefs[k[2]])
                /\ notes[k].shown => PushAllowed(k[1], prefs[k[2]])

\* Where no two counts of the watcher overlapped, the count on its way is right, or the one
\* the browser shows is.
Counting(d) == Started(d) /\ Recipient(d) = Watcher
CountsAreRight ==
    ~blurred =>
        /\ \A d, e \in Deliveries : Counting(d) /\ Counting(e) => d = e
        /\ \A d \in Deliveries : Counting(d) => call = None
        /\ \A d \in Deliveries :
            Counting(d) /\ delivery[d].step = "emit" => delivery[d].unread = Unread(Watcher)
        /\ call # None /\ call.step = "emit" => call.unread = Unread(Watcher)
        /\ online /\ (~Busy \/ (call # None /\ call.op = "preferences"))
            => badge = Unread(Watcher)

NotifyInv ==
    /\ MessagesAreTyped /\ StateIsTyped /\ NamedAreToCome
    /\ ForcedMailIsComing /\ PreferencesAreFollowed /\ CountsAreRight
===============================================================================
