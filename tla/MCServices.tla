----------------------------- MODULE MCServices -----------------------------
(***************************************************************************)
(* Services for TLC: a small instance of every component.                  *)
(***************************************************************************)
EXTENDS Services, TLC

Symmetry == Permutations(Requests)

\* Profiles: what a student or a company may add, and may send in an update.
MCItems == [student |-> {[kind |-> "skills", n |-> 1], [kind |-> "certifications", n |-> 1]},
            company |-> {[kind |-> "contacts", n |-> 1]}]
MCForms == [student |-> {[fill |-> {"bio"}, empty |-> {}], [fill |-> {}, empty |-> {"bio"}]},
            company |-> {[fill |-> {"nit"}, empty |-> {}]}]

MCRows == [interview |-> 2, deliverable |-> 1, selection |-> 1]
MCUploads == [interview |-> 0, deliverable |-> 3, selection |-> 2]

\* Bounds: interviews meet in the application and in their own row, so two requests that
\* change interviews change the same one; a third write or a restart of storage-service,
\* not both.
SameInterview ==
    (focus = "follow-up" /\ v1 = "interview") =>
        \A r, q \in Requests : "id" \in DOMAIN v4[r] \cap DOMAIN v4[q] => v4[r].id = v4[q].id

ThreeWritesInOneRun == focus = "storage" => v8 < MaxWrites \/ v9 = 0

\* The operations on a conversation, those that meet in a row together.
MCConversations ==
    {{"send", "read", "archive", "rejoin"}, {"send", "edit", "delete"}, {"send", "react"}}

\* Chat: two handlers at a time over one application, or more events one at a time.
On(a, kinds) == {[kind |-> k, of |-> a] : k \in kinds}
MCScenarios ==
    {[events |-> On("a1", {"supervisorAccepted", "juradoAssigned", "juradoDisconnected"}),
      handlers |-> 2],
     [events |-> On("a1", {"applicationAccepted", "supervisorAccepted", "juradoAssigned",
                           "juradoAutoDisconnected"}),
      handlers |-> 1],
     [events |-> On("a1", {"supervisorAccepted", "juradoAssigned"})
                    \cup On("a2", {"supervisorAccepted", "juradoAssigned"}),
      handlers |-> 1]}

\* Notifications: every publication alone, some together, and one with all the requests.
Contracts == INSTANCE EventContracts
Mix(p, q, ops) == [sent |-> <<p, q>>, asks |-> ops]
Published(event) == CHOOSE p \in Contracts!Publications : p.event = event
Assigned == Published("deliverable.assigned")
MCNotifications ==
    {Mix(p, None, {}) : p \in Contracts!Publications}
        \cup {Mix(Published("academic.anteproyecto.approved"), Assigned, {}),
              Mix(Published("admin.supervisor.accepted"), Assigned, {}),
              Mix(Published("deliverable.reviewed"), Assigned, {"connect"}),
              Mix(Assigned, None, {"connect", "mark", "markAll", "delete", "preferences"})}
=============================================================================
