--------------------------- MODULE MCChatChannels ---------------------------
(***************************************************************************)
(* ChatChannels for TLC: the events of one application handled two at a    *)
(* time, its whole course handled in turn, and two applications of one     *)
(* project.                                                                *)
(***************************************************************************)
EXTENDS ChatChannels

On(a, kinds) == {[kind |-> k, of |-> a] : k \in kinds}

MCScenarios ==
  {[events |-> On("a1", {"supervisorAccepted", "juradoAssigned", "juradoDisconnected"}),
    handlers |-> 2],
   [events |-> On("a1", {"applicationAccepted", "supervisorAccepted", "juradoAssigned",
                         "juradoAutoDisconnected"}),
    handlers |-> 1],
   [events |-> On("a1", {"supervisorAccepted", "juradoAssigned"})
                 \cup On("a2", {"supervisorAccepted", "juradoAssigned"}),
    handlers |-> 1]}
=============================================================================
