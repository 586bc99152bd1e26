---------------------------- MODULE AdvisorSeat ----------------------------
(***************************************************************************)
(* What the assignment desk promises about the asesor of an application:   *)
(* a seat that one supervisor holds at a time, who may confirm it or       *)
(* refuse it and who may be replaced.  Nobody sits in it twice, and a      *)
(* refusal closes it for good.                                             *)
(***************************************************************************)
CONSTANTS Applications, Supervisors, None

VARIABLES
    holder,     \* who sits in the seat of an application, or None
    confirmed,  \* whether the holder has accepted
    former,     \* who sat in it before
    refused     \* whether a holder has refused it

seatVars == <<holder, confirmed, former, refused>>

Init ==
    /\ holder = [a \in Applications |-> None]
    /\ confirmed = [a \in Applications |-> FALSE]
    /\ former = [a \in Applications |-> {}]
    /\ refused = [a \in Applications |-> FALSE]

Invite(a, s) ==
    /\ holder[a] = None /\ ~refused[a] /\ s \notin former[a]
    /\ holder' = [holder EXCEPT ![a] = s]
    /\ UNCHANGED <<confirmed, former, refused>>

Confirm(a) ==
    /\ holder[a] # None /\ ~confirmed[a]
    /\ confirmed' = [confirmed EXCEPT ![a] = TRUE]
    /\ UNCHANGED <<holder, former, refused>>

Leave(a) ==
    /\ holder[a] # None
    /\ holder' = [holder EXCEPT ![a] = None]
    /\ former' = [former EXCEPT ![a] = @ \cup {holder[a]}]

Refuse(a) ==
    /\ Leave(a) /\ ~confirmed[a]
    /\ refused' = [refused EXCEPT ![a] = TRUE]
    /\ UNCHANGED confirmed

Replace(a) ==
    /\ Leave(a)
    /\ confirmed' = [confirmed EXCEPT ![a] = FALSE]
    /\ UNCHANGED refused

Next ==
    \E a \in Applications :
        \/ \E s \in Supervisors : Invite(a, s)
        \/ Confirm(a) \/ Refuse(a) \/ Replace(a)

Spec == Init /\ [][Next]_seatVars
=============================================================================
