---------------------------- MODULE PublicSource ----------------------------
(***************************************************************************)
(* What the Awesome source service promises its readers and its editors,   *)
(* whatever requests and synchronisations overlap: a source appears hidden *)
(* and bound to a repository of its own, its list is replaced as a whole   *)
(* or not at all, it is shown only once it has a list, and while it is     *)
(* shown it stays bound to its repository. Archiving hides it and keeps    *)
(* the list (README.md:149, internal/awesome/service.go:110 and :203).     *)
(***************************************************************************)
CONSTANTS
    Sources,
    Repos,     \* repositories a source can be bound to
    Lists,     \* verified lists of entries
    NoRepo,
    NoList

VARIABLES
    stage,     \* absent, hidden or shown
    home,      \* the repository the source is bound to
    list       \* its last complete list

vars == <<stage, home, list>>

Taken == {home[s] : s \in Sources}

Init ==
    /\ stage = [s \in Sources |-> "absent"]
    /\ home = [s \in Sources |-> NoRepo]
    /\ list = [s \in Sources |-> NoList]

Register(s, r) ==
    /\ stage[s] = "absent"
    /\ r \notin Taken
    /\ stage' = [stage EXCEPT ![s] = "hidden"]
    /\ home' = [home EXCEPT ![s] = r]
    /\ UNCHANGED list

Rebind(s, r) ==
    /\ stage[s] = "hidden"
    /\ r \notin Taken
    /\ home' = [home EXCEPT ![s] = r]
    /\ UNCHANGED <<stage, list>>

Refresh(s, l) ==
    /\ stage[s] # "absent"
    /\ list' = [list EXCEPT ![s] = l]
    /\ UNCHANGED <<stage, home>>

Show(s) ==
    /\ stage[s] = "hidden"
    /\ list[s] # NoList
    /\ stage' = [stage EXCEPT ![s] = "shown"]
    /\ UNCHANGED <<home, list>>

Hide(s) ==
    /\ stage[s] = "shown"
    /\ stage' = [stage EXCEPT ![s] = "hidden"]
    /\ UNCHANGED <<home, list>>

Next ==
    \E s \in Sources :
        \/ \E r \in Repos : Register(s, r) \/ Rebind(s, r)
        \/ \E l \in Lists : Refresh(s, l)
        \/ Show(s)
        \/ Hide(s)

Spec == Init /\ [][Next]_vars

=============================================================================
