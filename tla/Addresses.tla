----------------------------- MODULE Addresses -----------------------------
(***************************************************************************)
(* What the registry promises of the domains, by their names: the ids that *)
(* operators remove domains by, and that registrations and calls of        *)
(* set_default_domain read before they commit, are not in it.  A name is   *)
(* never closed while routes have URLs in it; a URL is given out once, in  *)
(* a name that is open; and a step makes one name a default at most.       *)
(***************************************************************************)
CONSTANTS
    Names,      \* names of domains
    Address     \* [src, client, name]: a URL of a client in a name

VARIABLES
    open,       \* the names that domains have
    chosen,     \* the names that are a default
    taken       \* the addresses that routes have

addressVars == <<open, chosen, taken>>

Init ==
    /\ open = {}
    /\ chosen = {}
    /\ taken = {}

Opens(n) ==
    /\ n \notin open
    /\ open' = open \cup {n}
    /\ UNCHANGED <<chosen, taken>>

Closes(n) ==
    /\ n \in open
    /\ \A a \in taken : a.name # n
    /\ open' = open \ {n}
    /\ chosen' = chosen \ {n}
    /\ UNCHANGED taken

Chooses(n) ==
    /\ n \in open
    /\ chosen' \subseteq chosen \cup {n}
    /\ UNCHANGED <<open, taken>>

Takes(a) ==
    /\ a.name \in open
    /\ \A b \in taken : b.src # a.src
    /\ taken' = taken \cup {a}
    /\ UNCHANGED <<open, chosen>>

Next ==
    \/ \E n \in Names : Opens(n) \/ Closes(n) \/ Chooses(n)
    \/ \E a \in Address : Takes(a)

Spec == Init /\ [][Next]_addressVars
=============================================================================
