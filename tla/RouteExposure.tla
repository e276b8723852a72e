---------------------------- MODULE RouteExposure ----------------------------
(***************************************************************************)
(* What the registry promises the gateway about each public URL, whatever  *)
(* goes on inside: Holepunch configures Envoy from the routes that         *)
(* services.list_available_routes lists, each with its rules.  A URL       *)
(* enters that list, or changes its rules there, only by a contact with    *)
(* the app or the owner that is recorded the same instant; its rules never *)
(* hold two policies for one entity; and it may leave the list at any time. *)
(***************************************************************************)
EXTENDS Naturals

CONSTANTS Srcs, Rule, None

VARIABLES
    exposed,    \* [Srcs -> the rules the gateway gets for the URL, or None]
    contact,    \* [Srcs -> the day of the last contact, or None]
    day

exposureVars == <<exposed, contact, day>>

OnePolicy(R) == \A x, y \in R : x.entity = y.entity => x = y

Init ==
    /\ exposed = [s \in Srcs |-> None]
    /\ contact = [s \in Srcs |-> None]
    /\ day = 0

\* The app was reached, or the owner registered: the URL may be published.
Contact(s) ==
    /\ contact' = [contact EXCEPT ![s] = day]
    /\ \/ exposed' = exposed
       \/ \E R \in SUBSET Rule :
            OnePolicy(R) /\ exposed' = [exposed EXCEPT ![s] = R]
    /\ UNCHANGED day

Withdraw(s) ==
    /\ exposed' = [exposed EXCEPT ![s] = None]
    /\ UNCHANGED <<contact, day>>

NextDay ==
    /\ day' = day + 1
    /\ UNCHANGED <<exposed, contact>>

Next == NextDay \/ \E s \in Srcs : Contact(s) \/ Withdraw(s)

Spec == Init /\ [][Next]_exposureVars
=============================================================================
