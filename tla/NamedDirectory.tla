--------------------------- MODULE NamedDirectory ---------------------------
(***************************************************************************)
(* What operators rely on in the directory: users, groups and admin tokens *)
(* are known by name, each operation happens at one instant, and nothing   *)
(* changes without an authority that somebody has held.  Every authority   *)
(* begins with the seeding command, the only operation that needs none.    *)
(***************************************************************************)
CONSTANTS Names, Labels, Roles

VARIABLES
    users,      \* users with their admin flags
    groups,     \* names of groups
    tokens,     \* admin tokens with their roles
    ever        \* history: the authorities that have been held so far

namedVars == <<users, groups, tokens, ever>>

\* Who could do what in a directory U with the tokens T.
Held(U, T) ==
    {"administrator" : u \in {u \in U : u.admin}} \cup {t.role : t \in T}

Init ==
    /\ users = {}
    /\ groups = {}
    /\ tokens = {}
    /\ ever = {}

\* "AdminRole.IDENTITY, AdminRole.ANY" in require_admin_identity_role.
Identity == {"IDENTITY", "ANY"} \cap ever # {}

\* A user made through the API is no administrator.
Enroll(n) ==
    /\ Identity
    /\ \A u \in users : u.name # n
    /\ users' = users \cup {[name |-> n, admin |-> FALSE]}
    /\ UNCHANGED <<groups, tokens>>

Dismiss(u) ==
    /\ Identity
    /\ users' = users \ {u}
    /\ UNCHANGED <<groups, tokens>>

\* Whether the user is there or not, and whatever the flag was.
Seed(n, flag) ==
    /\ users' = {u \in users : u.name # n} \cup {[name |-> n, admin |-> flag]}
    /\ UNCHANGED <<groups, tokens>>

ChangeGroups ==
    /\ Identity
    /\ \E n \in Names : groups' = groups \cup {n} \/ groups' = groups \ {n}
    /\ UNCHANGED <<users, tokens>>

Mint(l, r) ==
    /\ "administrator" \in ever
    /\ \A t \in tokens : t.name # l
    /\ tokens' = tokens \cup {[name |-> l, role |-> r]}
    /\ UNCHANGED <<users, groups>>

Revoke(t) ==
    /\ "administrator" \in ever
    /\ tokens' = tokens \ {t}
    /\ UNCHANGED <<users, groups>>

Change ==
    \/ \E n \in Names : Enroll(n)
    \/ \E u \in users : Dismiss(u)
    \/ \E n \in Names, flag \in BOOLEAN : Seed(n, flag)
    \/ ChangeGroups
    \/ \E l \in Labels, r \in Roles : Mint(l, r)
    \/ \E t \in tokens : Revoke(t)

Next == Change /\ ever' = ever \cup Held(users', tokens')

Spec == Init /\ [][Next]_namedVars
=============================================================================
