------------------------------ MODULE Domains ------------------------------
(***************************************************************************)
(* The domains in which routes get their public URLs: operators create and *)
(* remove them and choose the default, while registrations look them up.   *)
(* Every operation is one unit of work: it reads, and then it commits what *)
(* it decided, whatever has been committed in between.                     *)
(***************************************************************************)
EXTENDS UnitOfWork, SrcUrl

CONSTANTS
    Ids,        \* bound: the ids of table domain that are in a row or in use
    Names,      \* domain names; a name stands for the URL value as well
    NameOf,     \* the name that the domain with an id is created with
    TypeOf,     \* its type; the API makes STANDARD domains only
    Clients,    \* who registers what: a uid and the name of an app
    Stamps,     \* what uuid4 may return
    Bind,       \* server.url.bind_subdomain
    Workers,    \* the requests that may be under way at one time
    None

Client == [user : Name, app : Name]

ASSUME DomainAssumption ==
    /\ Names \subseteq Name /\ Clients \subseteq Client /\ Stamps \subseteq Name
    /\ NameOf \in [Ids -> Names]
    /\ TypeOf \in [Ids -> DomainType]
    /\ \A stamp \in Stamps : Free(stamp, ".")
    /\ Bind \in BOOLEAN
    /\ None \notin Ids /\ None \notin Names

VARIABLES
    domains,    \* table domain: the ids in it
    defaults,   \* the domains whose flag default is set
    routes,     \* table route: src, name and owner, with the domain_id
    job         \* what each worker is about to commit, or None

vars == <<domains, defaults, routes, job>>

Url(c, d, stamp) ==
    SrcUrl(NameOf[d], Label(TypeOf[d], c.user, c.app, stamp), Bind)

\* The URL of a client in a domain, whatever the stamp.
UrlsOf(c, d) == {Url(c, d, stamp) : stamp \in Stamps}

\* The rows of table route: the URL of a row was made when it was.
RouteRow ==
    {r \in [src : UNION {UrlsOf(c, d) : c \in Clients, d \in Ids},
           client : Clients, domain : Ids] : r.src \in UrlsOf(r.client, r.domain)}

Job == [op : {"default"}, id : Ids, seen : SUBSET Ids]
         \cup [op : {"remove"}, id : Ids]
         \cup {j \in [op : {"register"}, id : Ids, row : RouteRow] : j.row.domain = j.id}

DomainsTypeOK ==
    /\ domains \subseteq Ids
    /\ defaults \subseteq domains
    /\ routes \subseteq RouteRow
    /\ job \in [Workers -> {None} \cup Job]

Init ==
    /\ domains = {}
    /\ defaults = {}
    /\ routes = {}
    /\ job = [w \in Workers |-> None]

Doing(w, op) == job[w] # None /\ job[w].op = op

Begins(w, j) ==
    /\ job[w] = None
    /\ job' = [job EXCEPT ![w] = j]
    /\ UNCHANGED <<domains, defaults, routes>>

Done(w) == job' = [job EXCEPT ![w] = None]

-----------------------------------------------------------------------------
\* An id that nobody remembers is as good as a new one.
Fresh(d) ==
    /\ d \notin domains
    /\ \A w \in Workers : job[w] # None =>
         /\ d # job[w].id
         /\ job[w].op = "default" => d \notin job[w].seen

\* POST /admin/domain, or the database for another type.  A name that is taken
\* is refused (AlreadyExists); a new domain is never the default, which has an
\* operation of its own.
CreateDomain(d) ==
    /\ Fresh(d)
    /\ \A e \in domains : NameOf[e] # NameOf[d]
    /\ domains' = domains \cup {d}
    /\ UNCHANGED <<defaults, routes, job>>

(***************************************************************************)
(* PUT /admin/domain/default/{domain_id}: every row is read, and the flush *)
(* writes the flags that differ from those read.                           *)
(***************************************************************************)

\* An id that is not there raises DomainNotFound, and nothing is written.
SetDefaultRead(w, d) ==
    /\ d \in domains
    /\ Begins(w, [op |-> "default", id |-> d, seen |-> defaults])

Raised(w) == {job[w].id} \ job[w].seen

\* Mutant: the flag is raised, and no other is lowered.
LoweredNone(w) == {}

Lowered(w) == job[w].seen \ {job[w].id}

\* Mutant: the object is merged, so that a row that was removed is written anew.
MatchedAlways(w) == TRUE

\* Every row to be written is still there.
Matched(w) == Raised(w) \cup Lowered(w) \subseteq domains

SetDefaultCommits(w) ==
    /\ Doing(w, "default")
    /\ Matched(w)
    /\ defaults' = (defaults \cup Raised(w)) \ Lowered(w)
    /\ Done(w)
    /\ UNCHANGED <<domains, routes>>

\* An UPDATE that matches fewer rows than it names: UOWException.
SetDefaultFails(w) ==
    /\ Doing(w, "default")
    /\ ~Matched(w)
    /\ Done(w)
    /\ UNCHANGED <<domains, defaults, routes>>

-----------------------------------------------------------------------------
\* DELETE /admin/domain/{domain_id}
RemoveRead(w, d) ==
    /\ d \in domains
    /\ Begins(w, [op |-> "remove", id |-> d])

\* Mutant: the column takes NULL, so that routes do not keep their domain.
RemoveEndsAnyway(w) == CommitEnds(FALSE, FALSE)

\* The flush sets the domain_id of the domain's routes to NULL, which the
\* column refuses, and then deletes the row, which a route that came later
\* refuses.  A row that is gone already is no error.
RemoveEnds(w) == CommitEnds(FALSE, \E r \in routes : r.domain = job[w].id)

RemoveCommits(w) ==
    /\ Doing(w, "remove")
    /\ Committed \in RemoveEnds(w)
    /\ domains' = domains \ {job[w].id}
    /\ defaults' = defaults \ {job[w].id}
    /\ Done(w)
    /\ UNCHANGED routes

\* The operator is answered as if the domain were gone.
RemoveSwallowed(w) ==
    /\ Doing(w, "remove")
    /\ Swallowed \in RemoveEnds(w)
    /\ Done(w)
    /\ UNCHANGED <<domains, defaults, routes>>

-----------------------------------------------------------------------------
(***************************************************************************)
(* What POST /route does with domains: the named one if there is such a    *)
(* domain, and the default otherwise.                                      *)
(***************************************************************************)

Named(n) == {d \in domains : NameOf[d] = n}

\* Where there is no default, or more than one, the query raises.
Lookup(n) == IF Named(n) # {} THEN Named(n)
             ELSE {d \in defaults : defaults = {d}}

\* get_by_src
Holders(src) == {r \in routes : r.src = src}

\* The rows that registrations are about to add.
Wanted == {job[w].row : w \in {w \in Workers : Doing(w, "register")}}

\* uuid4 has not returned the stamp before.
FirstTime(d, src) == TypeOf[d] = "EPHEMERAL" => \A r \in Wanted : r.src # src

\* A client who has the route already changes nothing here, and one who finds
\* another's route is refused ("Route already taken").
RegisterRead(w, c, n) ==
    \E d \in Lookup(n), stamp \in Stamps :
        LET src == Url(c, d, stamp) IN
        /\ Holders(src) = {}
        /\ FirstTime(d, src)
        /\ Begins(w, [op |-> "register", id |-> d,
                      row |-> [src |-> src, client |-> c, domain |-> d]])

\* Mutant: the foreign key on domain_id is not enforced.
RegisterEndsUnchecked(w) ==
    CommitEnds(Holders(job[w].row.src) # {}, FALSE)

RegisterEnds(w) ==
    CommitEnds(Holders(job[w].row.src) # {}, job[w].id \notin domains)

RegisterCommits(w) ==
    /\ Doing(w, "register")
    /\ Committed \in RegisterEnds(w)
    /\ routes' = routes \cup {job[w].row}
    /\ Done(w)
    /\ UNCHANGED <<domains, defaults>>

RegisterFails(w) ==
    /\ Doing(w, "register")
    /\ RegisterEnds(w) \cap {Duplicate, Swallowed} # {}
    /\ Done(w)
    /\ UNCHANGED <<domains, defaults, routes>>

\* A server dies with the request; the database rolls it back.
Crashes(w) ==
    /\ job[w] # None
    /\ Done(w)
    /\ UNCHANGED <<domains, defaults, routes>>

-----------------------------------------------------------------------------
Reads(w) ==
    \/ \E d \in Ids : SetDefaultRead(w, d) \/ RemoveRead(w, d)
    \/ \E c \in Clients, n \in Names \cup {None} : RegisterRead(w, c, n)

Ends(w) ==
    \/ SetDefaultCommits(w)
    \/ SetDefaultFails(w)
    \/ RemoveCommits(w)
    \/ RemoveSwallowed(w)
    \/ RegisterCommits(w)
    \/ RegisterFails(w)
    \/ Crashes(w)

Next ==
    \/ \E d \in Ids : CreateDomain(d)
    \/ \E w \in Workers : Reads(w) \/ Ends(w)

Spec == Init /\ [][Next]_vars

-----------------------------------------------------------------------------
\* Every route is in a domain that exists, and no two routes have one public
\* URL, although domains are removed and created anew under the same name
\* while registrations that read the old ones are on their way.
RoutesHaveDomain ==
    /\ \A r \in routes : r.domain \in domains
    /\ \A r, q \in routes : r.src = q.src => r = q

\* Names in which no joining sign occurs: no dot where the label is part of the
\* host, and no hyphen in a uid.
Plain(c) ==
    /\ Bind => Free(c.user, ".") /\ Free(c.app, ".")
    /\ Free(c.user, "-")

\* Nobody is refused, and no registration fails, for the route of an app in
\* another domain, of another name, or, in a USER domain, of another user, as
\* long as the names are plain: the URLs that routes have, or that registrations
\* under way are about to take, keep them apart.
PlainNamesKeepApart ==
    \A r, q \in routes \cup Wanted :
        r.src = q.src /\ Plain(r.client) /\ Plain(q.client) =>
            /\ NameOf[r.domain] = NameOf[q.domain]
            /\ TypeOf[r.domain] = TypeOf[q.domain] =>
                 /\ TypeOf[r.domain] \in {"STANDARD", "USER"} =>
                      r.client.app = q.client.app
                 /\ TypeOf[r.domain] = "USER" => r.client.user = q.client.user

\* set_default_domain is refused or leaves its domain the only default, when
\* the domains that are left of those it read have the flags it read: removals,
\* creations and registrations in between do not matter.  (A domain that was
\* the default already gets no UPDATE, so that its removal is not noticed.)
LoneSetSettles ==
    [][\A w \in Workers :
         /\ SetDefaultCommits(w)
         /\ job[w].id \in domains
         /\ defaults = job[w].seen \cap domains
         => defaults' = {job[w].id}]_vars

\* The address that a row of table route stands for.
AddressOf(r) == [src |-> r.src, client |-> r.client, name |-> NameOf[r.domain]]

Addressing == INSTANCE Addresses WITH
    Names <- Names,
    Address <- {AddressOf(r) : r \in RouteRow},
    open <- {NameOf[d] : d \in domains},
    chosen <- {NameOf[d] : d \in defaults},
    taken <- {AddressOf(r) : r \in routes}

\* By name, domains, defaults and URLs change only as Addresses allows, whatever
\* was removed, or created anew under the same name with another id, between the
\* read of a unit of work and its commit: no name is closed under the routes that
\* are in it, no route gets a URL that another has or one in a name that is not
\* open, and no step makes a default of a name that is not open, or of two.
ImplementsAddresses == Addressing!Spec

\* "assert new_domain.default", "assert not old_domain.default"
\* (tests/e2e/test_route_registry.py:1287): once a domain is made the default,
\* no other is.
AtMostOneDefault == \A d, e \in defaults : d = e

\* At most one call of set_default_domain is under way.
CallsTakeTurns ==
    \A v, w \in Workers : Doing(v, "default") /\ Doing(w, "default") => v = w
=============================================================================
