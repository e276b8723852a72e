---------------------------- MODULE DomainProofs ----------------------------
(***************************************************************************)
(* Proofs about Domains: the types, the domain of every route, which names *)
(* keep URLs apart, what a call of set_default_domain leaves behind, and   *)
(* that by their names the domains do what Addresses promises.             *)
(***************************************************************************)
EXTENDS Domains, SequenceTheorems, TLAPS

\* The rows of the tables: the types and what the constraints guarantee.
DInv == DomainsTypeOK /\ RoutesHaveDomain

\* A commit only ends as Committed when no constraint is broken.
LEMMA CommittedUnbroken ==
    ASSUME NEW u \in BOOLEAN, NEW o \in BOOLEAN, Committed \in CommitEnds(u, o)
    PROVE  ~u /\ ~o
BY DEF CommitEnds, Committed, Duplicate, Swallowed

\* A read leaves the tables alone and remembers only ids that it saw.
LEMMA BeginKeeps ==
    ASSUME DInv, NEW w \in Workers, Reads(w)
    PROVE  DInv'
<1> USE DomainAssumption DEF DInv, DomainsTypeOK, RoutesHaveDomain, Begins, Job
<1>1. ASSUME NEW d \in Ids, SetDefaultRead(w, d)
      PROVE  DInv'
  BY <1>1 DEF SetDefaultRead
<1>2. ASSUME NEW d \in Ids, RemoveRead(w, d)
      PROVE  DInv'
  BY <1>2 DEF RemoveRead
<1>3. ASSUME NEW c \in Clients, NEW n \in Names \cup {None}, RegisterRead(w, c, n)
      PROVE  DInv'
  <2>1. PICK d \in Lookup(n), stamp \in Stamps :
          Begins(w, [op |-> "register", id |-> d,
                     row |-> [src |-> Url(c, d, stamp), client |-> c, domain |-> d]])
    BY <1>3 DEF RegisterRead
  <2>2. d \in Ids
    BY <2>1 DEF Lookup, Named
  <2> DEFINE row == [src |-> Url(c, d, stamp), client |-> c, domain |-> d]
             j == [op |-> "register", id |-> d, row |-> row]
  <2>3. row.src \in UrlsOf(c, d)
    BY DEF UrlsOf
  <2>4. row \in RouteRow
    BY <2>2, <2>3 DEF RouteRow
  <2>5. j.row.domain = j.id /\ j \in [op : {"register"}, id : Ids, row : RouteRow]
    BY <2>2, <2>4
  <2>6. j \in Job
    BY <2>5
  <2>7. job' = [job EXCEPT ![w] = j] /\ UNCHANGED <<domains, defaults, routes>>
    BY <2>1
  <2> HIDE DEF j
  <2> QED
    BY <2>6, <2>7
<1> QED
  BY <1>1, <1>2, <1>3 DEF Reads

\* A new route has a domain and a URL of its own.
LEMMA RegisterKeeps ==
    ASSUME DInv, NEW w \in Workers, RegisterCommits(w)
    PROVE  DInv'
<1> USE DEF DInv, DomainsTypeOK, RoutesHaveDomain
<1> DEFINE row == job[w].row
<1>1. /\ job[w] \in [op : {"register"}, id : Ids, row : RouteRow]
      /\ row.domain = job[w].id
      /\ Committed \in RegisterEnds(w)
      /\ routes' = routes \cup {row}
      /\ job' = [job EXCEPT ![w] = None]
      /\ UNCHANGED <<domains, defaults>>
  BY DEF RegisterCommits, Doing, Done, Job
<1>2. Holders(row.src) = {} /\ row.domain \in domains
  BY <1>1, CommittedUnbroken DEF RegisterEnds
<1>3. row \in RouteRow
  BY <1>1
<1>4. \A q \in routes : row.src # q.src
  BY <1>2 DEF Holders
<1> HIDE DEF row
<1>5. DomainsTypeOK'
  BY <1>1, <1>3
<1>6. RoutesHaveDomain'
  BY <1>1, <1>2, <1>4
<1> QED
  BY <1>5, <1>6

\* A domain is removed only when no route is in it.
LEMMA RemoveKeeps ==
    ASSUME DInv, NEW w \in Workers, RemoveCommits(w)
    PROVE  DInv'
<1> USE DEF DInv, DomainsTypeOK, RoutesHaveDomain
<1>1. ~ \E r \in routes : r.domain = job[w].id
  BY CommittedUnbroken DEF RemoveCommits, RemoveEnds
<1>2. /\ domains' = domains \ {job[w].id}
      /\ defaults' = defaults \ {job[w].id}
      /\ job' = [job EXCEPT ![w] = None]
      /\ routes' = routes
  BY DEF RemoveCommits, Done
<1> QED
  BY <1>1, <1>2

\* The flags are those of domains that exist.
LEMMA SetDefaultKeeps ==
    ASSUME DInv, NEW w \in Workers, SetDefaultCommits(w)
    PROVE  DInv'
BY DEF DInv, DomainsTypeOK, RoutesHaveDomain, SetDefaultCommits, Done, Matched,
       Raised, Lowered

\* Every step preserves the invariant.
LEMMA DInvNext ==
    ASSUME DInv, [Next]_vars
    PROVE  DInv'
<1> USE DEF DInv, DomainsTypeOK, RoutesHaveDomain
<1>1. CASE UNCHANGED vars
  BY <1>1 DEF vars
<1>2. ASSUME NEW d \in Ids, CreateDomain(d)
      PROVE  DInv'
  BY <1>2 DEF CreateDomain
<1>3. ASSUME NEW w \in Workers, Ends(w)
      PROVE  DInv'
  <2>1. CASE SetDefaultFails(w) \/ RemoveSwallowed(w) \/ RegisterFails(w) \/ Crashes(w)
    BY <2>1 DEF SetDefaultFails, RemoveSwallowed, RegisterFails, Crashes, Done
  <2> QED
    BY <1>3, <2>1, SetDefaultKeeps, RemoveKeeps, RegisterKeeps DEF Ends
<1> QED
  BY <1>1, <1>2, <1>3, BeginKeeps DEF Next

\* The invariant holds from the empty database on.
LEMMA DInvHolds == Spec => []DInv
<1>1. Init => DInv
  BY DEF Init, DInv, DomainsTypeOK, RoutesHaveDomain
<1> QED
  BY <1>1, DInvNext, PTL DEF Spec

\* Every flag is of a domain that exists, and every unit of work is about ids
\* that were in the table.
THEOREM DomainTypes == Spec => []DomainsTypeOK
BY DInvHolds, PTL DEF DInv

\* Every route is in a domain that exists, with a URL of its own.
THEOREM DomainsOfRoutes == Spec => []RoutesHaveDomain
BY DInvHolds, PTL DEF DInv

\* set_default_domain, when the flags of what is left are as it read them, is
\* refused or leaves its domain the only default.
THEOREM LoneSet == Spec => LoneSetSettles
<1> DEFINE Lone(w) == /\ SetDefaultCommits(w)
                      /\ job[w].id \in domains
                      /\ defaults = job[w].seen \cap domains
                      => defaults' = {job[w].id}
<1>1. ASSUME NEW w \in Workers, SetDefaultCommits(w), job[w].id \in domains,
             defaults = job[w].seen \cap domains
      PROVE  defaults' = {job[w].id}
  BY <1>1 DEF SetDefaultCommits, Matched, Raised, Lowered
<1>2. [Next]_vars => [\A w \in Workers : Lone(w)]_vars
  BY <1>1
<1> QED
  BY <1>2, PTL DEF Spec, LoneSetSettles

\* A call of set_default_domain has seen every default there is: removals, which
\* may overlap with it, make no new ones.
SeesDefaults == \A w \in Workers : Doing(w, "default") => defaults \subseteq job[w].seen

\* It stays so as long as no other call commits in between.
LEMMA NextSeesDefaults ==
    ASSUME DInv, SeesDefaults, CallsTakeTurns, [Next]_vars
    PROVE  SeesDefaults'
<1> USE DEF SeesDefaults, Doing
<1>0. job \in [Workers -> {None} \cup Job]
  BY DEF DInv, DomainsTypeOK
<1>1. CASE UNCHANGED vars
  BY <1>1 DEF vars
<1>2. ASSUME NEW d \in Ids, CreateDomain(d)
      PROVE  SeesDefaults'
  BY <1>2 DEF CreateDomain
<1>3. ASSUME NEW w \in Workers, NEW d \in Ids, SetDefaultRead(w, d)
      PROVE  SeesDefaults'
  BY <1>0, <1>3 DEF SetDefaultRead, Begins
<1>4. ASSUME NEW w \in Workers, NEW j, j.op # "default", Begins(w, j)
      PROVE  SeesDefaults'
  BY <1>0, <1>4 DEF Begins
<1>5. ASSUME NEW w \in Workers, Reads(w)
      PROVE  SeesDefaults'
  BY <1>3, <1>4, <1>5 DEF Reads, RemoveRead, RegisterRead
<1>6. ASSUME NEW w \in Workers, SetDefaultCommits(w)
      PROVE  SeesDefaults'
  BY <1>0, <1>6 DEF SetDefaultCommits, Done, CallsTakeTurns
<1>7. ASSUME NEW w \in Workers, Done(w), defaults' \subseteq defaults
      PROVE  SeesDefaults'
  BY <1>0, <1>7 DEF Done
<1>8. ASSUME NEW w \in Workers, Ends(w)
      PROVE  SeesDefaults'
  BY <1>6, <1>7, <1>8 DEF Ends, SetDefaultFails, RemoveCommits, RemoveSwallowed,
                          RegisterCommits, RegisterFails, Crashes
<1> QED
  BY <1>1, <1>2, <1>5, <1>8 DEF Next

\* As long as calls of set_default_domain take turns, no more than one domain is
\* the default, whatever else is created, removed or registered meanwhile: the
\* finding that there may be two (AtMostOneDefault) has no other cause.
THEOREM TurnsKeepOneDefault == Spec /\ []CallsTakeTurns => []AtMostOneDefault
<1>1. Init => SeesDefaults /\ AtMostOneDefault
  BY DEF Init, SeesDefaults, Doing, AtMostOneDefault
<1>2. DInv /\ SeesDefaults /\ CallsTakeTurns /\ [Next]_vars => SeesDefaults'
  BY NextSeesDefaults
<1>3. ASSUME DInv, SeesDefaults, AtMostOneDefault, [Next]_vars
      PROVE  AtMostOneDefault'
  <2>1. ASSUME NEW w \in Workers, SetDefaultCommits(w)
        PROVE  AtMostOneDefault'
    <3>1. defaults' \subseteq {job[w].id}
      BY <1>3, <2>1 DEF SetDefaultCommits, SeesDefaults, Raised, Lowered
    <3> QED
      BY <3>1 DEF AtMostOneDefault
  <2>2. ASSUME defaults' \subseteq defaults
        PROVE  AtMostOneDefault'
    BY <1>3, <2>2 DEF AtMostOneDefault
  <2>3. ASSUME NEW w \in Workers, Reads(w) \/ (Ends(w) /\ ~SetDefaultCommits(w))
        PROVE  defaults' \subseteq defaults
    BY <2>3 DEF Reads, SetDefaultRead, RemoveRead, RegisterRead, Begins, Ends,
                SetDefaultFails, RemoveCommits, RemoveSwallowed, RegisterCommits,
                RegisterFails, Crashes
  <2>4. ASSUME NEW d \in Ids, CreateDomain(d)
        PROVE  defaults' \subseteq defaults
    BY <2>4 DEF CreateDomain
  <2>5. CASE UNCHANGED vars
    BY <2>2, <2>5 DEF vars
  <2>6. ASSUME NEW w \in Workers, Reads(w) \/ Ends(w)
        PROVE  AtMostOneDefault'
    BY <2>1, <2>2, <2>3, <2>6
  <2> QED
    BY <1>3, <2>2, <2>4, <2>5, <2>6 DEF Next
<1> QED
  BY <1>1, <1>2, <1>3, DInvHolds, PTL DEF Spec

-----------------------------------------------------------------------------
(***************************************************************************)
(* URLs.                                                                   *)
(***************************************************************************)

\* What two names are that are joined by a sign.
Parts(s, x, sign, y) ==
    /\ Len(s) = Len(x) + 1 + Len(y)
    /\ \A i \in 1..Len(x) : s[i] = x[i]
    /\ s[Len(x) + 1] = sign
    /\ \A i \in 1..Len(y) : s[Len(x) + 1 + i] = y[i]

\* Joining is what it says.
LEMMA JoinedSigns ==
    ASSUME NEW x \in Name, NEW y \in Name, NEW sign \in Sign
    PROVE  /\ x \o <<sign>> \o y \in Name
           /\ Parts(x \o <<sign>> \o y, x, sign, y)
<1> DEFINE f == Append(x, sign)
<1>1. /\ x \in Seq(Sign) /\ y \in Seq(Sign)
      /\ Len(x) \in Nat /\ Len(y) \in Nat
  BY DEF Name
<1>2. /\ f \in Seq(Sign) /\ Len(f) = Len(x) + 1
      /\ \A i \in 1..Len(x) : f[i] = x[i]
      /\ f[Len(x) + 1] = sign
  BY <1>1, AppendProperties
<1>3. x \o <<sign>> = f
  BY <1>1, AppendIsConcat
<1> HIDE DEF f
<1>4. /\ f \o y \in Seq(Sign)
      /\ Len(f \o y) = Len(f) + Len(y)
      /\ \A i \in 1..Len(f) + Len(y) :
           (f \o y)[i] = IF i <= Len(f) THEN f[i] ELSE y[i - Len(f)]
  BY <1>1, <1>2, ConcatProperties
<1>5. Len(f \o y) = Len(x) + 1 + Len(y)
  BY <1>1, <1>2, <1>4
<1>6. \A i \in 1..Len(x) : (f \o y)[i] = x[i]
  BY <1>1, <1>2, <1>4
<1>7. (f \o y)[Len(x) + 1] = sign
  BY <1>1, <1>2, <1>4
<1>8. ASSUME NEW i \in 1..Len(y)
      PROVE  (f \o y)[Len(x) + 1 + i] = y[i]
  <2>1. /\ Len(x) + 1 + i \in 1..Len(f) + Len(y)
        /\ ~(Len(x) + 1 + i <= Len(f))
        /\ Len(x) + 1 + i - Len(f) = i
    BY <1>1, <1>2
  <2> QED
    BY <1>4, <2>1
<1> QED
  BY <1>3, <1>4, <1>5, <1>6, <1>7, <1>8 DEF Name, Parts

\* The first sign of a kind tells where the first of two joined sequences ends.
LEMMA FirstSign ==
    ASSUME NEW x \in Name, NEW y \in Name, NEW u \in Name, NEW v \in Name,
           NEW sign \in Sign, Free(x, sign), Free(u, sign),
           x \o <<sign>> \o y = u \o <<sign>> \o v
    PROVE  x = u /\ y = v
<1> DEFINE s == x \o <<sign>> \o y
<1>0. Parts(s, x, sign, y) /\ Parts(s, u, sign, v)
  BY JoinedSigns, Zenon
<1> HIDE DEF s
<1>1. /\ Len(s) = Len(x) + 1 + Len(y)
      /\ \A i \in 1..Len(x) : s[i] = x[i]
      /\ s[Len(x) + 1] = sign
      /\ \A i \in 1..Len(y) : s[Len(x) + 1 + i] = y[i]
  BY <1>0 DEF Parts
<1>2. /\ Len(s) = Len(u) + 1 + Len(v)
      /\ \A i \in 1..Len(u) : s[i] = u[i]
      /\ s[Len(u) + 1] = sign
      /\ \A i \in 1..Len(v) : s[Len(u) + 1 + i] = v[i]
  BY <1>0 DEF Parts
<1>3. Len(x) \in Nat /\ Len(y) \in Nat /\ Len(u) \in Nat /\ Len(v) \in Nat
  BY DEF Name
<1>4. ~(Len(x) < Len(u))
  <2>1. SUFFICES ASSUME Len(x) < Len(u) PROVE FALSE
    OBVIOUS
  <2>2. Len(x) + 1 \in 1..Len(u)
    BY <1>3, <2>1
  <2> QED
    BY <1>1, <1>2, <2>2 DEF Free
<1>5. ~(Len(u) < Len(x))
  <2>1. SUFFICES ASSUME Len(u) < Len(x) PROVE FALSE
    OBVIOUS
  <2>2. Len(u) + 1 \in 1..Len(x)
    BY <1>3, <2>1
  <2> QED
    BY <1>1, <1>2, <2>2 DEF Free
<1>6. Len(x) = Len(u) /\ Len(y) = Len(v)
  BY <1>1, <1>2, <1>3, <1>4, <1>5
<1>7. x = u
  <2>1. \A i \in 1..Len(x) : x[i] = u[i]
    BY <1>1, <1>2, <1>6
  <2> QED
    BY <1>6, <2>1, SeqEqual DEF Name
<1>8. y = v
  <2>1. \A i \in 1..Len(y) : y[i] = v[i]
    BY <1>1, <1>2, <1>6
  <2> QED
    BY <1>6, <2>1, SeqEqual DEF Name
<1> QED
  BY <1>7, <1>8

\* And of names that a hyphen joins.
LEMMA JoinedName ==
    ASSUME NEW x \in Name, NEW y \in Name
    PROVE  /\ Joined(x, y) \in Name
           /\ Parts(Joined(x, y), x, "-", y)
<1>1. \A sign \in Sign : /\ x \o <<sign>> \o y \in Name
                         /\ Parts(x \o <<sign>> \o y, x, sign, y)
  BY JoinedSigns, Zenon
<1>2. "-" \in Sign
  BY DEF Sign
<1> QED
  BY <1>1, <1>2, Zenon DEF Joined

\* So a hyphen parts two names the first of which has none.
LEMMA FirstHyphen ==
    ASSUME NEW x \in Name, NEW y \in Name, NEW u \in Name, NEW v \in Name,
           Free(x, "-"), Free(u, "-"), Joined(x, y) = Joined(u, v)
    PROVE  x = u /\ y = v
<1>1. \A sign \in Sign :
        (Free(x, sign) /\ Free(u, sign) /\ x \o <<sign>> \o y = u \o <<sign>> \o v)
          => (x = u /\ y = v)
  <2>1. ASSUME NEW sign \in Sign, Free(x, sign), Free(u, sign),
               x \o <<sign>> \o y = u \o <<sign>> \o v
        PROVE  x = u /\ y = v
    BY <2>1, FirstSign, Zenon
  <2> QED
    BY <2>1
<1>2. "-" \in Sign
  BY DEF Sign
<1>3. x \o <<"-">> \o y = u \o <<"-">> \o v
  BY DEF Joined
<1> QED
  BY <1>1, <1>2, <1>3, Zenon

\* A label of plain names has no dot.
LEMMA PlainLabel ==
    ASSUME NEW type \in DomainType, NEW c \in Client, NEW stamp \in Name,
           Free(c.user, "."), Free(c.app, "."), Free(stamp, ".")
    PROVE  /\ Label(type, c.user, c.app, stamp) \in Name
           /\ Free(Label(type, c.user, c.app, stamp), ".")
<1>1. c.user \in Name /\ c.app \in Name
  BY DEF Client
<1>2. ASSUME NEW x \in Name, NEW y \in Name, Free(x, "."), Free(y, ".")
      PROVE  Joined(x, y) \in Name /\ Free(Joined(x, y), ".")
  <2> DEFINE s == Joined(x, y)
  <2>1. /\ s \in Name
        /\ Len(s) = Len(x) + 1 + Len(y)
        /\ \A i \in 1..Len(x) : s[i] = x[i]
        /\ s[Len(x) + 1] = "-"
        /\ \A i \in 1..Len(y) : s[Len(x) + 1 + i] = y[i]
    BY JoinedName DEF Parts
  <2>2. Len(x) \in Nat /\ Len(y) \in Nat
    BY DEF Name
  <2> HIDE DEF s
  <2>3. ASSUME NEW i \in 1..Len(s)
        PROVE  s[i] # "."
    <3>1. CASE i \in 1..Len(x)
      BY <1>2, <2>1, <3>1 DEF Free
    <3>2. CASE i = Len(x) + 1
      BY <2>1, <3>2
    <3>3. CASE i - (Len(x) + 1) \in 1..Len(y)
      <4>1. s[Len(x) + 1 + (i - (Len(x) + 1))] = y[i - (Len(x) + 1)]
        BY <2>1, <3>3
      <4>2. Len(x) + 1 + (i - (Len(x) + 1)) = i
        BY <2>1, <2>2
      <4> QED
        BY <1>2, <3>3, <4>1, <4>2 DEF Free
    <3> QED
      BY <2>1, <2>2, <3>1, <3>2, <3>3
  <2> QED
    BY <2>1, <2>3 DEF Free, s
<1>3. CASE type = "USER"
  BY <1>1, <1>2, <1>3 DEF Label
<1>4. CASE type = "EPHEMERAL"
  BY <1>1, <1>2, <1>4 DEF Label
<1>5. CASE type = "STANDARD"
  BY <1>1, <1>5 DEF Label
<1> QED
  BY <1>3, <1>4, <1>5 DEF DomainType

\* One URL of plain names has one label and one domain.
LEMMA OneUrlOneLabel ==
    ASSUME NEW v \in Name, NEW w \in Name, NEW k \in Name, NEW l \in Name,
           Bind => Free(k, ".") /\ Free(l, "."),
           SrcUrl(v, k, Bind) = SrcUrl(w, l, Bind)
    PROVE  v = w /\ k = l
<1>1. CASE Bind
  <2>1. k \o <<".">> \o v = l \o <<".">> \o w
    BY <1>1 DEF SrcUrl
  <2>2. "." \in Sign
    BY DEF Sign
  <2> QED
    BY <1>1, <2>1, <2>2, FirstSign
<1>2. CASE ~Bind
  BY <1>2 DEF SrcUrl
<1> QED
  BY <1>1, <1>2

\* Plain names keep the URLs of routes, and of registrations under way, apart.
THEOREM UrlsApart == Spec => []PlainNamesKeepApart
<1>1. ASSUME DomainsTypeOK
      PROVE  PlainNamesKeepApart
  <2>1. (routes \cup Wanted) \subseteq RouteRow
    BY <1>1 DEF DomainsTypeOK, Wanted, Doing, Job
  <2>2. SUFFICES ASSUME NEW r \in RouteRow, NEW q \in RouteRow,
                        r.src = q.src, Plain(r.client), Plain(q.client)
                 PROVE  /\ NameOf[r.domain] = NameOf[q.domain]
                        /\ TypeOf[r.domain] = TypeOf[q.domain] =>
                             /\ TypeOf[r.domain] \in {"STANDARD", "USER"} =>
                                  r.client.app = q.client.app
                             /\ TypeOf[r.domain] = "USER" => r.client.user = q.client.user
    BY <2>1 DEF PlainNamesKeepApart
  <2>3. /\ r.client \in Client /\ q.client \in Client
        /\ r.domain \in Ids /\ q.domain \in Ids
        /\ r.src \in UrlsOf(r.client, r.domain)
        /\ q.src \in UrlsOf(q.client, q.domain)
    BY DomainAssumption DEF RouteRow
  <2>4. PICK s \in Stamps : r.src = Url(r.client, r.domain, s)
    BY <2>3 DEF UrlsOf
  <2>5. PICK t \in Stamps : q.src = Url(q.client, q.domain, t)
    BY <2>3 DEF UrlsOf
  <2> DEFINE k == Label(TypeOf[r.domain], r.client.user, r.client.app, s)
             l == Label(TypeOf[q.domain], q.client.user, q.client.app, t)
  <2>6. /\ NameOf[r.domain] \in Name /\ NameOf[q.domain] \in Name
        /\ TypeOf[r.domain] \in DomainType /\ TypeOf[q.domain] \in DomainType
        /\ s \in Name /\ t \in Name /\ Free(s, ".") /\ Free(t, ".")
        /\ r.client.user \in Name /\ r.client.app \in Name
        /\ q.client.user \in Name /\ q.client.app \in Name
    BY <2>3, DomainAssumption DEF Client
  <2>7. k \in Name /\ l \in Name
    <3>1. \A x, y \in Name : Joined(x, y) \in Name
      BY JoinedName
    <3> QED
      BY <2>6, <3>1 DEF Label, DomainType
  <2>8. Bind => Free(k, ".") /\ Free(l, ".")
    BY <2>2, <2>3, <2>6, PlainLabel DEF Plain
  <2>9. SrcUrl(NameOf[r.domain], k, Bind) = SrcUrl(NameOf[q.domain], l, Bind)
    BY <2>2, <2>4, <2>5 DEF Url
  <2> HIDE DEF k, l
  <2>10. NameOf[r.domain] = NameOf[q.domain] /\ k = l
    BY <2>6, <2>7, <2>8, <2>9, OneUrlOneLabel
  <2>11. CASE TypeOf[r.domain] = "STANDARD" /\ TypeOf[q.domain] = "STANDARD"
    BY <2>10, <2>11 DEF Label, k, l
  <2>12. CASE TypeOf[r.domain] = "USER" /\ TypeOf[q.domain] = "USER"
    <3>1. Joined(r.client.user, r.client.app) = Joined(q.client.user, q.client.app)
      BY <2>10, <2>12 DEF Label, k, l
    <3>2. Free(r.client.user, "-") /\ Free(q.client.user, "-")
      BY <2>2 DEF Plain
    <3>3. r.client.user = q.client.user /\ r.client.app = q.client.app
      BY <2>6, <3>1, <3>2, FirstHyphen
    <3> QED
      BY <2>10, <2>12, <3>3
  <2> QED
    BY <2>10, <2>11, <2>12
<1> QED
  BY <1>1, DomainTypes, PTL

-----------------------------------------------------------------------------
(***************************************************************************)
(* Domains implements Addresses.                                           *)
(***************************************************************************)

\* No two domains have one name, so that what happens to one of them happens to
\* its name.
OnePerName == \A d, e \in domains : NameOf[d] = NameOf[e] => d = e

NInv == DInv /\ OnePerName

\* Every step preserves it: only a creation adds a domain.
LEMMA NInvNext ==
    ASSUME NInv, [Next]_vars
    PROVE  NInv'
<1>1. DInv'
  BY DInvNext DEF NInv
<1>2. ASSUME NEW d \in Ids, CreateDomain(d)
      PROVE  OnePerName'
  BY <1>2 DEF NInv, OnePerName, CreateDomain
<1>3. ASSUME NEW w \in Workers, Reads(w) \/ Ends(w)
      PROVE  domains' \subseteq domains
  BY <1>3 DEF Reads, Ends, SetDefaultRead, RemoveRead, RegisterRead, Begins,
       SetDefaultCommits, SetDefaultFails, RemoveCommits, RemoveSwallowed,
       RegisterCommits, RegisterFails, Crashes
<1>4. domains' \subseteq domains => OnePerName'
  BY DEF NInv, OnePerName
<1>5. ASSUME NEW w \in Workers, Reads(w) \/ Ends(w)
      PROVE  OnePerName'
  BY <1>3, <1>4, <1>5
<1>6. CASE UNCHANGED vars
  BY <1>1, <1>4, <1>6 DEF vars, NInv
<1>7. CASE Next
  BY <1>1, <1>2, <1>5, <1>7 DEF Next, NInv
<1> QED
  BY <1>6, <1>7

\* The invariant holds from the empty database on.
LEMMA NInvHolds == Spec => []NInv
<1>1. Init => NInv
  BY DEF Init, NInv, DInv, DomainsTypeOK, RoutesHaveDomain, OnePerName
<1> QED
  BY <1>1, NInvNext, PTL DEF Spec

\* A step that leaves the tables alone is none of the abstract specification.
LEMMA TablesStutter ==
    ASSUME UNCHANGED <<domains, defaults, routes>>
    PROVE  UNCHANGED Addressing!addressVars
BY DEF Addressing!addressVars

\* A creation opens the name.
LEMMA CreateOpens ==
    ASSUME NInv, NEW d \in Ids, CreateDomain(d)
    PROVE  Addressing!Opens(NameOf[d])
<1>1. /\ \A e \in domains : NameOf[e] # NameOf[d]
      /\ domains' = domains \cup {d}
      /\ defaults' = defaults /\ routes' = routes
  BY DEF CreateDomain
<1>2. {NameOf[e] : e \in domains'} = {NameOf[e] : e \in domains} \cup {NameOf[d]}
  BY <1>1
<1>3. NameOf[d] \notin {NameOf[e] : e \in domains}
  BY <1>1
<1> QED
  BY <1>1, <1>2, <1>3 DEF Addressing!Opens

\* A removal closes the name of the domain, or comes too late to do anything.
LEMMA RemoveCloses ==
    ASSUME NInv, NEW w \in Workers, RemoveCommits(w)
    PROVE  \/ \E d \in domains : Addressing!Closes(NameOf[d])
           \/ UNCHANGED Addressing!addressVars
<1>0. PICK d : d = job[w].id
  OBVIOUS
<1>1. ~ \E r \in routes : r.domain = d
  BY <1>0, CommittedUnbroken DEF RemoveCommits, RemoveEnds
<1>2. domains' = domains \ {d} /\ defaults' = defaults \ {d} /\ routes' = routes
  BY <1>0 DEF RemoveCommits
<1>3. /\ defaults \subseteq domains
      /\ \A r \in routes : r.domain \in domains
      /\ \A e, f \in domains : NameOf[e] = NameOf[f] => e = f
  BY DEF NInv, DInv, DomainsTypeOK, RoutesHaveDomain, OnePerName
<1>4. CASE d \notin domains
  <2>1. domains' = domains /\ defaults' = defaults
    BY <1>2, <1>3, <1>4
  <2> QED
    BY <1>2, <2>1, TablesStutter
<1>5. CASE d \in domains
  <2>1. {NameOf[e] : e \in domains'} = {NameOf[e] : e \in domains} \ {NameOf[d]}
    BY <1>2, <1>3, <1>5
  <2>2. {NameOf[e] : e \in defaults'} = {NameOf[e] : e \in defaults} \ {NameOf[d]}
    BY <1>2, <1>3, <1>5
  <2>3. NameOf[d] \in {NameOf[e] : e \in domains}
    BY <1>5
  <2>4. \A a \in {AddressOf(r) : r \in routes} : a.name # NameOf[d]
    BY <1>1, <1>3, <1>5 DEF AddressOf
  <2>5. Addressing!Closes(NameOf[d])
    BY <1>2, <2>1, <2>2, <2>3, <2>4 DEF Addressing!Closes
  <2> QED
    BY <1>5, <2>5
<1> QED
  BY <1>4, <1>5

\* A commit of set_default_domain raises the flag of one name, or of none.
LEMMA SetDefaultChooses ==
    ASSUME NInv, NEW w \in Workers, SetDefaultCommits(w)
    PROVE  \/ \E d \in domains : Addressing!Chooses(NameOf[d])
           \/ UNCHANGED Addressing!addressVars
<1>1. /\ Raised(w) \cup Lowered(w) \subseteq domains
      /\ defaults' = (defaults \cup Raised(w)) \ Lowered(w)
      /\ domains' = domains /\ routes' = routes
  BY DEF SetDefaultCommits, Matched
<1>2. CASE Raised(w) = {} /\ Lowered(w) = {}
  <2>1. defaults' = defaults
    BY <1>1, <1>2
  <2> QED
    BY <1>1, <2>1, TablesStutter
<1>3. CASE Raised(w) # {} \/ Lowered(w) # {}
  <2>1. PICK d \in domains : defaults' \subseteq defaults \cup {d}
    <3>1. CASE Raised(w) # {}
      BY <1>1, <3>1 DEF Raised
    <3>2. CASE Raised(w) = {} /\ Lowered(w) # {}
      BY <1>1, <3>2
    <3> QED
      BY <1>3, <3>1, <3>2
  <2>2. {NameOf[e] : e \in defaults'} \subseteq {NameOf[e] : e \in defaults} \cup {NameOf[d]}
    BY <2>1
  <2>3. NameOf[d] \in {NameOf[e] : e \in domains}
    BY <2>1
  <2>4. Addressing!Chooses(NameOf[d])
    BY <1>1, <2>2, <2>3 DEF Addressing!Chooses
  <2> QED
    BY <2>1, <2>4
<1> QED
  BY <1>2, <1>3

\* A registration takes a URL that is free, in a name that is open.
LEMMA RegisterTakes ==
    ASSUME NInv, NEW w \in Workers, RegisterCommits(w)
    PROVE  job[w].row \in RouteRow /\ Addressing!Takes(AddressOf(job[w].row))
<1> DEFINE row == job[w].row
<1>1. /\ job[w] \in [op : {"register"}, id : Ids, row : RouteRow]
      /\ row.domain = job[w].id
      /\ Committed \in RegisterEnds(w)
      /\ routes' = routes \cup {row}
      /\ domains' = domains /\ defaults' = defaults
  BY DEF NInv, DInv, DomainsTypeOK, RegisterCommits, Doing, Job
<1>2. Holders(row.src) = {} /\ row.domain \in domains
  BY <1>1, CommittedUnbroken DEF RegisterEnds
<1>3. row \in RouteRow
  BY <1>1
<1>4. \A q \in routes : q.src # row.src
  BY <1>2 DEF Holders
<1> HIDE DEF row
<1>5. {AddressOf(r) : r \in routes'} = {AddressOf(r) : r \in routes} \cup {AddressOf(row)}
  BY <1>1
<1>6. AddressOf(row).name \in {NameOf[d] : d \in domains}
  BY <1>2 DEF AddressOf
<1>7. \A b \in {AddressOf(r) : r \in routes} : b.src # AddressOf(row).src
  BY <1>4 DEF AddressOf
<1>8. Addressing!Takes(AddressOf(row))
  BY <1>1, <1>5, <1>6, <1>7 DEF Addressing!Takes
<1> QED
  BY <1>3, <1>8 DEF row

\* Every step is one of Addresses, or none.
LEMMA AddressesStep ==
    ASSUME NInv, [Next]_vars
    PROVE  [Addressing!Next]_Addressing!addressVars
<1>1. CASE UNCHANGED vars
  BY <1>1, TablesStutter DEF vars
<1>2. \A d \in Ids : NameOf[d] \in Names
  BY DomainAssumption
<1>3. domains \subseteq Ids
  BY DEF NInv, DInv, DomainsTypeOK
<1>4. ASSUME NEW d \in Ids, CreateDomain(d)
      PROVE  Addressing!Next
  BY <1>2, <1>4, CreateOpens DEF Addressing!Next
<1>5. ASSUME NEW w \in Workers, Reads(w)
      PROVE  UNCHANGED Addressing!addressVars
  <2>1. UNCHANGED <<domains, defaults, routes>>
    BY <1>5 DEF Reads, SetDefaultRead, RemoveRead, RegisterRead, Begins
  <2> QED
    BY <2>1, TablesStutter
<1>6. ASSUME NEW w \in Workers, Ends(w)
      PROVE  [Addressing!Next]_Addressing!addressVars
  <2>1. CASE SetDefaultCommits(w)
    BY <1>2, <1>3, <2>1, SetDefaultChooses DEF Addressing!Next
  <2>2. CASE RemoveCommits(w)
    BY <1>2, <1>3, <2>2, RemoveCloses DEF Addressing!Next
  <2>3. CASE RegisterCommits(w)
    <3>1. AddressOf(job[w].row) \in {AddressOf(r) : r \in RouteRow}
      BY <2>3, RegisterTakes
    <3> QED
      BY <2>3, <3>1, RegisterTakes DEF Addressing!Next
  <2>4. CASE SetDefaultFails(w) \/ RemoveSwallowed(w) \/ RegisterFails(w) \/ Crashes(w)
    <3>1. UNCHANGED <<domains, defaults, routes>>
      BY <2>4 DEF SetDefaultFails, RemoveSwallowed, RegisterFails, Crashes
    <3> QED
      BY <3>1, TablesStutter
  <2> QED
    BY <1>6, <2>1, <2>2, <2>3, <2>4 DEF Ends
<1> QED
  BY <1>1, <1>4, <1>5, <1>6 DEF Next

\* By name, domains, defaults and URLs change as Addresses promises, whatever
\* was removed or created anew since an operator or a registration read it.
THEOREM DomainsByName == Spec => ImplementsAddresses
<1>1. Init => Addressing!Init
  BY DEF Init, Addressing!Init
<1>2. Spec => [][Addressing!Next]_Addressing!addressVars
  BY NInvHolds, AddressesStep, PTL DEF Spec
<1> QED
  BY <1>1, <1>2, PTL DEF Spec, ImplementsAddresses, Addressing!Spec
=============================================================================
