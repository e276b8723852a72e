---------------------------- MODULE GatewayProofs ----------------------------
(***************************************************************************)
(* Notifying the gateway leaves the life of routes as it is, so that       *)
(* everything proved of RouteLifecycle holds with the gateway too; and the *)
(* gateway's copy inherits what is true of the list it is a copy of.       *)
(***************************************************************************)
EXTENDS GatewaySync, RouteSafetyProofs

\* Each step of GatewaySync is a step of RouteLifecycle or leaves it alone.
LEMMA StepImplements == [SyncNext]_allVars => [Next]_lifeVars
<1> SUFFICES ASSUME [SyncNext]_allVars PROVE [Next]_lifeVars
  OBVIOUS
<1>1. CASE UNCHANGED allVars
  BY <1>1 DEF allVars
<1>2. ASSUME NEW v \in Servers, Handler(v)
      PROVE  Register(v) \/ UNCHANGED lifeVars
  BY <1>2 DEF Handler, HandlerCommits, HandlerFails, HandlerSendsUpdate,
              HandlerSendsNotify, Register
<1>3. ASSUME NEW v \in Servers, Job(v)
      PROVE  Track(v) \/ UNCHANGED lifeVars
  BY <1>3 DEF Job, JobStarts, JobFindsNothing, JobChecks, JobChecked,
              JobNotifies, Track
<1>4. ASSUME NEW v \in Servers, NEW u \in Users, NEW s \in Srcs, HandlerRead(v, u, s)
      PROVE  Client
  BY <1>4 DEF HandlerRead, Client
<1>5. ASSUME NEW m \in Mails, Deliver(m)
      PROVE  UNCHANGED lifeVars
  BY <1>5 DEF Deliver, MailStarts, MailDelivers
<1>6. CASE Elsewhere
  BY <1>6 DEF Elsewhere, Next, Operation, Client
<1>7. CASE SyncFailure
  BY <1>7 DEF SyncFailure, HandlerNotifyFails, JobNotifyFails, Dies, MailRaises,
              MailCrashes, Failure, Next
<1>8. CASE GatewayFetches
  BY <1>8 DEF GatewayFetches
<1> QED
  BY <1>1, <1>2, <1>3, <1>4, <1>5, <1>6, <1>7, <1>8 DEF SyncNext, SyncWork, Next, Operation

\* With the gateway, routes live as RouteLifecycle says: its theorems carry over.
THEOREM SyncImplements == SyncSpec => Spec
<1>1. SyncInit => Init
  BY DEF SyncInit
<1> QED
  BY <1>1, StepImplements, PTL DEF SyncSpec, Spec

-----------------------------------------------------------------------------
\* What the gateway may hold.
SyncInv == SyncTypeOK /\ GatewayOnePolicy

\* The list is of the gateway's type, and consistent when table rule is.
LEMMA ListedOnePolicy ==
    ASSUME TypeOK, OnePolicyPerPair
    PROVE  /\ Listed \in [Srcs -> {None} \cup SUBSET Rule]
           /\ \A s \in Srcs : Listed[s] # None =>
                \A x, y \in Listed[s] : x.entity = y.entity => x = y
BY DEF TypeOK, StoreTypeOK, OnePolicyPerPair, Listed

\* The gateway starts with the list as it is.
LEMMA SyncInitInv ==
    ASSUME SyncInit, TypeOK, OnePolicyPerPair
    PROVE  SyncInv
BY ListedOnePolicy DEF SyncInit, SyncInv, SyncTypeOK, GatewayOnePolicy

\* Only a fetch changes the gateway's copy, to a list that is consistent.
LEMMA SyncNextInv ==
    ASSUME SyncInv, TypeOK, OnePolicyPerPair, [SyncNext]_allVars
    PROVE  SyncInv'
<1> USE DEF SyncInv
<1>1. CASE UNCHANGED allVars
  BY <1>1 DEF allVars, syncVars, SyncTypeOK, GatewayOnePolicy
<1>2. CASE GatewayFetches
  BY <1>2, ListedOnePolicy DEF GatewayFetches, SyncTypeOK, GatewayOnePolicy
<1>3. ASSUME NEW v \in Servers, Handler(v) \/ Job(v)
      PROVE  SyncTypeOK' /\ UNCHANGED gateway
  <2>1. CASE Handler(v)
    BY <2>1, SyncAssumption
       DEF Handler, HandlerCommits, HandlerFails, HandlerSendsUpdate,
           HandlerSendsNotify, syncVars, SyncTypeOK, Mail
  <2>2. CASE Job(v)
    BY <2>2 DEF Job, JobStarts, JobFindsNothing, JobChecks, JobChecked,
                JobNotifies, syncVars, SyncTypeOK
  <2> QED
    BY <1>3, <2>1, <2>2
<1>4. ASSUME NEW m \in Mails, Deliver(m)
      PROVE  SyncTypeOK' /\ UNCHANGED gateway
  BY <1>4, SyncAssumption
     DEF Deliver, MailStarts, MailDelivers, Running, SyncTypeOK, Mail
<1>5. CASE SyncFailure
  <2>1. ASSUME NEW v \in Servers, HandlerNotifyFails(v) \/ JobNotifyFails(v) \/ Dies(v)
        PROVE  SyncTypeOK' /\ UNCHANGED gateway
    BY <2>1 DEF HandlerNotifyFails, JobNotifyFails, Dies, SyncTypeOK
  <2>2. ASSUME NEW m \in Mails, MailRaises(m) \/ MailCrashes(m)
        PROVE  SyncTypeOK' /\ UNCHANGED gateway
    BY <2>2, SyncAssumption
       DEF MailRaises, MailCrashes, Running, SyncTypeOK, Mail
  <2> QED
    BY <1>5, <2>1, <2>2 DEF SyncFailure, syncVars, SyncTypeOK, GatewayOnePolicy
<1>6. CASE Elsewhere \/ \E v \in Servers, u \in Users, s \in Srcs : HandlerRead(v, u, s)
  BY <1>6 DEF Elsewhere, HandlerRead, syncVars, SyncTypeOK, GatewayOnePolicy
<1> QED
  BY <1>1, <1>2, <1>3, <1>4, <1>5, <1>6 DEF SyncNext, SyncWork, GatewayOnePolicy

\* TypeOK and OnePolicyPerPair hold by the theorems of RouteLifecycle.
LEMMA SyncInvHolds == SyncSpec => []SyncInv
<1>1. SyncSpec => []TypeOK /\ []OnePolicyPerPair
  BY SyncImplements, TypeCorrect, OnePolicy, PTL
<1> QED
  BY <1>1, SyncInitInv, SyncNextInv, PTL DEF SyncSpec

\* Whatever is lost on the way, and whenever the list is fetched, the gateway
\* never admits and refuses one entity at one URL.
THEOREM GatewayConsistent == SyncSpec => []GatewayOnePolicy
<1>1. SyncInv => GatewayOnePolicy
  BY DEF SyncInv
<1> QED
  BY <1>1, SyncInvHolds, PTL

\* The notifications, the tasks and the gateway's copy keep their types.
THEOREM SyncTypes == SyncSpec => []SyncTypeOK
<1>1. SyncInv => SyncTypeOK
  BY DEF SyncInv
<1> QED
  BY <1>1, SyncInvHolds, PTL
=============================================================================
