------------------------------ MODULE Gateway ------------------------------
(***************************************************************************)
(* An OWS request on its way through services/gateway: the token bucket of *)
(* its client, the decision of services/auth about what its URL says, the  *)
(* service and version its URL or its body asks for, and the backend.      *)
(* Rules change while requests are under way, tokens come with time, and   *)
(* auth or a backend may not answer.                                       *)
(*                                                                         *)
(* Auth evaluates the rules afresh: that a cached decision is as recent as *)
(* the rules is the matter of AuthzCache.  A message is drawn when it is   *)
(* first looked at, after the bucket.                                      *)
(***************************************************************************)
EXTENDS Rules

CONSTANTS
    Requests, Clients,
    Messages,       \* [Requests -> SUBSET Message]: what each of them may ask
    Roles,          \* [user -> SUBSET roles]
    Backends,       \* the services whose backend is configured
    NewRules,       \* the rules an administrator may add
    DefaultAllow,   \* the decision when no rule decides
    Limit, Burst,   \* tokens per tick, and tokens at most
    MaxClock,       \* bound: ticks
    MaxChanges      \* bound: changes of the rules

ASSUME ClientsAssumption == Clients # {}
ASSUME RateAssumption == Limit \in Nat /\ Burst \in Nat
ASSUME BoundsAssumption == MaxClock \in Nat /\ MaxChanges \in Nat
ASSUME DefaultAssumption == DefaultAllow \in BOOLEAN
ASSUME RulesAssumption == NewRules \subseteq GeofenceRule
\* The numbers of a version may be any: cmpVer takes what is between the dots.
ASSUME MessagesAssumption ==
    \A r \in Requests : \A m \in Messages[r] :
        m.kvp.version \in Seq(Int) /\ m.body.version \in Seq(Int)

VARIABLES
    clock,
    bucket,         \* [Clients -> Nat]: the tokens of a client's limiter
    rules,          \* the rows of geofence_rules: [id, rule]
    req,            \* [Requests -> Request]
    changes,        \* what is left of MaxChanges
    count, mark     \* history: how many requests of a client were admitted, and how
                    \* many had been when each tick began

rate == << clock, bucket, count, mark >>
vars == << rate, rules, req, changes >>
-----------------------------------------------------------------------------
(* Versions and services.                                                  *)

Versions == [WMS |-> << <<1,3,0>>, <<1,1,1>> >>, WFS |-> << <<2,0,0>>, <<1,1,0>>, <<1,0,0>> >>,
             WMTS |-> << <<1,0,0>> >>, WPS |-> << <<1,0,0>> >>, CSW |-> << <<2,0,2>> >>,
             WCS |-> << <<2,0,1>>, <<2,0,0>> >>]
Services == DOMAIN Versions

\* A version stands for the one with zeros appended.
Part(v, i) == IF i \in DOMAIN v THEN v[i] ELSE 0
\* Slip: versions are compared number by number
AtMostEach(a, b) == \A i \in DOMAIN a \cup DOMAIN b : Part(a, i) <= Part(b, i)
AtMost(a, b) ==
    \A i \in DOMAIN a \cup DOMAIN b :
        Part(a, i) > Part(b, i) => \E j \in 1..(i - 1) : Part(a, j) < Part(b, j)

\* The first supported version, newest first, that is not above the wanted one.
Negotiate(service, wanted) ==
    LET vs == Versions[service]
        fit == {i \in DOMAIN vs : AtMost(vs[i], wanted)}
    IN IF wanted = <<>> THEN vs[1] ELSE IF fit = {} THEN Last(vs) ELSE vs[Min(fit)]

\* What the URL of an endpoint implies when no service is named.
EndpointService ==
    [wms |-> "WMS", wfs |-> "WFS", wps |-> "WPS", wmts |-> "WMTS", gwc |-> "WMTS",
     csw |-> "CSW", wcs |-> "WCS"]
-----------------------------------------------------------------------------
(* A message: user ("" for anonymous), valid (its credentials), workspace,  *)
(* layer and endpoint of its path, kvp (what its URL asks), post, xml (the  *)
(* body is a document), body (what its root element asks) and read (the     *)
(* X-Giti-CQL-Read it brings of its own).                                   *)
Nothing == [service |-> "", request |-> "", version |-> <<>>]
NoMessage == [user |-> "", valid |-> TRUE, workspace |-> "", layer |-> "", endpoint |-> "",
              kvp |-> Nothing, post |-> FALSE, xml |-> TRUE, body |-> Nothing, read |-> <<>>]

\* seen: the rules it was decided by; grant: the X-Giti-CQL-Read the backend gets;
\* served: what the backend is asked; outcome: of an answered one, "challenged"
\* to log in, "refused" for what it is, "failed" for want of a service, "served".
Idle == [pc |-> "idle", client |-> CHOOSE c \in Clients : TRUE, msg |-> NoMessage, seen |-> <<>>,
         grant |-> <<>>, served |-> Nothing, outcome |-> ""]

Init ==
    /\ clock = 0
    /\ bucket = [c \in Clients |-> Burst]
    /\ count = [c \in Clients |-> 0] /\ mark = [c \in Clients |-> << 0 >>]
    /\ rules = {}
    /\ req = [r \in Requests |-> Idle]
    /\ changes = MaxChanges

Become(r, new) == req' = [req EXCEPT ![r] = new]
Answered(r, outcome) ==
    Become(r, [Idle EXCEPT !.pc = "done", !.outcome = outcome])
-----------------------------------------------------------------------------
(* rateLimitMiddleware.                                                    *)

Arrive(r) ==
    /\ req[r].pc \in {"idle", "done"}
    /\ \E c \in Clients : Become(r, [Idle EXCEPT !.pc = "allow", !.client = c])
    /\ UNCHANGED << rate, rules, changes >>

\* Slip: all clients share a limiter
TakeFromAll(c) == [d \in Clients |-> bucket[d] - 1]
\* A limiter is made full, under the mutex, when a client is first seen.
Take(c) == [bucket EXCEPT ![c] = @ - 1]

Allow(r) ==
    LET c == req[r].client IN
    /\ req[r].pc = "allow"
    /\ IF bucket[c] = 0
       THEN Answered(r, "refused") /\ UNCHANGED << bucket, count >>
       ELSE /\ Become(r, [req[r] EXCEPT !.pc = "authz"])
            /\ bucket' = Take(c)
            /\ count' = [count EXCEPT ![c] = @ + 1]
    /\ UNCHANGED << clock, mark, rules, changes >>

\* Slip: tokens pile up
RefilledPast(n) == n + Limit
\* Tokens come with time; those above Burst are lost.
Refilled(n) == IF n + Limit < Burst THEN n + Limit ELSE Burst

Tick ==
    /\ clock < MaxClock
    /\ clock' = clock + 1
    /\ bucket' = [c \in Clients |-> Refilled(bucket[c])]
    /\ mark' = [c \in Clients |-> Append(mark[c], count[c])]
    /\ UNCHANGED << count, rules, req, changes >>
-----------------------------------------------------------------------------
(* authzMiddleware, and check in the auth service.                         *)

\* ORDER BY priority, id
Before(a, b) ==
    \/ a.rule.priority < b.rule.priority
    \/ a.rule.priority = b.rule.priority /\ a.id < b.id
ListRules ==
    LET sorted == CHOOSE s \in SetToSeqs(rules) :
                    \A i, j \in DOMAIN s : i < j => Before(s[i], s[j])
    IN [i \in DOMAIN sorted |-> sorted[i].rule]

Subject(m) == [user |-> m.user, roles |-> Roles[m.user]]
Query(m) == [service |-> m.kvp.service, request |-> m.kvp.request,
             workspace |-> m.workspace, layer |-> m.layer]

\* The header of the request is replaced by a constraint, and stays without one.
Forwarded(m, d) == IF d.read # <<>> THEN d.read ELSE m.read

Check(r) ==
    /\ req[r].pc = "authz"
    /\ \E m \in Messages[r] :
         LET d == Evaluate(ListRules, Subject(m), Query(m), DefaultAllow)
         IN IF m.valid /\ d.allow
            THEN Become(r, [req[r] EXCEPT !.pc = "dispatch", !.msg = m, !.seen = ListRules,
                                          !.grant = Forwarded(m, d)])
            ELSE Answered(r, IF ~m.valid \/ m.user = "" THEN "challenged" ELSE "refused")
    /\ UNCHANGED << rate, rules, changes >>

\* Auth answers with an error, which says neither allow nor who the user is.
CheckFails(r) ==
    /\ req[r].pc = "authz"
    /\ Answered(r, "challenged")
    /\ UNCHANGED << rate, rules, changes >>

\* Slip: the client that asks auth has no timeout
GiveUpNever(r) == FALSE /\ UNCHANGED vars
\* Auth cannot be reached, or has not answered for five seconds.
GiveUp(r) ==
    /\ req[r].pc = "authz"
    /\ Answered(r, "failed")
    /\ UNCHANGED << rate, rules, changes >>

CreateRule ==
    /\ changes > 0 /\ changes' = changes - 1
    /\ \E rule \in NewRules : rules' = rules \cup {[id |-> MaxChanges - changes, rule |-> rule]}
    /\ UNCHANGED << rate, req >>

DeleteRule ==
    /\ changes > 0 /\ changes' = changes - 1
    /\ \E row \in rules : rules' = rules \ {row}
    /\ UNCHANGED << rate, req >>
-----------------------------------------------------------------------------
(* newDispatcher.                                                          *)

Asked(m) == IF m.post THEN m.body ELSE m.kvp
ServiceOf(m) ==
    IF Asked(m).service # "" THEN Asked(m).service
    ELSE IF m.endpoint \in DOMAIN EndpointService THEN EndpointService[m.endpoint] ELSE ""

Dispatch(r) ==
    LET m == req[r].msg
        service == ServiceOf(m)
    IN /\ req[r].pc = "dispatch"
       /\ IF (m.post /\ ~m.xml) \/ service \notin Services \/ Asked(m).request = ""
          THEN Answered(r, "refused")
          ELSE IF service \notin Backends THEN Answered(r, "failed")
          ELSE Become(r, [req[r] EXCEPT !.pc = "proxied",
                 !.served = [service |-> service, request |-> Asked(m).request,
                             version |-> Negotiate(service, Asked(m).version)]])
       /\ UNCHANGED << rate, rules, changes >>

\* The backend answers, or breaks the connection.
Backend(r) ==
    /\ req[r].pc = "proxied"
    /\ \E outcome \in {"served", "failed"} : Answered(r, outcome)
    /\ UNCHANGED << rate, rules, changes >>
-----------------------------------------------------------------------------
Proceed(r) == Allow(r) \/ GiveUp(r) \/ Dispatch(r) \/ Backend(r)

Next ==
    \/ \E r \in Requests : Arrive(r) \/ Proceed(r) \/ Check(r) \/ CheckFails(r)
    \/ CreateRule \/ DeleteRule \/ Tick

Spec == Init /\ [][Next]_vars

(* The gateway runs and backends end their answers, for which it sets no   *)
(* limit of time; auth may be silent.                                      *)
FairSpec == Spec /\ \A r \in Requests : WF_vars(Proceed(r))
-----------------------------------------------------------------------------
(* The state has its form; a bucket holds at most Burst, and whom a        *)
(* backend serves has passed the limiter and the check.                    *)
TypeOK ==
    /\ clock \in 0..MaxClock
    /\ bucket \in [Clients -> 0..Burst]
    /\ count \in [Clients -> Nat]
    /\ mark \in [Clients -> Seq(Nat)] /\ \A c \in Clients : Len(mark[c]) = clock + 1
    /\ changes \in 0..MaxChanges
    /\ \A r \in Requests :
         /\ req[r].pc \in {"idle", "allow", "authz", "dispatch", "proxied", "done"}
         /\ req[r].client \in Clients
         /\ req[r].pc \in {"dispatch", "proxied"} => count[req[r].client] > 0

(* A request passes the limiter exactly if, with it, its client has had in *)
(* no stretch of time more than Burst requests and Limit for each tick of  *)
(* it: over the rate none passes, and none is refused because of other     *)
(* clients or of requests long ago (rateLimitMiddleware).                  *)
WithinRate(c) ==
    \A t \in 0..clock : count[c] + 1 - mark[c][t + 1] <= Burst + Limit * (clock - t)
RateExact ==
    [][\A r \in Requests :
         req[r].pc = "allow" /\ req'[r].pc # "allow" =>
           (req'[r].pc = "authz") = WithinRate(req[r].client)]_vars

(* What reaches a backend was allowed by the first matching rule that      *)
(* decides, or by default, with the constraints of exactly the LIMIT rules *)
(* before that one, in their order, whatever the request brought; without  *)
(* such a rule it has no constraint, unless it brought a header of its own *)
(* (authz.go:73 leaves that as it is).  If the URL names service and       *)
(* operation, and a body names the same, that is what is served            *)
(* (Evaluate, authzMiddleware, newDispatcher).                             *)
Decides(m, rs) ==
    LET hit == {i \in DOMAIN rs : Matches(rs[i], Subject(m), Query(m))}
        deciding == {i \in hit : rs[i].access # "LIMIT"}
        binding == {i \in hit : rs[i].access = "LIMIT" /\ \A j \in deciding : i < j}
    IN [allow |-> IF deciding = {} THEN DefaultAllow ELSE rs[Min(deciding)].access = "ALLOW",
        read  |-> FlattenSeq([i \in DOMAIN rs |-> IF i \in binding THEN rs[i].read ELSE <<>>])]
SaysTheSame(m) ==
    /\ m.kvp.service # "" /\ m.kvp.request # ""
    /\ Asked(m).service = m.kvp.service /\ Asked(m).request = m.kvp.request
ServedAsDecided ==
    \A r \in Requests :
      LET m == req[r].msg
          d == Decides(m, req[r].seen)
      IN req[r].pc = "proxied" =>
        /\ d.allow
        /\ m.read = <<>> \/ d.read # <<>> => req[r].grant = d.read
        /\ req[r].served.service \in Backends
        /\ SaysTheSame(m) => /\ req[r].served.service = Query(m).service
                             /\ req[r].served.request = Query(m).request

(* The version a backend is told is the highest it speaks that is not      *)
(* above the wanted one, its lowest when all are, its highest when none is *)
(* wanted (ows.Negotiate).                                                 *)
Below(v, w) ==
    \E i \in DOMAIN v \cup DOMAIN w :
        Part(v, i) < Part(w, i) /\ \A j \in 1..(i - 1) : Part(v, j) = Part(w, j)
VersionNegotiated ==
    \A r \in Requests :
      LET told == req[r].served.version
          spoken == Range(Versions[req[r].served.service])
          wanted == Asked(req[r].msg).version
          fit == {v \in spoken : wanted = <<>> \/ ~Below(wanted, v)}
      IN req[r].pc = "proxied" =>
           IF fit = {}
           THEN told \in spoken /\ \A v \in spoken : ~Below(v, told)
           ELSE told \in fit /\ \A v \in fit : ~Below(told, v)

(* Every request is answered, although auth may say nothing for ever.      *)
AnsweredInTheEnd == \A r \in Requests : req[r].pc # "idle" ~> req[r].pc = "done"
=============================================================================
