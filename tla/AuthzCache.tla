------------------------------ MODULE AuthzCache ------------------------------
(***************************************************************************)
(* GET /check of services/auth and the decisions it caches in Redis.       *)
(*                                                                         *)
(* A decision is made from the subject's roles and from the rules, and is  *)
(* cached for 60 s under a key that holds a generation, the user and the   *)
(* query.  A security mutation commits in Postgres and then increments the *)
(* generation.  check authenticates first (Basic reads the user and then   *)
(* its roles, a Bearer token brings the roles it was issued with),         *)
(* reads the generation, looks for a decision under it and only then reads *)
(* the rules.                                                              *)
(*                                                                         *)
(* One user and one query are modelled: the keys of others are disjoint.   *)
(* Roles and rules are versions, and a decision is the pair it was made    *)
(* from.                                                                   *)
(***************************************************************************)
EXTENDS Integers, FiniteSets

CONSTANTS
    Checks,         \* check requests in progress
    Mutators,       \* mutation requests in progress
    Schemes,        \* how checks authenticate: a subset of {"Basic", "Bearer"}
    MaxRules,       \* bound: changes of the rules
    MaxRoles,       \* bound: changes of the user's roles
    MaxFaults       \* bound: failing calls, restarts of Redis, killed requests

ASSUME SchemesAssumption == Schemes \subseteq {"Basic", "Bearer"}
ASSUME BoundsAssumption ==
    MaxRules \in Nat /\ MaxRoles \in Nat /\ MaxFaults \in Nat

VARIABLES
    db,         \* [rules, roles]: what is committed in Postgres
    gen,        \* authz:gen; 0 when the key is missing, which reads as ""
    cache,      \* the decisions in Redis: a set of Entry, one per key
    check,      \* [Checks -> Check]
    mutation,   \* [Mutators -> Mutation]
    tokens,     \* the roles of the unexpired tokens
    faults,     \* what is left of MaxFaults
    acked       \* history: [rules, roles] of the acknowledged mutations

vars == << db, gen, cache, check, mutation, tokens, faults, acked >>

-----------------------------------------------------------------------------
(* Types.                                                                  *)

Version == [rules : Nat, roles : Nat]
First == [rules |-> 0, roles |-> 0]

\* What a decision was made from; roles -1 when RolesOf failed, whose error is
\* discarded.
Basis == [rules : Nat, roles : Int]

Entry == [gen : Nat, basis : Basis]

Check == [pc : {"idle", "roles", "gen", "get", "rules", "set", "done"},
          gen : Nat, basis : Basis, since : Version]

IdleCheck == [pc |-> "idle", gen |-> 0, basis |-> First, since |-> First]

Mutation == [pc : {"idle", "bump"}, made : Version]

Cached(g) == {e \in cache : e.gen = g}

Larger(m, n) == IF m >= n THEN m ELSE n

Fault == faults > 0 /\ faults' = faults - 1

Init ==
    /\ db = First
    /\ gen = 0
    /\ cache = {}
    /\ check = [c \in Checks |-> IdleCheck]
    /\ mutation = [m \in Mutators |-> [pc |-> "idle", made |-> First]]
    /\ tokens = {}
    /\ faults = MaxFaults
    /\ acked = First

-----------------------------------------------------------------------------
(* check, one action per call of Postgres or Redis.                        *)

othersOfCheck == << db, gen, mutation, tokens, acked >>

\* authenticate, by a request that comes in now: Basic has read the user and
\* verified the password.  Who does not get in is answered at once.
Authenticate(c) ==
    /\ check[c].pc = "idle"
    /\ \/ /\ "Basic" \in Schemes
          /\ check' = [check EXCEPT ![c].pc = "roles", ![c].since = acked]
       \/ /\ "Bearer" \in Schemes
          /\ \E roles \in tokens :
               check' = [check EXCEPT ![c].pc = "gen", ![c].since = acked,
                                      ![c].basis = [rules |-> 0, roles |-> roles]]
    /\ UNCHANGED << othersOfCheck, cache, faults >>

\* RolesOf, a statement of its own, whose error is discarded.
ReadRoles(c) ==
    /\ check[c].pc = "roles"
    /\ \E roles \in {db.roles, -1} :
         /\ check' = [check EXCEPT ![c].pc = "gen",
                                   ![c].basis = [rules |-> 0, roles |-> roles]]
         /\ IF roles = -1 THEN Fault ELSE UNCHANGED faults
    /\ UNCHANGED << othersOfCheck, cache >>

\* An error leaves the generation "".
ReadGen(c) ==
    /\ check[c].pc = "gen"
    /\ \/ /\ check' = [check EXCEPT ![c].pc = "get", ![c].gen = gen]
          /\ UNCHANGED faults
       \/ /\ check' = [check EXCEPT ![c].pc = "get", ![c].gen = 0]
          /\ Fault
    /\ UNCHANGED << othersOfCheck, cache >>

\* A hit is the answer; a miss and an error go on to the rules.
ReadCache(c) ==
    /\ check[c].pc = "get"
    /\ \/ /\ Cached(check[c].gen) = {}
          /\ check' = [check EXCEPT ![c].pc = "rules"]
          /\ UNCHANGED faults
       \/ /\ \E e \in Cached(check[c].gen) :
               check' = [check EXCEPT ![c].pc = "done", ![c].basis = e.basis]
          /\ UNCHANGED faults
       \/ /\ check' = [check EXCEPT ![c].pc = "rules"]
          /\ Fault
    /\ UNCHANGED << othersOfCheck, cache >>

\* ListRules and Evaluate; an error is answered with a 500.
ListRules(c) ==
    /\ check[c].pc = "rules"
    /\ \/ /\ check' = [check EXCEPT
                         ![c].pc = "set",
                         ![c].basis = [rules |-> db.rules, roles |-> @.roles]]
          /\ UNCHANGED faults
       \/ /\ check' = [check EXCEPT ![c] = IdleCheck]
          /\ Fault
    /\ UNCHANGED << othersOfCheck, cache >>

\* Slip: the key is built anew from the generation of the moment.
SetDecisionUnderLatest(c) ==
    /\ check[c].pc = "set"
    /\ check' = [check EXCEPT ![c].pc = "done"]
    /\ cache' = (cache \ Cached(gen)) \cup {[gen |-> gen, basis |-> check[c].basis]}
    /\ UNCHANGED << othersOfCheck, faults >>

\* Slip: the generation is not written with the decision.
SetDecisionUnderNone(c) ==
    /\ check[c].pc = "set"
    /\ check' = [check EXCEPT ![c].pc = "done"]
    /\ cache' = cache \cup {[gen |-> -1, basis |-> check[c].basis]}
    /\ UNCHANGED << othersOfCheck, faults >>

\* The decision is cached under the key it was looked for, and answered
\* whether that succeeded or not.
SetDecision(c) ==
    /\ check[c].pc = "set"
    /\ check' = [check EXCEPT ![c].pc = "done"]
    /\ \/ /\ cache' = (cache \ Cached(check[c].gen))
                        \cup {[gen |-> check[c].gen, basis |-> check[c].basis]}
          /\ UNCHANGED faults
       \/ /\ UNCHANGED cache
          /\ Fault
    /\ UNCHANGED othersOfCheck

Answer(c) ==
    /\ check[c].pc = "done"
    /\ check' = [check EXCEPT ![c] = IdleCheck]
    /\ UNCHANGED << othersOfCheck, cache, faults >>

-----------------------------------------------------------------------------
(* Mutations: createRule, deleteRule; associateRole, deleteRole and the    *)
(* others change roles.                                                    *)

Commit(m) ==
    /\ mutation[m].pc = "idle"
    /\ \/ db.rules < MaxRules /\ db' = [db EXCEPT !.rules = @ + 1]
       \/ db.roles < MaxRoles /\ db' = [db EXCEPT !.roles = @ + 1]
    /\ mutation' = [mutation EXCEPT ![m] = [pc |-> "bump", made |-> db']]
    /\ UNCHANGED << gen, cache, check, tokens, faults, acked >>

\* bumpGen, its error discarded; then the mutation is acknowledged.
BumpGen(m) ==
    /\ mutation[m].pc = "bump"
    /\ \/ /\ gen' = gen + 1
          /\ UNCHANGED faults
       \/ /\ UNCHANGED gen
          /\ Fault
    /\ acked' = [rules |-> Larger(acked.rules, mutation[m].made.rules),
                 roles |-> Larger(acked.roles, mutation[m].made.roles)]
    /\ mutation' = [mutation EXCEPT ![m].pc = "idle"]
    /\ UNCHANGED << db, cache, check, tokens >>

-----------------------------------------------------------------------------
(* Tokens, expiry and faults.                                              *)

\* login issues a token with the roles of that moment; it is valid for 8 h.
Login ==
    /\ "Bearer" \in Schemes
    /\ db.roles \notin tokens
    /\ tokens' = tokens \cup {db.roles}
    /\ UNCHANGED << db, gen, cache, check, mutation, faults, acked >>

TokenExpires(roles) ==
    /\ roles \in tokens
    /\ tokens' = tokens \ {roles}
    /\ UNCHANGED << db, gen, cache, check, mutation, faults, acked >>

\* Slip: an expiration of 0, which keeps a key for ever.
DecisionKept(g) == FALSE /\ UNCHANGED vars

\* 60 s after it was set.
DecisionExpires(g) ==
    /\ Cached(g) # {}
    /\ cache' = cache \ Cached(g)
    /\ UNCHANGED << db, gen, check, mutation, tokens, faults, acked >>

\* Redis has no volume: it comes back empty.
RedisRestarts ==
    /\ Fault
    /\ gen' = 0
    /\ cache' = {}
    /\ UNCHANGED << db, check, mutation, tokens, acked >>

\* The process dies between the commit of a mutation and its bump.
KillMutation(m) ==
    /\ mutation[m].pc = "bump"
    /\ Fault
    /\ mutation' = [mutation EXCEPT ![m].pc = "idle"]
    /\ UNCHANGED << db, gen, cache, check, tokens, acked >>

-----------------------------------------------------------------------------
(* Specification.                                                          *)

CheckStep(c) ==
    \/ ReadRoles(c) \/ ReadGen(c) \/ ReadCache(c) \/ ListRules(c)
    \/ SetDecision(c) \/ Answer(c)

Next ==
    \/ \E c \in Checks : Authenticate(c) \/ CheckStep(c)
    \/ \E m \in Mutators : Commit(m) \/ BumpGen(m) \/ KillMutation(m)
    \/ Login
    \/ \E roles \in tokens : TokenExpires(roles)
    \/ \E g \in {e.gen : e \in cache} : DecisionExpires(g)
    \/ RedisRestarts

Spec == Init /\ [][Next]_vars

\* Handlers run to their end, and Redis and the clock expire what is old.  A
\* generation is at most the number of bumps.
Fairness ==
    /\ \A c \in Checks : WF_vars(CheckStep(c))
    /\ \A m \in Mutators : WF_vars(BumpGen(m))
    /\ \A roles \in 0 .. MaxRoles : WF_vars(TokenExpires(roles))
    /\ \A g \in 0 .. MaxRules + MaxRoles : WF_vars(DecisionExpires(g))

FairSpec == Spec /\ Fairness

-----------------------------------------------------------------------------
(* Properties.                                                             *)

\* Types of the variables; at most one decision under a key.
TypeOK ==
    /\ db \in Version
    /\ gen \in Nat
    /\ cache \subseteq Entry
    /\ \A d, e \in cache : d.gen = e.gen => d = e
    /\ check \in [Checks -> Check]
    /\ mutation \in [Mutators -> Mutation]
    /\ tokens \subseteq Nat
    /\ faults \in 0 .. MaxFaults
    /\ acked \in Version

\* Without faults, a check that comes in after a change of the rules was
\* acknowledged is answered from rules at least that recent, though decisions
\* of earlier checks are still being cached (check.go: the generation is read
\* before the rules, and bumpGen follows the commit).
RulesFresh ==
    faults = MaxFaults =>
        \A c \in Checks :
            check[c].pc = "done" => check[c].basis.rules >= check[c].since.rules

\* Whatever failed, lost bumps and old tokens included, once the changes stop
\* every decision a check could be answered with becomes current.
CurrentDecisions == \A e \in Cached(gen) \cup Cached(0) : e.basis = db
DecisionsConverge == <>[]CurrentDecisions

-----------------------------------------------------------------------------
(* The inductive invariant behind RulesFresh.                              *)

\* The generation is in hand: what is cached under it may be the answer.
Looking(c) == check[c].pc \in {"get", "rules", "set"}

\* Nothing is acknowledged before it is committed, and no check waits for more
\* than was acknowledged.
AckInv ==
    /\ acked.rules <= db.rules
    /\ \A m \in Mutators : mutation[m].made.rules <= db.rules
    /\ \A c \in Checks : check[c].since.rules <= acked.rules

\* No key is ahead of the generation, and what is cached under the current one,
\* or about to be, is as recent as the acknowledged rules: a mutation bumps the
\* generation in the step that acknowledges it.
CurrentInv ==
    /\ \A e \in cache : /\ e.gen <= gen
                        /\ e.gen = gen => acked.rules <= e.basis.rules
    /\ \A c \in Checks :
          /\ Looking(c) => check[c].gen <= gen
          /\ check[c].pc = "set" /\ check[c].gen = gen
               => acked.rules <= check[c].basis.rules

\* Whatever a check may find under the generation it holds, now or when another
\* check has cached its decision there, is recent enough for it.
FoundInv ==
    \A c \in Checks : Looking(c) =>
        /\ \A e \in cache :
              e.gen = check[c].gen => check[c].since.rules <= e.basis.rules
        /\ \A d \in Checks :
              check[d].pc = "set" /\ check[d].gen = check[c].gen
                => check[c].since.rules <= check[d].basis.rules

RulesInv ==
    /\ TypeOK
    /\ AckInv
    /\ faults = MaxFaults => CurrentInv /\ FoundInv
    /\ RulesFresh

=============================================================================
