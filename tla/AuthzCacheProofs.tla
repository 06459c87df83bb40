--------------------------- MODULE AuthzCacheProofs ---------------------------
(***************************************************************************)
(* Theorems about AuthzCache, for every number of checks and mutators and   *)
(* every bound: the types, and that without faults no check is answered     *)
(* from rules older than those acknowledged before it came in.              *)
(***************************************************************************)
EXTENDS AuthzCache, TLAPS

-----------------------------------------------------------------------------
(* Types.                                                                  *)

LEMMA IdleCheckType == IdleCheck \in Check
  BY SMT DEF IdleCheck, Check, Basis, Version, First

\* A fault uses up some of the bound.
LEMMA FaultProps ==
  ASSUME TypeOK, Fault
  PROVE  faults' \in 0 .. MaxFaults /\ faults' # MaxFaults
  BY BoundsAssumption, SMT DEF TypeOK, Fault

\* A check that found or made a decision.
LEMMA DecidedType ==
  ASSUME NEW k \in Check, NEW b \in Basis, NEW p \in {"gen", "set", "done"}
  PROVE  [k EXCEPT !.pc = p, !.basis = b] \in Check
<1> DEFINE j == [k EXCEPT !.pc = p]
<1>1. j \in Check
  BY SMT DEF Check
<1> HIDE DEF j
<1>2. [j EXCEPT !.basis = b] \in Check
  BY <1>1, SMT DEF Check
<1> QED
  BY <1>2 DEF j

\* A check that comes in: with a password, and with a token.
LEMMA AdmittedType ==
  ASSUME NEW k \in Check, NEW v \in Version, NEW b \in Basis
  PROVE  /\ [k EXCEPT !.pc = "roles", !.since = v] \in Check
         /\ [k EXCEPT !.pc = "gen", !.since = v, !.basis = b] \in Check
<1>1. ASSUME NEW p \in {"roles", "gen"} PROVE [k EXCEPT !.pc = p, !.since = v] \in Check
  <2> DEFINE j == [k EXCEPT !.pc = p]
  <2>1. j \in Check
    BY SMT DEF Check
  <2> HIDE DEF j
  <2>2. [j EXCEPT !.since = v] \in Check
    BY <2>1, SMT DEF Check
  <2> QED
    BY <2>2 DEF j
<1> DEFINE i == [k EXCEPT !.pc = "gen", !.since = v]
<1>2. i \in Check
  BY <1>1
<1> HIDE DEF i
<1>3. [i EXCEPT !.basis = b] \in Check
  BY <1>2, SMT DEF Check
<1> QED
  BY <1>1, <1>3 DEF i

LEMMA LargerProps ==
  ASSUME NEW m \in Nat, NEW n \in Nat
  PROVE  Larger(m, n) \in Nat /\ m <= Larger(m, n) /\ n <= Larger(m, n)
         /\ (Larger(m, n) = m \/ Larger(m, n) = n)
  BY SMT DEF Larger

LEMMA AuthenticateTypes ==
  ASSUME TypeOK, NEW c \in Checks, Authenticate(c)
  PROVE  TypeOK'
<1>0. check \in [Checks -> Check] /\ acked \in Version /\ tokens \subseteq Nat
  BY DEF TypeOK
<1>1. UNCHANGED << db, gen, mutation, tokens, acked, cache, faults >>
  BY SMT DEF Authenticate, othersOfCheck
<1>2. CASE check' = [check EXCEPT ![c].pc = "roles", ![c].since = acked]
  <2>1. check' \in [Checks -> Check]
    <3>1. check[c] \in Check /\ check[c].basis \in Basis
      BY <1>0, SMT DEF Check
    <3> QED
      BY <1>0, <1>2, <3>1, AdmittedType, Zenon
  <2> QED
    BY <1>1, <2>1, SMT DEF TypeOK
<1>3. CASE \E roles \in tokens :
             check' = [check EXCEPT ![c].pc = "gen", ![c].since = acked,
                                    ![c].basis = [rules |-> 0, roles |-> roles]]
  <2>1. PICK roles \in tokens :
             check' = [check EXCEPT ![c].pc = "gen", ![c].since = acked,
                                    ![c].basis = [rules |-> 0, roles |-> roles]]
    BY <1>3
  <2>2. [rules |-> 0, roles |-> roles] \in Basis
    BY <1>0, SMT DEF Basis
  <2>4. check' \in [Checks -> Check]
    BY <1>0, <2>1, <2>2, AdmittedType, Zenon
  <2> QED
    BY <1>1, <2>4, SMT DEF TypeOK
<1> QED
  BY <1>2, <1>3, Zenon DEF Authenticate

LEMMA CheckStepTypes ==
  ASSUME TypeOK, NEW c \in Checks, CheckStep(c)
  PROVE  TypeOK'
<1>0. check \in [Checks -> Check] /\ gen \in Nat /\ db \in Version
      /\ cache \subseteq Entry
  BY DEF TypeOK
<1>6. CASE ReadRoles(c)
  <2>0. PICK roles \in {db.roles, -1} :
          /\ check' = [check EXCEPT ![c].pc = "gen",
                                    ![c].basis = [rules |-> 0, roles |-> roles]]
          /\ IF roles = -1 THEN Fault ELSE UNCHANGED faults
    BY <1>6, Zenon DEF ReadRoles
  <2>1. [rules |-> 0, roles |-> roles] \in Basis
    BY <1>0, SMT DEF Basis, Version
  <2>2. check' \in [Checks -> Check]
    BY <1>0, <2>0, <2>1, DecidedType, Zenon
  <2>3. faults' \in 0 .. MaxFaults
    BY <2>0, FaultProps, SMT DEF TypeOK
  <2>4. UNCHANGED << db, gen, mutation, tokens, acked, cache >>
    BY <1>6, SMT DEF ReadRoles, othersOfCheck
  <2> QED
    BY <2>2, <2>3, <2>4, SMT DEF TypeOK
<1>1. CASE ReadGen(c)
  <2>1. check' \in [Checks -> Check]
    BY <1>0, <1>1, SMT DEF ReadGen, Check
  <2>2. faults' \in 0 .. MaxFaults
    BY <1>1, FaultProps, SMT DEF ReadGen, TypeOK
  <2>3. UNCHANGED << db, gen, mutation, tokens, acked, cache >>
    BY <1>1, SMT DEF ReadGen, othersOfCheck
  <2> QED
    BY <2>1, <2>2, <2>3, SMT DEF TypeOK
<1>2. CASE ReadCache(c)
  <2>1. check' \in [Checks -> Check]
    <3>1. CASE check' = [check EXCEPT ![c].pc = "rules"]
      BY <1>0, <3>1, SMT DEF Check
    <3>2. CASE \E e \in Cached(check[c].gen) :
                 check' = [check EXCEPT ![c].pc = "done", ![c].basis = e.basis]
      <4>1. PICK e \in cache :
               check' = [check EXCEPT ![c].pc = "done", ![c].basis = e.basis]
        BY <3>2, Zenon DEF Cached
      <4>2. e.basis \in Basis
        BY <1>0, <4>1, SMT DEF Entry
      <4> QED
        BY <1>0, <4>1, <4>2, DecidedType, Zenon
    <3> QED
      BY <1>2, <3>1, <3>2, Zenon DEF ReadCache
  <2>2. faults' \in 0 .. MaxFaults
    BY <1>2, FaultProps, SMT DEF ReadCache, TypeOK
  <2>3. UNCHANGED << db, gen, mutation, tokens, acked, cache >>
    BY <1>2, SMT DEF ReadCache, othersOfCheck
  <2> QED
    BY <2>1, <2>2, <2>3, SMT DEF TypeOK
<1>3. CASE ListRules(c)
  <2>1. check' \in [Checks -> Check]
    <3>1. CASE check' = [check EXCEPT
                           ![c].pc = "set",
                           ![c].basis = [rules |-> db.rules, roles |-> @.roles]]
      <4>1. [rules |-> db.rules, roles |-> check[c].basis.roles] \in Basis
        BY <1>0, SMT DEF Check, Basis, Version
      <4> QED
        BY <1>0, <3>1, <4>1, DecidedType, Zenon
    <3>2. CASE check' = [check EXCEPT ![c] = IdleCheck]
      BY <1>0, <3>2, IdleCheckType, SMT
    <3> QED
      BY <1>3, <3>1, <3>2, Zenon DEF ListRules
  <2>2. faults' \in 0 .. MaxFaults
    BY <1>3, FaultProps, SMT DEF ListRules, TypeOK
  <2>3. UNCHANGED << db, gen, mutation, tokens, acked, cache >>
    BY <1>3, SMT DEF ListRules, othersOfCheck
  <2> QED
    BY <2>1, <2>2, <2>3, SMT DEF TypeOK
<1>4. CASE SetDecision(c)
  <2>1. check' \in [Checks -> Check]
    BY <1>0, <1>4, SMT DEF SetDecision, Check
  <2>2. faults' \in 0 .. MaxFaults
    BY <1>4, FaultProps, SMT DEF SetDecision, TypeOK
  <2>3. UNCHANGED << db, gen, mutation, tokens, acked >>
    BY <1>4, SMT DEF SetDecision, othersOfCheck
  <2>4. [gen |-> check[c].gen, basis |-> check[c].basis] \in Entry
    BY <1>0, SMT DEF Check, Entry
  <2>5. cache' \subseteq Entry /\ \A d, e \in cache' : d.gen = e.gen => d = e
    BY <1>0, <1>4, <2>4, SMT DEF SetDecision, Cached, TypeOK
  <2> QED
    BY <2>1, <2>2, <2>3, <2>5, SMT DEF TypeOK
<1>5. CASE Answer(c)
  BY <1>0, <1>5, IdleCheckType, SMT DEF Answer, othersOfCheck, TypeOK
<1> QED
  BY <1>1, <1>2, <1>3, <1>4, <1>5, <1>6 DEF CheckStep

LEMMA MutationTypes ==
  ASSUME TypeOK, NEW m \in Mutators, Commit(m) \/ BumpGen(m) \/ KillMutation(m)
  PROVE  TypeOK'
<1>0. mutation \in [Mutators -> Mutation] /\ db \in Version /\ acked \in Version
  BY DEF TypeOK
<1>1. CASE Commit(m)
  <2>1. db' \in Version
    BY <1>0, <1>1, SMT DEF Commit, Version
  <2>2. mutation' \in [Mutators -> Mutation]
    BY <1>0, <1>1, <2>1, SMT DEF Commit, Mutation
  <2>3. UNCHANGED << gen, cache, check, tokens, faults, acked >>
    BY <1>1, SMT DEF Commit
  <2> QED
    BY <2>1, <2>2, <2>3, SMT DEF TypeOK
<1>2. CASE BumpGen(m)
  <2>1. mutation[m].made \in Version
    BY <1>0, SMT DEF Mutation
  <2>2. acked' \in Version
    BY <1>0, <1>2, <2>1, LargerProps, SMT DEF BumpGen, Version
  <2>3. mutation' \in [Mutators -> Mutation]
    BY <1>0, <1>2, SMT DEF BumpGen, Mutation
  <2>4. faults' \in 0 .. MaxFaults /\ gen' \in Nat
    BY <1>2, FaultProps, SMT DEF BumpGen, TypeOK
  <2>5. UNCHANGED << db, cache, check, tokens >>
    BY <1>2, SMT DEF BumpGen
  <2> QED
    BY <2>2, <2>3, <2>4, <2>5, SMT DEF TypeOK
<1>3. CASE KillMutation(m)
  <2>1. mutation' \in [Mutators -> Mutation]
    BY <1>0, <1>3, SMT DEF KillMutation, Mutation
  <2>2. faults' \in 0 .. MaxFaults
    BY <1>3, FaultProps, SMT DEF KillMutation
  <2>3. UNCHANGED << db, gen, cache, check, tokens, acked >>
    BY <1>3, SMT DEF KillMutation
  <2> QED
    BY <2>1, <2>2, <2>3, SMT DEF TypeOK
<1> QED
  BY <1>1, <1>2, <1>3

\* Tokens, expiry and the restart of Redis.
Elsewhere ==
    \/ Login
    \/ \E roles \in tokens : TokenExpires(roles)
    \/ \E g \in {e.gen : e \in cache} : DecisionExpires(g)
    \/ RedisRestarts

LEMMA ElsewhereTypes ==
  ASSUME TypeOK, Elsewhere
  PROVE  TypeOK'
<1>1. CASE Login
  <2>3. db.roles \in Nat /\ tokens \subseteq Nat
    BY SMT DEF TypeOK, Version
  <2>4. tokens' = tokens \cup {db.roles}
    BY <1>1, Zenon DEF Login
  <2>1. tokens' \subseteq Nat
    BY <2>3, <2>4, Zenon
  <2>2. UNCHANGED << db, gen, cache, check, mutation, faults, acked >>
    BY <1>1, SMT DEF Login
  <2> QED
    BY <2>1, <2>2, SMT DEF TypeOK
<1>2. CASE \E roles \in tokens : TokenExpires(roles)
  <2>1. PICK roles \in tokens : TokenExpires(roles)
    BY <1>2
  <2> QED
    BY <2>1, SMT DEF TokenExpires, TypeOK
<1>3. CASE \E g \in {e.gen : e \in cache} : DecisionExpires(g)
  <2>1. PICK g \in {e.gen : e \in cache} : DecisionExpires(g)
    BY <1>3
  <2> QED
    BY <2>1, SMT DEF DecisionExpires, Cached, TypeOK
<1>4. CASE RedisRestarts
  BY <1>4, FaultProps, SMT DEF RedisRestarts, TypeOK
<1> QED
  BY <1>1, <1>2, <1>3, <1>4 DEF Elsewhere

LEMMA InitTypes == Init => TypeOK
  BY BoundsAssumption, IdleCheckType, SMT
     DEF Init, TypeOK, First, Version, Entry, Mutation

LEMMA NextTypes == TypeOK /\ [Next]_vars => TypeOK'
<1> SUFFICES ASSUME TypeOK, [Next]_vars PROVE TypeOK'
  OBVIOUS
<1>1. ASSUME NEW c \in Checks, Authenticate(c) PROVE TypeOK'
  BY <1>1, AuthenticateTypes
<1>2. ASSUME NEW c \in Checks, CheckStep(c) PROVE TypeOK'
  BY <1>2, CheckStepTypes
<1>3. ASSUME NEW m \in Mutators, Commit(m) \/ BumpGen(m) \/ KillMutation(m)
      PROVE  TypeOK'
  BY <1>3, MutationTypes
<1>4. CASE Elsewhere
  BY <1>4, ElsewhereTypes
<1>5. CASE UNCHANGED vars
  BY <1>5, SMT DEF vars, TypeOK
<1> QED
  BY <1>1, <1>2, <1>3, <1>4, <1>5 DEF Next, Elsewhere

\* The variables keep their types and a key has at most one decision.
THEOREM TypeCorrect == Spec => []TypeOK
  BY InitTypes, NextTypes, PTL DEF Spec

-----------------------------------------------------------------------------
(* Rules.  A step without a fault preserves the strengthening of RulesFresh;*)
(* after a fault it claims nothing more.                                   *)

RulesCore ==
  /\ CurrentInv
  /\ FoundInv
  /\ \A c \in Checks :
       check[c].pc = "done" => check[c].since.rules <= check[c].basis.rules

\* Nothing has failed yet, and nothing fails in this step.
Faultless == faults = MaxFaults /\ faults' = MaxFaults

LEMMA FaultlessProps ==
  ASSUME TypeOK, Faultless
  PROVE  ~Fault
  BY FaultProps, Zenon DEF Faultless

\* The numbers the invariants compare.
LEMMA Numbers ==
  ASSUME TypeOK
  PROVE  /\ db.rules \in Nat /\ acked.rules \in Nat /\ gen \in Nat
         /\ \A m \in Mutators : mutation[m].made.rules \in Nat
         /\ \A c \in Checks : /\ check[c].gen \in Nat
                              /\ check[c].basis.rules \in Nat
                              /\ check[c].since.rules \in Nat
         /\ \A e \in cache : e.gen \in Nat /\ e.basis.rules \in Nat
<1>1. db.rules \in Nat /\ acked.rules \in Nat /\ gen \in Nat
  BY SMT DEF TypeOK, Version
<1>2. ASSUME NEW m \in Mutators PROVE mutation[m].made.rules \in Nat
  <2>1. mutation[m].made \in Version
    BY SMT DEF TypeOK, Mutation
  <2> QED
    BY <2>1, SMT DEF Version
<1>3. ASSUME NEW c \in Checks
      PROVE  /\ check[c].gen \in Nat
             /\ check[c].basis.rules \in Nat
             /\ check[c].since.rules \in Nat
  <2>1. check[c].gen \in Nat /\ check[c].basis \in Basis
        /\ check[c].since \in Version
    BY SMT DEF TypeOK, Check
  <2> QED
    BY <2>1, SMT DEF Basis, Version
<1>4. ASSUME NEW e \in cache PROVE e.gen \in Nat /\ e.basis.rules \in Nat
  <2>1. e.gen \in Nat /\ e.basis \in Basis
    BY SMT DEF TypeOK, Entry
  <2> QED
    BY <2>1, SMT DEF Basis
<1> QED
  BY <1>1, <1>2, <1>3, <1>4

\* A step that leaves the generation, what was acknowledged and the checks
\* alone, and at most removes decisions, preserves the core.
LEMMA QuietCore ==
  ASSUME RulesCore, UNCHANGED << gen, check, acked >>, cache' \subseteq cache
  PROVE  RulesCore'
  BY SMT DEF RulesCore, CurrentInv, FoundInv, Looking

LEMMA AuthenticateCore ==
  ASSUME TypeOK, RulesCore, NEW c \in Checks, Authenticate(c)
  PROVE  RulesCore'
<1>1. check'[c].pc \in {"roles", "gen"} /\ \A d \in Checks \ {c} : check'[d] = check[d]
  BY SMT DEF Authenticate, TypeOK, Check
<1>2. UNCHANGED << gen, acked, cache >>
  BY SMT DEF Authenticate, othersOfCheck
<1> QED
  BY <1>1, <1>2, SMT DEF RulesCore, CurrentInv, FoundInv, Looking

LEMMA ReadRolesCore ==
  ASSUME TypeOK, RulesCore, NEW c \in Checks, ReadRoles(c)
  PROVE  RulesCore'
<1>1. check'[c].pc = "gen" /\ \A d \in Checks \ {c} : check'[d] = check[d]
  BY SMT DEF ReadRoles, TypeOK, Check
<1>2. UNCHANGED << gen, acked, cache >>
  BY SMT DEF ReadRoles, othersOfCheck
<1> QED
  BY <1>1, <1>2, SMT DEF RulesCore, CurrentInv, FoundInv, Looking

LEMMA ReadGenCore ==
  ASSUME TypeOK, AckInv, RulesCore, Faultless, NEW c \in Checks, ReadGen(c)
  PROVE  RulesCore'
<1>1. check' = [check EXCEPT ![c].pc = "get", ![c].gen = gen]
  BY FaultlessProps, Zenon DEF ReadGen
<1>2. /\ check'[c].pc = "get" /\ check'[c].gen = gen
      /\ check'[c].since = check[c].since
      /\ \A d \in Checks \ {c} : check'[d] = check[d]
  BY <1>1, SMT DEF TypeOK, Check
<1>3. UNCHANGED << gen, acked, cache >>
  BY SMT DEF ReadGen, othersOfCheck
<1>4. check[c].since.rules <= acked.rules
  BY DEF AckInv
<1>5. CurrentInv'
  BY <1>2, <1>3, Numbers, SMT DEF RulesCore, CurrentInv, Looking
<1>6. FoundInv'
  BY <1>2, <1>3, <1>4, Numbers, SMT DEF RulesCore, CurrentInv, FoundInv, Looking
<1> QED
  BY <1>2, <1>5, <1>6, SMT DEF RulesCore

LEMMA ReadCacheCore ==
  ASSUME TypeOK, RulesCore, NEW c \in Checks, ReadCache(c)
  PROVE  RulesCore'
<1>1. UNCHANGED << gen, acked, cache >>
  BY SMT DEF ReadCache, othersOfCheck
<1>2. CASE check' = [check EXCEPT ![c].pc = "rules"]
  <2>1. /\ check'[c].pc = "rules" /\ check'[c].gen = check[c].gen
        /\ check'[c].since = check[c].since
        /\ \A d \in Checks \ {c} : check'[d] = check[d]
    BY <1>2, SMT DEF TypeOK, Check
  <2>2. check[c].pc = "get"
    BY DEF ReadCache
  <2> QED
    BY <1>1, <2>1, <2>2, SMT DEF RulesCore, CurrentInv, FoundInv, Looking
<1>3. CASE \E e \in Cached(check[c].gen) :
             check' = [check EXCEPT ![c].pc = "done", ![c].basis = e.basis]
  <2>1. PICK e \in cache :
          /\ e.gen = check[c].gen
          /\ check' = [check EXCEPT ![c].pc = "done", ![c].basis = e.basis]
    BY <1>3, Zenon DEF Cached
  <2>2. /\ check'[c].pc = "done" /\ check'[c].basis = e.basis
        /\ check'[c].since = check[c].since
        /\ \A d \in Checks \ {c} : check'[d] = check[d]
    BY <2>1, SMT DEF TypeOK, Check
  <2>3. check[c].pc = "get"
    BY DEF ReadCache
  <2>4. check[c].since.rules <= e.basis.rules
    BY <2>1, <2>3, SMT DEF RulesCore, FoundInv, Looking
  <2> QED
    BY <1>1, <2>2, <2>4, SMT DEF RulesCore, CurrentInv, FoundInv, Looking
<1> QED
  BY <1>2, <1>3, Zenon DEF ReadCache

LEMMA ListRulesCore ==
  ASSUME TypeOK, AckInv, RulesCore, Faultless, NEW c \in Checks, ListRules(c)
  PROVE  RulesCore'
<1>1. check' = [check EXCEPT
                  ![c].pc = "set",
                  ![c].basis = [rules |-> db.rules, roles |-> @.roles]]
  BY FaultlessProps, Zenon DEF ListRules
<1>2. /\ check'[c].pc = "set" /\ check'[c].gen = check[c].gen
      /\ check'[c].since = check[c].since
      /\ check'[c].basis.rules = db.rules
      /\ \A d \in Checks \ {c} : check'[d] = check[d]
  BY <1>1, SMT DEF TypeOK, Check
<1>3. UNCHANGED << gen, acked, cache >>
  BY SMT DEF ListRules, othersOfCheck
<1>4. check[c].pc = "rules"
  BY DEF ListRules
<1>5. /\ acked.rules <= db.rules
      /\ \A d \in Checks : check[d].since.rules <= db.rules
  BY Numbers, SMT DEF AckInv
<1>6. CurrentInv'
  BY <1>2, <1>3, <1>4, <1>5, SMT DEF RulesCore, CurrentInv, Looking
<1>7. FoundInv'
  BY <1>2, <1>3, <1>4, <1>5, SMT DEF RulesCore, FoundInv, Looking
<1> QED
  BY <1>2, <1>6, <1>7, SMT DEF RulesCore

LEMMA SetDecisionCore ==
  ASSUME TypeOK, RulesCore, Faultless, NEW c \in Checks, SetDecision(c)
  PROVE  RulesCore'
<1> DEFINE new == [gen |-> check[c].gen, basis |-> check[c].basis]
<1>1. /\ check[c].pc = "set" /\ check'[c].pc = "done"
      /\ check'[c].basis = check[c].basis /\ check'[c].since = check[c].since
      /\ \A d \in Checks \ {c} : check'[d] = check[d]
  BY SMT DEF SetDecision, TypeOK, Check
<1>2. UNCHANGED << gen, acked >>
  BY SMT DEF SetDecision, othersOfCheck
<1>3. cache' = (cache \ Cached(check[c].gen)) \cup {new}
  BY FaultlessProps, Zenon DEF SetDecision
<1>4. new.gen = check[c].gen /\ new.basis = check[c].basis
  OBVIOUS
<1> HIDE DEF new
<1>5. \A e \in cache' : e \in cache \/ e = new
  BY <1>3, Zenon
<1>6. CurrentInv'
  BY <1>1, <1>2, <1>4, <1>5, SMT DEF RulesCore, CurrentInv, Looking
<1>7. FoundInv'
  BY <1>1, <1>4, <1>5, SMT DEF RulesCore, FoundInv, Looking
<1>8. check[c].since.rules <= check[c].basis.rules
  BY <1>1, SMT DEF RulesCore, FoundInv, Looking
<1> QED
  BY <1>1, <1>6, <1>7, <1>8, SMT DEF RulesCore

LEMMA AnswerCore ==
  ASSUME TypeOK, RulesCore, NEW c \in Checks, Answer(c)
  PROVE  RulesCore'
<1>1. check'[c].pc = "idle" /\ \A d \in Checks \ {c} : check'[d] = check[d]
  BY SMT DEF Answer, TypeOK, IdleCheck
<1>2. UNCHANGED << gen, acked, cache >>
  BY SMT DEF Answer, othersOfCheck
<1> QED
  BY <1>1, <1>2, SMT DEF RulesCore, CurrentInv, FoundInv, Looking

\* The bump and the acknowledgement are one step: the new generation has no
\* decision yet, and no check holds it.
LEMMA BumpGenCore ==
  ASSUME TypeOK, RulesCore, Faultless, NEW m \in Mutators, BumpGen(m)
  PROVE  RulesCore'
<1>1. gen' = gen + 1
  BY FaultlessProps, Zenon DEF BumpGen
<1>2. UNCHANGED << cache, check >>
  BY SMT DEF BumpGen
<1>3. ASSUME NEW e \in cache PROVE e.gen <= gen' /\ e.gen # gen'
  <2>1. e.gen \in Nat /\ gen \in Nat
    BY Numbers
  <2>2. e.gen <= gen
    BY SMT DEF RulesCore, CurrentInv
  <2> QED
    BY <1>1, <2>1, <2>2, SMT
<1>4. ASSUME NEW c \in Checks, Looking(c)
      PROVE  check[c].gen <= gen' /\ check[c].gen # gen'
  <2>1. check[c].gen \in Nat /\ gen \in Nat /\ check[c].gen <= gen
    BY <1>4, Numbers, Zenon DEF RulesCore, CurrentInv
  <2> QED
    BY <1>1, <2>1, SMT
<1>5. CurrentInv'
  BY <1>2, <1>3, <1>4, SMT DEF CurrentInv, Looking
<1>6. FoundInv'
  BY <1>2, SMT DEF RulesCore, FoundInv, Looking
<1> QED
  BY <1>2, <1>5, <1>6, SMT DEF RulesCore

LEMMA ElsewhereCore ==
  ASSUME TypeOK, RulesCore, Faultless, Elsewhere
  PROVE  RulesCore'
<1>1. CASE Login
  BY <1>1, QuietCore, SMT DEF Login
<1>2. CASE \E roles \in tokens : TokenExpires(roles)
  <2>1. UNCHANGED << gen, check, acked, cache >>
    BY <1>2, SMT DEF TokenExpires
  <2> QED
    BY <2>1, QuietCore, SMT
<1>3. CASE \E g \in {e.gen : e \in cache} : DecisionExpires(g)
  <2>1. PICK g : DecisionExpires(g)
    BY <1>3
  <2>2. UNCHANGED << gen, check, acked >> /\ cache' \subseteq cache
    BY <2>1, SMT DEF DecisionExpires
  <2> QED
    BY <2>2, QuietCore
<1>4. CASE RedisRestarts
  BY <1>4, FaultlessProps DEF RedisRestarts
<1> QED
  BY <1>1, <1>2, <1>3, <1>4 DEF Elsewhere

LEMMA NextCore ==
  ASSUME TypeOK, AckInv, RulesCore, Faultless, [Next]_vars
  PROVE  RulesCore'
<1>1. ASSUME NEW c \in Checks, Authenticate(c) \/ CheckStep(c) PROVE RulesCore'
  BY <1>1, AuthenticateCore, ReadRolesCore, ReadGenCore, ReadCacheCore, ListRulesCore,
     SetDecisionCore, AnswerCore DEF CheckStep
<1>2. ASSUME NEW m \in Mutators, Commit(m) \/ BumpGen(m) \/ KillMutation(m)
      PROVE  RulesCore'
  <2>1. CASE Commit(m)
    <3>1. UNCHANGED << gen, check, acked, cache >>
      BY <2>1, SMT DEF Commit
    <3> QED
      BY <3>1, QuietCore, SMT
  <2>2. CASE BumpGen(m)
    BY <2>2, BumpGenCore
  <2>3. CASE KillMutation(m)
    BY <2>3, FaultlessProps DEF KillMutation
  <2> QED
    BY <1>2, <2>1, <2>2, <2>3
<1>3. CASE Elsewhere
  BY <1>3, ElsewhereCore
<1>4. CASE UNCHANGED vars
  <2>1. UNCHANGED << gen, check, acked, cache >>
    BY <1>4, SMT DEF vars
  <2> QED
    BY <2>1, QuietCore, SMT
<1> QED
  BY <1>1, <1>2, <1>3, <1>4 DEF Next, Elsewhere

\* What failed stays failed.
LEMMA FaultsOnlyFall ==
  ASSUME TypeOK, [Next]_vars, faults' = MaxFaults
  PROVE  Faultless
<1> SUFFICES faults' = faults \/ Fault
  BY FaultProps DEF Faultless
<1>1. ASSUME NEW c \in Checks, Authenticate(c) PROVE faults' = faults \/ Fault
  BY <1>1, Zenon DEF Authenticate
<1>2. ASSUME NEW c \in Checks, CheckStep(c) PROVE faults' = faults \/ Fault
  BY <1>2, SMT DEF CheckStep, ReadRoles, ReadGen, ReadCache, ListRules,
     SetDecision, Answer
<1>3. ASSUME NEW m \in Mutators, Commit(m) \/ BumpGen(m) \/ KillMutation(m)
      PROVE  faults' = faults \/ Fault
  BY <1>3, SMT DEF Commit, BumpGen, KillMutation
<1>4. CASE Elsewhere
  BY <1>4, SMT DEF Elsewhere, Login, TokenExpires, DecisionExpires, RedisRestarts
<1>5. CASE UNCHANGED vars
  BY <1>5, SMT DEF vars
<1> QED
  BY <1>1, <1>2, <1>3, <1>4, <1>5 DEF Next, Elsewhere

LEMMA NextAck ==
  ASSUME TypeOK, AckInv, [Next]_vars
  PROVE  AckInv'
<1>1. ASSUME NEW c \in Checks, Authenticate(c) PROVE AckInv'
  <2>2. check'[c].since = acked /\ \A d \in Checks \ {c} : check'[d] = check[d]
    BY <1>1, SMT DEF Authenticate, TypeOK, Check
  <2>3. UNCHANGED << db, mutation, acked >>
    BY <1>1, SMT DEF Authenticate, othersOfCheck
  <2> QED
    BY <2>2, <2>3, Numbers, SMT DEF AckInv
<1>2. ASSUME NEW c \in Checks, CheckStep(c) PROVE AckInv'
  <2>1. UNCHANGED << db, mutation, acked >>
    BY <1>2, SMT DEF CheckStep, ReadRoles, ReadGen, ReadCache, ListRules,
       SetDecision, Answer, othersOfCheck
  <2>2. \A d \in Checks \ {c} : check'[d] = check[d]
    BY <1>2, SMT DEF CheckStep, ReadRoles, ReadGen, ReadCache, ListRules,
       SetDecision, Answer, TypeOK
  <2>3. check'[c].since = check[c].since \/ check'[c] = IdleCheck
    <3>6. CASE ReadRoles(c)
      BY <3>6, SMT DEF ReadRoles, TypeOK, Check
    <3>1. CASE ReadGen(c)
      BY <3>1, SMT DEF ReadGen, TypeOK, Check
    <3>2. CASE ReadCache(c)
      BY <3>2, SMT DEF ReadCache, TypeOK, Check
    <3>3. CASE ListRules(c)
      BY <3>3, SMT DEF ListRules, TypeOK, Check
    <3>4. CASE SetDecision(c)
      BY <3>4, SMT DEF SetDecision, TypeOK, Check
    <3>5. CASE Answer(c)
      BY <3>5, SMT DEF Answer, TypeOK
    <3> QED
      BY <1>2, <3>1, <3>2, <3>3, <3>4, <3>5, <3>6 DEF CheckStep
  <2>4. check'[c].since.rules <= acked.rules
    <3>1. CASE check'[c].since = check[c].since
      BY <3>1 DEF AckInv
    <3>2. CASE check'[c] = IdleCheck
      BY <3>2, Numbers, SMT DEF IdleCheck, First
    <3> QED
      BY <2>3, <3>1, <3>2
  <2> QED
    BY <2>1, <2>2, <2>4, SMT DEF AckInv
<1>3. ASSUME NEW m \in Mutators, Commit(m) PROVE AckInv'
  <2>1. UNCHANGED << check, acked >>
    BY <1>3, SMT DEF Commit
  <2>2. db' \in Version /\ db.rules <= db'.rules
    BY <1>3, Numbers, SMT DEF Commit, TypeOK, Version
  <2>3. mutation'[m].made = db' /\ \A n \in Mutators \ {m} : mutation'[n] = mutation[n]
    BY <1>3, SMT DEF Commit, TypeOK
  <2> QED
    BY <2>1, <2>2, <2>3, Numbers, SMT DEF AckInv, Version
<1>4. ASSUME NEW m \in Mutators, BumpGen(m) PROVE AckInv'
  <2>1. UNCHANGED << check, db >>
    BY <1>4, SMT DEF BumpGen
  <2>2. acked'.rules = Larger(acked.rules, mutation[m].made.rules)
    BY <1>4, SMT DEF BumpGen
  <2>3. acked.rules <= acked'.rules /\ acked'.rules <= db.rules /\ acked'.rules \in Nat
    <3>1. acked.rules \in Nat /\ mutation[m].made.rules \in Nat
      BY Numbers
    <3>2. acked.rules <= db.rules /\ mutation[m].made.rules <= db.rules
      BY DEF AckInv
    <3> QED
      BY <2>2, <3>1, <3>2, SMT DEF Larger
  <2>4. \A n \in Mutators : mutation'[n].made = mutation[n].made
    BY <1>4, SMT DEF BumpGen, TypeOK, Mutation
  <2> QED
    BY <2>1, <2>3, <2>4, Numbers, SMT DEF AckInv
<1>5. ASSUME NEW m \in Mutators, KillMutation(m) PROVE AckInv'
  <2>1. UNCHANGED << check, db, acked >>
    BY <1>5, SMT DEF KillMutation
  <2>2. \A n \in Mutators : mutation'[n].made = mutation[n].made
    BY <1>5, SMT DEF KillMutation, TypeOK, Mutation
  <2> QED
    BY <2>1, <2>2, SMT DEF AckInv
<1>6. CASE Elsewhere \/ UNCHANGED vars
  <2>1. UNCHANGED << check, db, acked, mutation >>
    BY <1>6, SMT DEF Elsewhere, Login, TokenExpires, DecisionExpires,
       RedisRestarts, vars
  <2> QED
    BY <2>1, SMT DEF AckInv
<1> QED
  BY <1>1, <1>2, <1>3, <1>4, <1>5, <1>6 DEF Next, Elsewhere

LEMMA RulesInvCore ==
  ASSUME TypeOK
  PROVE  /\ RulesInv => AckInv /\ (faults = MaxFaults => RulesCore)
         /\ AckInv /\ (faults = MaxFaults => RulesCore) => RulesInv
  BY Numbers, SMT DEF RulesInv, RulesCore, RulesFresh

LEMMA InitRules == Init => RulesInv
<1> SUFFICES ASSUME Init PROVE RulesInv
  OBVIOUS
<1>1. TypeOK
  BY InitTypes
<1>2. AckInv
  BY SMT DEF Init, AckInv, First, IdleCheck
<1>3. RulesCore
  BY SMT DEF Init, RulesCore, CurrentInv, FoundInv, Looking, IdleCheck
<1> QED
  BY <1>1, <1>2, <1>3, RulesInvCore

LEMMA NextRules == RulesInv /\ [Next]_vars => RulesInv'
<1> SUFFICES ASSUME RulesInv, [Next]_vars PROVE RulesInv'
  OBVIOUS
<1>1. TypeOK /\ AckInv
  BY DEF RulesInv
<1>2. TypeOK'
  BY <1>1, NextTypes
<1>3. AckInv'
  BY <1>1, NextAck
<1>4. ASSUME faults' = MaxFaults PROVE RulesCore'
  BY <1>1, <1>4, FaultsOnlyFall, NextCore, RulesInvCore DEF Faultless
<1>5. TypeOK' => (AckInv' /\ (faults' = MaxFaults' => RulesCore') => RulesInv')
  BY Numbers, SMT DEF RulesInv, RulesCore, RulesFresh
<1> QED
  BY <1>2, <1>3, <1>4, <1>5

\* Without faults no check is answered from rules older than those that were
\* acknowledged when it came in, however many checks and mutations overlap.
THEOREM AnswersFollowRules == Spec => []RulesFresh
<1>1. RulesInv => RulesFresh
  BY DEF RulesInv
<1> QED
  BY <1>1, InitRules, NextRules, PTL DEF Spec

=============================================================================
