--------------------------- MODULE GatewayProofs ---------------------------
(***************************************************************************)
(* Proofs about Gateway for any number of requests and clients, any rate   *)
(* and any rules: the state keeps its form, the limiter admits exactly     *)
(* what the rate allows, a backend serves what the first deciding rule     *)
(* allowed, with the constraints that bind it, and is told the version the *)
(* client means.                                                           *)
(*                                                                         *)
(* The loop over the rules is a recursive function; what it computes is    *)
(* shown with a least counterexample (Least, Induction).                   *)
(***************************************************************************)
EXTENDS Gateway, FiniteSetTheorems, WellFoundedInduction, TLAPS

(* What is under way is a request, and whom auth is asked about was        *)
(* admitted.                                                               *)
Formed ==
    /\ DOMAIN req = Requests
    /\ \A r \in Requests :
         /\ DOMAIN req[r] = DOMAIN Idle
         /\ req[r].pc = "authz" => count[req[r].client] > 0

(* Since tick t a client had this many requests admitted, and tokens left. *)
Used(c, t) == bucket[c] + count[c] - mark[c][t + 1]
Allowance(t) == Burst + Limit * (clock - t)

(* No stretch of time has more than the rate allows, and one has just that:*)
(* the one since the bucket was last full.                                 *)
Metered ==
    \A c \in Clients :
        /\ \A t \in 0..clock : Used(c, t) <= Allowance(t)
        /\ \E t \in 0..clock : Used(c, t) = Allowance(t)

Inv == TypeOK /\ Formed /\ Metered

USE ClientsAssumption, RateAssumption, BoundsAssumption
-----------------------------------------------------------------------------
LEMMA IdleForm ==
    /\ Idle.pc = "idle" /\ Idle.client \in Clients
    /\ {"pc", "client", "msg", "seen", "grant", "served", "outcome"} = DOMAIN Idle
BY DEF Idle

(* A bucket gets what the rate brings, until it is full. *)
LEMMA RefilledFits ==
    ASSUME NEW n \in 0..Burst
    PROVE /\ Refilled(n) \in 0..Burst /\ Refilled(n) <= n + Limit
          /\ Refilled(n) = Burst \/ Refilled(n) = n + Limit
BY DEF Refilled

(* What each tick left in a mark is a number. *)
LEMMA Meter ==
    ASSUME TypeOK, NEW c \in Clients, NEW t \in 0..clock
    PROVE  /\ clock \in Nat /\ bucket[c] \in 0..Burst /\ count[c] \in Nat
           /\ mark[c][t + 1] \in Nat
<1>1. /\ clock \in Nat /\ bucket[c] \in 0..Burst /\ count[c] \in Nat
      /\ mark[c] \in Seq(Nat) /\ Len(mark[c]) = clock + 1
  BY DEF TypeOK
<1>2. t + 1 \in 1..Len(mark[c])
  BY <1>1
<1> QED BY <1>1, <1>2

LEMMA Marked ==
    ASSUME NEW s \in Seq(Nat), NEW n \in Nat, NEW k \in Nat, Len(s) = k + 1
    PROVE  /\ Append(s, n) \in Seq(Nat) /\ Len(Append(s, n)) = k + 2
           /\ Append(s, n)[k + 2] = n
           /\ \A t \in 0..k : Append(s, n)[t + 1] = s[t + 1]
<1>1. Append(s, n) \in Seq(Nat) /\ Len(Append(s, n)) = k + 2 /\ Append(s, n)[k + 2] = n
  OBVIOUS
<1>2. ASSUME NEW t \in 0..k PROVE Append(s, n)[t + 1] = s[t + 1]
  <2>1. t + 1 \in 1..Len(s)
    OBVIOUS
  <2> QED BY <2>1
<1> QED BY <1>1, <1>2

LEMMA InitInv == Init => Inv
<1> SUFFICES ASSUME Init PROVE Inv
  OBVIOUS
<1>1. TypeOK
  BY IdleForm DEF Init, TypeOK
<1>2. Formed
  BY IdleForm DEF Init, Formed
<1>3. Metered
  <2> SUFFICES ASSUME NEW c \in Clients
               PROVE /\ \A t \in 0..0 : Used(c, t) <= Allowance(t)
                     /\ Used(c, 0) = Allowance(0)
    BY DEF Metered, Init
  <2>1. Used(c, 0) = Burst /\ Allowance(0) = Burst
    BY DEF Init, Used, Allowance
  <2> QED BY <2>1
<1> QED BY <1>1, <1>2, <1>3 DEF Inv
-----------------------------------------------------------------------------
(* A request that moves to another place keeps its form.                   *)
Moves(r, new) ==
    /\ Become(r, new)
    /\ DOMAIN new = DOMAIN Idle
    /\ new.pc \in {"idle", "allow", "authz", "dispatch", "proxied", "done"}
    /\ new.client \in Clients

LEMMA AnswerMoves ==
    ASSUME NEW r \in Requests, NEW o, Answered(r, o)
    PROVE  \E new : Moves(r, new) /\ new.pc = "done"
<1> DEFINE new == [Idle EXCEPT !.pc = "done", !.outcome = o]
<1>1. DOMAIN new = DOMAIN Idle /\ new.pc = "done" /\ new.client = Idle.client
  BY IdleForm
<1>2. Moves(r, new)
  BY <1>1, IdleForm DEF Moves, Answered
<1> QED BY <1>1, <1>2

(* Past the limiter a step moves one request and takes no token; whom it   *)
(* lets on to the backend was admitted.                                    *)
LEMMA StepMoves ==
    ASSUME Inv, NEW r \in Requests,
           Arrive(r) \/ Check(r) \/ CheckFails(r) \/ GiveUp(r) \/ Dispatch(r) \/ Backend(r)
    PROVE  /\ rate' = rate
           /\ changes' = changes
           /\ req[r].pc # "allow"
           /\ \E new : /\ Moves(r, new)
                       /\ new.pc \in {"dispatch", "proxied"} =>
                            new.client = req[r].client /\ count[req[r].client] > 0
                       /\ new.pc # "authz"
<1> USE IdleForm
<1>1. DOMAIN req[r] = DOMAIN Idle /\ req[r].client \in Clients
  BY DEF Inv, Formed, TypeOK
<1>2. CASE Arrive(r)
  <2>1. PICK c \in Clients : Become(r, [Idle EXCEPT !.pc = "allow", !.client = c])
    BY <1>2 DEF Arrive
  <2> DEFINE new == [Idle EXCEPT !.pc = "allow", !.client = c]
  <2>2. DOMAIN new = DOMAIN Idle /\ new.pc = "allow" /\ new.client = c
    OBVIOUS
  <2>3. Moves(r, new)
    BY <2>1, <2>2 DEF Moves
  <2> QED BY <1>2, <2>2, <2>3 DEF Arrive
<1>3. CASE CheckFails(r) \/ GiveUp(r) \/ Backend(r)
  <2>1. \E o : Answered(r, o)
    BY <1>3 DEF CheckFails, GiveUp, Backend
  <2>2. \E new : Moves(r, new) /\ new.pc = "done"
    BY <2>1, AnswerMoves
  <2>3. req[r].pc # "allow" /\ rate' = rate /\ changes' = changes
    BY <1>3 DEF CheckFails, GiveUp, Backend
  <2> QED BY <2>2, <2>3
<1>4. CASE Check(r)
  <2>1. req[r].pc = "authz" /\ rate' = rate /\ changes' = changes
    BY <1>4 DEF Check
  <2>2. count[req[r].client] > 0
    BY <2>1 DEF Inv, Formed
  <2>3. (\E o : Answered(r, o)) \/ (\E m, s, g :
            Become(r, [req[r] EXCEPT !.pc = "dispatch", !.msg = m, !.seen = s, !.grant = g]))
    BY <1>4 DEF Check
  <2>4. CASE \E o : Answered(r, o)
    <3>1. \E new : Moves(r, new) /\ new.pc = "done"
      BY <2>4, AnswerMoves
    <3> QED BY <3>1, <2>1
  <2>5. CASE \E m, s, g :
            Become(r, [req[r] EXCEPT !.pc = "dispatch", !.msg = m, !.seen = s, !.grant = g])
    <3>1. PICK m, s, g :
            Become(r, [req[r] EXCEPT !.pc = "dispatch", !.msg = m, !.seen = s, !.grant = g])
      BY <2>5
    <3> DEFINE new == [req[r] EXCEPT !.pc = "dispatch", !.msg = m, !.seen = s, !.grant = g]
    <3>2. DOMAIN new = DOMAIN Idle /\ new.pc = "dispatch" /\ new.client = req[r].client
      BY <1>1
    <3>3. Moves(r, new)
      BY <1>1, <3>1, <3>2 DEF Moves
    <3> QED BY <2>1, <2>2, <3>2, <3>3
  <2> QED BY <2>3, <2>4, <2>5
<1>5. CASE Dispatch(r)
  <2>1. req[r].pc = "dispatch" /\ rate' = rate /\ changes' = changes
    BY <1>5 DEF Dispatch
  <2>2. count[req[r].client] > 0
    BY <2>1 DEF Inv, TypeOK
  <2>3. (\E o : Answered(r, o))
        \/ (\E s : Become(r, [req[r] EXCEPT !.pc = "proxied", !.served = s]))
    BY <1>5 DEF Dispatch
  <2>4. CASE \E o : Answered(r, o)
    <3>1. \E new : Moves(r, new) /\ new.pc = "done"
      BY <2>4, AnswerMoves
    <3> QED BY <3>1, <2>1
  <2>5. CASE \E s : Become(r, [req[r] EXCEPT !.pc = "proxied", !.served = s])
    <3>1. PICK s : Become(r, [req[r] EXCEPT !.pc = "proxied", !.served = s])
      BY <2>5
    <3> DEFINE new == [req[r] EXCEPT !.pc = "proxied", !.served = s]
    <3>2. DOMAIN new = DOMAIN Idle /\ new.pc = "proxied" /\ new.client = req[r].client
      BY <1>1
    <3>3. Moves(r, new)
      BY <1>1, <3>1, <3>2 DEF Moves
    <3> QED BY <2>1, <2>2, <3>2, <3>3
  <2> QED BY <2>3, <2>4, <2>5
<1> QED BY <1>2, <1>3, <1>4, <1>5
-----------------------------------------------------------------------------
LEMMA AllowMoves ==
    ASSUME Inv, NEW r \in Requests, Allow(r)
    PROVE  LET c == req[r].client IN
           \E new :
              /\ Moves(r, new) /\ req[r].pc = "allow"
              /\ \/ /\ bucket[c] = 0 /\ new.pc = "done" /\ UNCHANGED << bucket, count >>
                 \/ /\ bucket[c] # 0 /\ new.pc = "authz" /\ new.client = c
                    /\ bucket' = [bucket EXCEPT ![c] = @ - 1]
                    /\ count' = [count EXCEPT ![c] = @ + 1]
<1> DEFINE c == req[r].client
<1>1. DOMAIN req[r] = DOMAIN Idle /\ c \in Clients /\ req[r].pc = "allow"
  BY DEF Inv, Formed, TypeOK, Allow
<1>2. CASE bucket[c] = 0
  <2>1. Answered(r, "refused") /\ UNCHANGED << bucket, count >>
    BY <1>2 DEF Allow
  <2>2. \E new : Moves(r, new) /\ new.pc = "done"
    BY <2>1, AnswerMoves
  <2> QED BY <1>1, <1>2, <2>1, <2>2
<1>3. CASE bucket[c] # 0
  <2> DEFINE new == [req[r] EXCEPT !.pc = "authz"]
  <2>1. /\ Become(r, new)
        /\ bucket' = [bucket EXCEPT ![c] = @ - 1]
        /\ count' = [count EXCEPT ![c] = @ + 1]
    BY <1>3 DEF Allow, Take
  <2>2. DOMAIN new = DOMAIN Idle /\ new.pc = "authz" /\ new.client = c
    BY <1>1, IdleForm
  <2>3. Moves(r, new)
    BY <1>1, <2>1, <2>2 DEF Moves
  <2> QED BY <1>1, <1>3, <2>1, <2>2, <2>3
<1> QED BY <1>2, <1>3

(* A move keeps the form of the state when the counts do not shrink.       *)
LEMMA MoveKeepsForm ==
    ASSUME Inv, NEW r \in Requests, NEW new, Moves(r, new),
           UNCHANGED << clock, mark, changes >>,
           bucket' \in [Clients -> 0..Burst], count' \in [Clients -> Nat],
           \A c \in Clients : count[c] <= count'[c],
           new.pc \in {"authz", "dispatch", "proxied"} => count'[new.client] > 0
    PROVE  TypeOK' /\ Formed'
<1>1. req' = [req EXCEPT ![r] = new] /\ DOMAIN req = Requests
  BY DEF Moves, Become, Inv, Formed
<1>2. \A q \in Requests : req'[q] = IF q = r THEN new ELSE req[q]
  BY <1>1
<1>3. \A q \in Requests :
         /\ DOMAIN req'[q] = DOMAIN Idle
         /\ req'[q].pc \in {"idle", "allow", "authz", "dispatch", "proxied", "done"}
         /\ req'[q].client \in Clients
         /\ req'[q].pc \in {"authz", "dispatch", "proxied"} => count'[req'[q].client] > 0
  <2> TAKE q \in Requests
  <2>1. CASE q = r
    BY <1>2, <2>1 DEF Moves
  <2>2. CASE q # r
    <3>1. req'[q] = req[q]
      BY <1>2, <2>2
    <3>2. /\ DOMAIN req[q] = DOMAIN Idle
          /\ req[q].pc \in {"idle", "allow", "authz", "dispatch", "proxied", "done"}
          /\ req[q].client \in Clients
          /\ req[q].pc \in {"authz", "dispatch", "proxied"} => count[req[q].client] > 0
      BY DEF Inv, TypeOK, Formed
    <3>3. count[req[q].client] \in Nat /\ count'[req[q].client] \in Nat
      BY <3>2 DEF Inv, TypeOK
    <3> QED BY <3>1, <3>2, <3>3
  <2> QED BY <2>1, <2>2
<1>4. Formed'
  BY <1>1, <1>3 DEF Formed, Idle
<1>5. TypeOK'
  BY <1>3 DEF Inv, TypeOK
<1> QED BY <1>4, <1>5

(* The meter does not change while tokens become admitted requests.        *)
LEMMA SpendKeepsMeter ==
    ASSUME Inv, UNCHANGED << clock, mark >>,
           bucket' \in [Clients -> 0..Burst], count' \in [Clients -> Nat],
           \A c \in Clients : bucket'[c] + count'[c] = bucket[c] + count[c]
    PROVE  Metered'
<1> SUFFICES ASSUME NEW c \in Clients
             PROVE /\ \A t \in 0..clock : Used(c, t)' <= Allowance(t)'
                   /\ \E t \in 0..clock : Used(c, t)' = Allowance(t)'
  BY DEF Metered
<1>1. \A t \in 0..clock : Used(c, t)' = Used(c, t) /\ Allowance(t)' = Allowance(t)
  <2> TAKE t \in 0..clock
  <2>1. /\ bucket'[c] + count'[c] = bucket[c] + count[c] /\ mark' = mark /\ clock' = clock
        /\ bucket[c] \in Int /\ count[c] \in Int /\ mark[c][t + 1] \in Int
        /\ bucket'[c] \in Int /\ count'[c] \in Int
    BY Meter DEF Inv
  <2>2. Used(c, t)' = Used(c, t)
    BY <2>1 DEF Used
  <2> QED BY <2>1, <2>2 DEF Allowance
<1>2. (\A t \in 0..clock : Used(c, t) <= Allowance(t)) /\ \E t \in 0..clock : Used(c, t) = Allowance(t)
  BY DEF Inv, Metered
<1> QED BY <1>1, <1>2

(* Refilling, between two ticks.                                           *)
LEMMA TickKeepsInv == ASSUME Inv, Tick PROVE Inv'
<1>1. /\ clock \in Nat /\ clock < MaxClock /\ clock' = clock + 1
      /\ bucket \in [Clients -> 0..Burst] /\ count \in [Clients -> Nat]
      /\ mark \in [Clients -> Seq(Nat)] /\ \A c \in Clients : Len(mark[c]) = clock + 1
      /\ bucket' = [c \in Clients |-> Refilled(bucket[c])]
      /\ mark' = [c \in Clients |-> Append(mark[c], count[c])]
      /\ UNCHANGED << count, req, changes >>
  BY DEF Inv, TypeOK, Tick
<1>2. \A c \in Clients : /\ bucket'[c] \in 0..Burst /\ bucket'[c] <= bucket[c] + Limit
                         /\ bucket'[c] = Burst \/ bucket'[c] = bucket[c] + Limit
  BY <1>1, RefilledFits
<1>3. \A c \in Clients : /\ mark'[c] \in Seq(Nat) /\ Len(mark'[c]) = clock + 2
                         /\ mark'[c][clock + 2] = count[c]
                         /\ \A t \in 0..clock : mark'[c][t + 1] = mark[c][t + 1]
                                                /\ mark[c][t + 1] \in Nat
  <2> TAKE c \in Clients
  <2>1. mark'[c] = Append(mark[c], count[c])
    BY <1>1
  <2> QED BY <1>1, <2>1, Marked, Meter DEF Inv
<1>4. TypeOK'
  <2>1. clock' \in 0..MaxClock /\ changes' \in 0..MaxChanges
    BY <1>1 DEF Inv, TypeOK
  <2>2. bucket' \in [Clients -> 0..Burst] /\ count' \in [Clients -> Nat]
    <3>1. bucket' = [c \in Clients |-> Refilled(bucket[c])] /\ count' = count
      BY <1>1
    <3>2. \A c \in Clients : Refilled(bucket[c]) \in 0..Burst
      BY <1>1, RefilledFits
    <3> QED BY <1>1, <3>1, <3>2
  <2>3. mark' \in [Clients -> Seq(Nat)]
    <3>1. mark' = [c \in Clients |-> Append(mark[c], count[c])]
      BY <1>1
    <3>2. \A c \in Clients : Append(mark[c], count[c]) \in Seq(Nat)
      BY <1>1
    <3> QED BY <3>1, <3>2
  <2>4. \A c \in Clients : Len(mark'[c]) = clock' + 1
    <3>1. clock' + 1 = clock + 2
      BY <1>1
    <3> QED BY <1>3, <3>1
  <2>5. \A r \in Requests :
          /\ req'[r].pc \in {"idle", "allow", "authz", "dispatch", "proxied", "done"}
          /\ req'[r].client \in Clients
          /\ req'[r].pc \in {"dispatch", "proxied"} => count'[req'[r].client] > 0
    BY <1>1 DEF Inv, TypeOK
  <2> QED BY <2>1, <2>2, <2>3, <2>4, <2>5 DEF TypeOK
<1>5. Formed'
  BY <1>1 DEF Inv, Formed, Idle
<1>6. Metered'
  <2> SUFFICES ASSUME NEW c \in Clients, NEW now \in Nat, now = clock + 1
               PROVE /\ \A t \in 0..now : Used(c, t)' <= Allowance(t)'
                     /\ \E t \in 0..now : Used(c, t)' = Allowance(t)'
    BY <1>1 DEF Metered
  <2>1. /\ bucket[c] \in Int /\ bucket'[c] \in Int /\ bucket'[c] <= Burst
        /\ bucket'[c] <= bucket[c] + Limit
        /\ bucket'[c] = Burst \/ bucket'[c] = bucket[c] + Limit
    <3>1. bucket[c] \in 0..Burst
      BY <1>1
    <3>2. /\ bucket'[c] \in 0..Burst /\ bucket'[c] <= bucket[c] + Limit
          /\ bucket'[c] = Burst \/ bucket'[c] = bucket[c] + Limit
      BY <1>2
    <3> QED BY <3>1, <3>2
  <2>2. Used(c, now)' = bucket'[c] /\ Allowance(now)' = Burst
    <3>1. mark'[c][now + 1] = count[c] /\ count[c] \in Int /\ count' = count
      <4>1. now + 1 = clock + 2
        BY <1>1
      <4> QED BY <1>1, <1>3, <4>1
    <3>2. Used(c, now)' = bucket'[c]
      BY <2>1, <3>1 DEF Used
    <3>3. clock' - now = 0 /\ Limit * 0 = 0
      BY <1>1
    <3> QED BY <3>2, <3>3 DEF Allowance
  <2>3. \A t \in 0..clock :
          /\ Used(c, t) \in Int /\ Allowance(t) \in Int
          /\ Used(c, t)' = Used(c, t) + (bucket'[c] - bucket[c])
          /\ Allowance(t)' = Allowance(t) + Limit
    <3> TAKE t \in 0..clock
    <3>1. Used(c, t) \in Int /\ Used(c, t)' = Used(c, t) + (bucket'[c] - bucket[c])
      <4>1. count[c] \in Int /\ mark[c][t + 1] \in Int
        <5>1. count[c] \in Nat
          BY <1>1
        <5>2. mark[c][t + 1] \in Nat
          BY <1>3
        <5> QED BY <5>1, <5>2
      <4>2. count'[c] = count[c] /\ mark'[c][t + 1] = mark[c][t + 1]
        BY <1>1, <1>3
      <4> QED BY <2>1, <4>1, <4>2 DEF Used
    <3>2. /\ Limit * (clock - t) \in Int
          /\ Limit * (clock' - t) = Limit * (clock - t) + Limit
      <4>1. clock - t \in Int /\ clock' - t = (clock - t) + 1
        BY <1>1
      <4>2. \A n \in Int : Limit * n \in Int /\ Limit * (n + 1) = Limit * n + Limit
        OBVIOUS
      <4> QED BY <4>1, <4>2
    <3> QED BY <3>1, <3>2 DEF Allowance
  <2>4. /\ \A t \in 0..clock : Used(c, t) <= Allowance(t)
        /\ \E t \in 0..clock : Used(c, t) = Allowance(t)
    BY DEF Inv, Metered
  <2>5. ASSUME NEW t \in 0..now PROVE Used(c, t)' <= Allowance(t)'
    <3>1. CASE t = now
      BY <2>1, <2>2, <3>1
    <3>2. CASE t # now
      <4>1. t \in 0..clock
        BY <1>1, <3>2
      <4>2. /\ Used(c, t) \in Int /\ Allowance(t) \in Int
            /\ Used(c, t)' = Used(c, t) + (bucket'[c] - bucket[c])
            /\ Allowance(t)' = Allowance(t) + Limit /\ Used(c, t) <= Allowance(t)
        BY <2>3, <2>4, <4>1
      <4> QED BY <2>1, <4>2
    <3> QED BY <3>1, <3>2
  <2>6. \E t \in 0..now : Used(c, t)' = Allowance(t)'
    <3>1. CASE bucket'[c] = Burst
      BY <2>2, <3>1
    <3>2. CASE bucket'[c] = bucket[c] + Limit
      <4>1. PICK t \in 0..clock : Used(c, t) = Allowance(t)
        BY <2>4
      <4>2. /\ Used(c, t) \in Int /\ Used(c, t)' = Used(c, t) + (bucket'[c] - bucket[c])
            /\ Allowance(t)' = Allowance(t) + Limit
        BY <2>3
      <4>3. Used(c, t)' = Allowance(t)'
        BY <2>1, <3>2, <4>1, <4>2
      <4>4. t \in 0..now
        BY <1>1
      <4> QED BY <4>3, <4>4
    <3> QED BY <2>1, <3>1, <3>2
  <2> QED BY <2>5, <2>6
<1> QED BY <1>4, <1>5, <1>6 DEF Inv
-----------------------------------------------------------------------------
LEMMA NextInv == ASSUME Inv, [Next]_vars PROVE Inv'
<1>1. /\ bucket \in [Clients -> 0..Burst] /\ count \in [Clients -> Nat]
      /\ \A r \in Requests : req[r].client \in Clients
  BY DEF Inv, TypeOK
<1>2. CASE \E r \in Requests : Arrive(r) \/ Check(r) \/ CheckFails(r) \/ GiveUp(r)
                              \/ Dispatch(r) \/ Backend(r)
  <2>1. PICK r \in Requests : Arrive(r) \/ Check(r) \/ CheckFails(r) \/ GiveUp(r)
                              \/ Dispatch(r) \/ Backend(r)
    BY <1>2
  <2>2. PICK new : /\ Moves(r, new)
                   /\ new.pc \in {"dispatch", "proxied"} =>
                        new.client = req[r].client /\ count[req[r].client] > 0
                   /\ new.pc # "authz"
    BY <2>1, StepMoves
  <2>3. UNCHANGED << clock, bucket, count, mark, changes >>
    BY <2>1, StepMoves DEF rate
  <2>4. TypeOK' /\ Formed'
    BY <1>1, <2>2, <2>3, MoveKeepsForm
  <2>5. Metered'
    BY <1>1, <2>3, SpendKeepsMeter
  <2> QED BY <2>4, <2>5 DEF Inv
<1>3. CASE \E r \in Requests : Allow(r)
  <2>1. PICK r \in Requests : Allow(r)
    BY <1>3
  <2> DEFINE c == req[r].client
  <2>2. PICK new :
          /\ Moves(r, new)
          /\ \/ new.pc = "done" /\ UNCHANGED << bucket, count >>
             \/ /\ bucket[c] # 0 /\ new.pc = "authz" /\ new.client = c
                /\ bucket' = [bucket EXCEPT ![c] = @ - 1]
                /\ count' = [count EXCEPT ![c] = @ + 1]
    BY <2>1, AllowMoves
  <2>3. UNCHANGED << clock, mark, changes >>
    BY <2>1 DEF Allow
  <2>4. /\ bucket' \in [Clients -> 0..Burst] /\ count' \in [Clients -> Nat]
        /\ \A d \in Clients : count[d] <= count'[d] /\ bucket'[d] + count'[d] = bucket[d] + count[d]
        /\ new.pc \in {"authz", "dispatch", "proxied"} => count'[new.client] > 0
    BY <1>1, <2>2
  <2>5. TypeOK' /\ Formed'
    BY <2>2, <2>3, <2>4, MoveKeepsForm
  <2>6. Metered'
    BY <2>3, <2>4, SpendKeepsMeter
  <2> QED BY <2>5, <2>6 DEF Inv
<1>4. CASE CreateRule \/ DeleteRule
  <2>1. UNCHANGED << clock, bucket, count, mark, req >> /\ changes' = changes - 1 /\ changes > 0
    BY <1>4 DEF CreateRule, DeleteRule, rate
  <2>2. TypeOK' /\ Formed'
    BY <2>1 DEF Inv, TypeOK, Formed, Idle
  <2>3. Metered'
    BY <1>1, <2>1, SpendKeepsMeter
  <2> QED BY <2>2, <2>3 DEF Inv
<1>5. CASE Tick
  BY <1>5, TickKeepsInv
<1>6. CASE UNCHANGED vars
  BY <1>6 DEF vars, rate, Inv, TypeOK, Formed, Idle, Metered, Used, Allowance
<1> QED BY <1>2, <1>3, <1>4, <1>5, <1>6 DEF Next, Proceed

THEOREM Invariance == Spec => []Inv
BY InitInv, NextInv, PTL DEF Spec

(* The state keeps its form, a bucket never holds more than Burst nor less *)
(* than nothing, and no request is past the limiter that was not counted   *)
(* (rateLimitMiddleware, authzMiddleware).                                 *)
THEOREM GatewayTypeCorrect == Spec => []TypeOK
BY Invariance, PTL DEF Inv

(* A token is left exactly if one more request is within the rate.         *)
LEMMA TokenIffWithinRate ==
    ASSUME Inv, NEW c \in Clients
    PROVE  bucket[c] # 0 <=> WithinRate(c)
<1>1. /\ clock \in Nat /\ bucket[c] \in 0..Burst /\ count[c] \in Nat
      /\ mark[c] \in Seq(Nat) /\ Len(mark[c]) = clock + 1
  BY DEF Inv, TypeOK
<1>2. \A t \in 0..clock : mark[c][t + 1] \in Nat
  BY Meter DEF Inv
<1>3. \A t \in 0..clock : Allowance(t) \in Int
  <2> TAKE t \in 0..clock
  <2>1. Limit * (clock - t) \in Int
    BY <1>1
  <2> QED BY <2>1 DEF Allowance
<1>4. /\ \A t \in 0..clock : Used(c, t) <= Allowance(t)
      /\ \E t \in 0..clock : Used(c, t) = Allowance(t)
  BY DEF Inv, Metered
<1>5. WithinRate(c) <=> \A t \in 0..clock : count[c] + 1 - mark[c][t + 1] <= Allowance(t)
  BY DEF WithinRate, Allowance
<1>6. \A t \in 0..clock : Used(c, t) = bucket[c] + (count[c] - mark[c][t + 1])
  BY <1>1, <1>2 DEF Used
<1>7. ASSUME bucket[c] # 0, NEW t \in 0..clock
      PROVE  count[c] + 1 - mark[c][t + 1] <= Allowance(t)
  <2>1. /\ Used(c, t) <= Allowance(t) /\ Used(c, t) = bucket[c] + (count[c] - mark[c][t + 1])
        /\ mark[c][t + 1] \in Nat /\ Allowance(t) \in Int
    BY <1>2, <1>3, <1>4, <1>6
  <2>2. bucket[c] \in Int /\ count[c] \in Int /\ bucket[c] >= 1
    BY <1>1, <1>7
  <2> QED BY <2>1, <2>2
<1>8. ASSUME bucket[c] = 0
      PROVE  \E t \in 0..clock : ~(count[c] + 1 - mark[c][t + 1] <= Allowance(t))
  <2>1. PICK t \in 0..clock : Used(c, t) = Allowance(t)
    BY <1>4
  <2>2. /\ Allowance(t) = bucket[c] + (count[c] - mark[c][t + 1])
        /\ mark[c][t + 1] \in Nat
    BY <1>2, <1>6, <2>1
  <2>3. ~(count[c] + 1 - mark[c][t + 1] <= Allowance(t))
    BY <1>1, <1>8, <2>2
  <2> QED BY <2>3
<1> QED BY <1>5, <1>7, <1>8

(* The limiter admits a request exactly if, with it, its client stays      *)
(* within the rate in every stretch of time, whatever the other clients do *)
(* (rateLimitMiddleware).                                                  *)
THEOREM LimiterIsExact == Spec => RateExact
<1>1. ASSUME Inv, [Next]_vars, NEW r \in Requests,
             req[r].pc = "allow", req'[r].pc # "allow"
      PROVE  (req'[r].pc = "authz") = WithinRate(req[r].client)
  <2>1. DOMAIN req = Requests /\ req[r].client \in Clients
    BY <1>1 DEF Inv, Formed, TypeOK
  <2>2. Allow(r)
    <3>1. CASE \E q \in Requests : Arrive(q) \/ Check(q) \/ CheckFails(q) \/ GiveUp(q)
                                  \/ Dispatch(q) \/ Backend(q)
      <4>1. PICK q \in Requests : Arrive(q) \/ Check(q) \/ CheckFails(q) \/ GiveUp(q)
                                  \/ Dispatch(q) \/ Backend(q)
        BY <3>1
      <4>2. req[q].pc # "allow" /\ \E new : Moves(q, new)
        BY <1>1, <4>1, StepMoves
      <4> QED BY <1>1, <2>1, <4>2 DEF Moves, Become
    <3>2. CASE \E q \in Requests : Allow(q)
      <4>1. PICK q \in Requests : Allow(q)
        BY <3>2
      <4>2. \E new : Moves(q, new)
        BY <1>1, <4>1, AllowMoves
      <4> QED BY <1>1, <2>1, <4>1, <4>2 DEF Moves, Become
    <3>3. CASE CreateRule \/ DeleteRule \/ Tick \/ UNCHANGED vars
      BY <1>1, <3>3 DEF CreateRule, DeleteRule, Tick, vars
    <3> QED BY <1>1, <3>1, <3>2, <3>3 DEF Next, Proceed
  <2>3. bucket[req[r].client] # 0 <=> WithinRate(req[r].client)
    BY <1>1, <2>1, TokenIffWithinRate
  <2>4. PICK new : /\ Moves(r, new)
                   /\ \/ bucket[req[r].client] = 0 /\ new.pc = "done"
                      \/ bucket[req[r].client] # 0 /\ new.pc = "authz"
    BY <1>1, <2>2, AllowMoves
  <2>5. req'[r] = new
    BY <2>1, <2>4 DEF Moves, Become
  <2>6. WithinRate(req[r].client) \in BOOLEAN
    BY DEF WithinRate
  <2> QED BY <2>3, <2>4, <2>5, <2>6
<1>2. ASSUME Inv, [Next]_vars
      PROVE  [\A r \in Requests : req[r].pc = "allow" /\ req'[r].pc # "allow" =>
                (req'[r].pc = "authz") = WithinRate(req[r].client)]_vars
  BY <1>1, <1>2
<1> QED BY <1>2, Invariance, PTL DEF RateExact, Spec
-----------------------------------------------------------------------------
(* Lists.                                                                  *)

LEMMA Least ==
    ASSUME NEW T, T \subseteq Nat, T # {}
    PROVE  \E n \in T : \A m \in T : n <= m
<1>1. PICK n \in T : \A m \in T : << m, n >> \notin OpToRel(<, Nat)
  BY NatLessThanWellFounded, WFMin
<1>2. \A m \in T : ~(m < n)
  BY <1>1 DEF OpToRel
<1> QED BY <1>2

LEMMA Induction ==
    ASSUME NEW S, 0 \in S, \A n \in Nat : n \in S => n + 1 \in S
    PROVE  Nat \subseteq S
<1> SUFFICES ASSUME ~(Nat \subseteq S) PROVE FALSE
  OBVIOUS
<1> DEFINE T == {n \in Nat : n \notin S}
<1>1. PICK n \in T : \A m \in T : n <= m
  <2>1. T \subseteq Nat /\ T # {}
    OBVIOUS
  <2> QED BY <2>1, Least
<1>2. n - 1 \in Nat /\ n - 1 \in S
  BY <1>1
<1> QED BY <1>1, <1>2

(* What is computed item by item from the item and the result before.      *)
Iterates(f, n, b, step) == f[0] = b /\ \A i \in 1..n : f[i] = step[i][f[i - 1]]

LEMMA Iteration ==
    ASSUME NEW N \in Nat, NEW A, NEW b \in A, NEW step \in [1..N -> [A -> A]]
    PROVE  \E f \in [0..N -> A] : Iterates(f, N, b, step)
<1> DEFINE S == {n \in Nat : n <= N => \E f \in [0..n -> A] : Iterates(f, n, b, step)}
<1>1. 0 \in S
  <2>1. [i \in 0..0 |-> b] \in [0..0 -> A] /\ Iterates([i \in 0..0 |-> b], 0, b, step)
    BY DEF Iterates
  <2> QED BY <2>1
<1>2. ASSUME NEW n \in Nat, n \in S, n + 1 <= N
      PROVE  \E g \in [0..(n + 1) -> A] : Iterates(g, n + 1, b, step)
  <2>1. PICK f \in [0..n -> A] : Iterates(f, n, b, step)
    BY <1>2
  <2> DEFINE g == [i \in 0..(n + 1) |-> IF i <= n THEN f[i] ELSE step[n + 1][f[n]]]
  <2>2. step[n + 1][f[n]] \in A
    BY <1>2
  <2>3. g \in [0..(n + 1) -> A]
    BY <2>2
  <2>4. \A i \in 0..n : g[i] = f[i]
    OBVIOUS
  <2>5. g[n + 1] = step[n + 1][g[n]]
    <3>1. g[n] = f[n] /\ g[n + 1] = step[n + 1][f[n]]
      OBVIOUS
    <3> QED BY <3>1
  <2> HIDE DEF g
  <2>6. g[0] = b
    BY <2>1, <2>4 DEF Iterates
  <2>7. ASSUME NEW i \in 1..(n + 1) PROVE g[i] = step[i][g[i - 1]]
    <3>1. CASE i \in 1..n
      <4>1. i \in 0..n /\ i - 1 \in 0..n
        BY <3>1
      <4> QED BY <2>1, <2>4, <3>1, <4>1 DEF Iterates
    <3>2. CASE i = n + 1
      BY <2>5, <3>2
    <3> QED BY <3>1, <3>2
  <2> QED BY <2>3, <2>6, <2>7 DEF Iterates
<1>3. ASSUME NEW n \in Nat, n \in S PROVE n + 1 \in S
  <2>1. n + 1 \in Nat
    OBVIOUS
  <2> QED BY <1>2, <1>3, <2>1
<1>4. Nat \subseteq S
  <2> HIDE DEF S
  <2> QED BY <1>1, <1>3, Induction
<1> QED BY <1>4
-----------------------------------------------------------------------------
Constraints == Seq(STRING)
Result == [allow : BOOLEAN, read : Constraints, write : Constraints]
Acc == [decided : BOOLEAN, d : Result]

LEMMA ConsiderType ==
    ASSUME NEW acc \in Acc, NEW rule \in GeofenceRule, NEW sub, NEW q
    PROVE  Consider(acc, rule, sub, q) \in Acc
<1>1. /\ acc.d \in Result /\ acc.d.read \o rule.read \in Constraints
      /\ acc.d.write \o rule.write \in Constraints
  BY DEF Acc, Result, GeofenceRule, Constraints
<1>2. Denied \in Result
  BY DEF Denied, Result, Constraints
<1>3. \A d \in Result : [decided |-> TRUE, d |-> d] \in Acc
  BY DEF Acc
<1>4. \A x, y \in Constraints : [acc EXCEPT !.d.read = x, !.d.write = y] \in Acc
  BY <1>1 DEF Acc, Result
<1>5. [acc.d EXCEPT !.allow = TRUE] \in Result
  BY <1>1 DEF Result
<1>6. Apply(acc, rule) \in Acc
  BY <1>1, <1>2, <1>3, <1>4, <1>5 DEF Apply, GeofenceRule
<1> QED BY <1>6 DEF Consider

(* The loop over the rules.                                                *)
LEMMA RoundsFacts ==
    ASSUME NEW rs \in Seq(GeofenceRule), NEW sub, NEW q
    PROVE  /\ Rounds(rs, sub, q) \in [0..Len(rs) -> Acc]
           /\ Rounds(rs, sub, q)[0] = Undecided
           /\ \A i \in 1..Len(rs) :
                Rounds(rs, sub, q)[i] = Consider(Rounds(rs, sub, q)[i - 1], rs[i], sub, q)
<1> DEFINE N == Len(rs)
           step == [i \in 1..N |-> [acc \in Acc |-> Consider(acc, rs[i], sub, q)]]
           Rec(g) == [i \in 0..N |-> IF i = 0 THEN Undecided ELSE Consider(g[i - 1], rs[i], sub, q)]
<1>1. N \in Nat /\ \A i \in 1..N : rs[i] \in GeofenceRule
  OBVIOUS
<1>2. step \in [1..N -> [Acc -> Acc]]
  BY <1>1, ConsiderType
<1>3. Undecided \in Acc
  BY DEF Undecided, Denied, Acc, Result, Constraints
<1>4. PICK f \in [0..N -> Acc] : Iterates(f, N, Undecided, step)
  <2> HIDE DEF step, N
  <2> QED BY <1>1, <1>2, <1>3, Iteration
<1>5. ASSUME NEW i \in 1..N PROVE f[i] = Consider(f[i - 1], rs[i], sub, q)
  <2>1. f[i - 1] \in Acc
    BY <1>1
  <2> QED BY <1>4, <2>1 DEF Iterates
<1>6. f = Rec(f)
  BY <1>1, <1>4, <1>5 DEF Iterates
<1>7. Rounds(rs, sub, q) = CHOOSE g : g = Rec(g)
  BY DEF Rounds
<1>8. Rounds(rs, sub, q) = Rec(Rounds(rs, sub, q))
  <2> HIDE DEF Rec
  <2> QED BY <1>6, <1>7
<1> DEFINE R == Rounds(rs, sub, q)
<1>9. /\ R = [i \in 0..N |-> R[i]] /\ R[0] = Undecided
      /\ \A i \in 1..N : R[i] = Consider(R[i - 1], rs[i], sub, q)
  <2> HIDE DEF R
  <2>1. R = Rec(R)
    BY <1>8 DEF R
  <2> QED BY <1>1, <2>1
<1> HIDE DEF R
<1>10. \A i \in 0..N : R[i] \in Acc
  <2> DEFINE S == {n \in Nat : n <= N => R[n] \in Acc}
  <2>1. 0 \in S
    BY <1>3, <1>9
  <2>2. ASSUME NEW n \in Nat, n \in S PROVE n + 1 \in S
    <3>1. ASSUME n + 1 <= N PROVE R[n + 1] \in Acc
      <4>1. n + 1 \in 1..N /\ R[n] \in Acc
        BY <1>1, <2>2, <3>1
      <4>2. R[n + 1] = Consider(R[(n + 1) - 1], rs[n + 1], sub, q)
        BY <1>9, <4>1
      <4>3. (n + 1) - 1 = n
        OBVIOUS
      <4>4. R[n + 1] = Consider(R[n], rs[n + 1], sub, q)
        BY <4>2, <4>3
      <4> QED BY <1>1, <4>1, <4>4, ConsiderType
    <3> QED BY <3>1
  <2>3. Nat \subseteq S
    <3> HIDE DEF S
    <3> QED BY <2>1, <2>2, Induction
  <2> QED BY <1>1, <2>3
<1>11. R \in [0..N -> Acc]
  BY <1>9, <1>10
<1> QED BY <1>9, <1>11 DEF R

Joined(x, y) == x \o y

LEMMA JoinFacts ==
    /\ << >> \in Constraints
    /\ \A x \in Constraints : Joined(<< >>, x) = x /\ Joined(x, << >>) = x
    /\ \A x, y \in Constraints : Joined(x, y) \in Constraints
BY DEF Constraints, Joined

(* A concatenation grows sequence by sequence.                             *)
Joins(f, n, seqs) == f[0] = << >> /\ \A i \in 1..n : f[i] = Joined(f[i - 1], seqs[i])

LEMMA FlattenFacts ==
    ASSUME NEW N \in Nat, NEW seqs \in [1..N -> Constraints]
    PROVE  \E f \in [0..N -> Constraints] : Joins(f, N, seqs) /\ FlattenSeq(seqs) = f[N]
<1> DEFINE step == [i \in 1..N |-> [x \in Constraints |-> Joined(x, seqs[i])]]
           Rec(g) == [i \in 1..N |-> IF i = 1 THEN seqs[i] ELSE Joined(g[i - 1], seqs[i])]
           flatten == CHOOSE g : g = Rec(g)
<1>1. step \in [1..N -> [Constraints -> Constraints]] /\ << >> \in Constraints
  BY JoinFacts
<1>2. PICK f \in [0..N -> Constraints] : Iterates(f, N, << >>, step)
  <2> HIDE DEF step
  <2> QED BY <1>1, Iteration
<1>3. Joins(f, N, seqs)
  <2>1. ASSUME NEW i \in 1..N PROVE f[i] = Joined(f[i - 1], seqs[i])
    <3>1. f[i - 1] \in Constraints
      OBVIOUS
    <3> QED BY <1>2, <3>1 DEF Iterates
  <2> QED BY <1>2, <2>1 DEF Iterates, Joins
<1>4. DOMAIN seqs = 1..N /\ Len(seqs) = N
  BY DEF Constraints
<1>5. CASE N = 0
  <2>1. FlattenSeq(seqs) = << >>
    BY <1>4, <1>5 DEF FlattenSeq
  <2> QED BY <1>3, <1>5, <2>1 DEF Joins
<1>6. CASE N # 0
  <2>1. FlattenSeq(seqs) = flatten[N]
    BY <1>4, <1>6 DEF FlattenSeq, Joined
  <2>2. flatten = Rec(flatten)
    <3> DEFINE h == [i \in 1..N |-> f[i]]
    <3>1. ASSUME NEW i \in 1..N PROVE h[i] = IF i = 1 THEN seqs[i] ELSE Joined(h[i - 1], seqs[i])
      <4>1. CASE i = 1
        <5>1. f[1] = Joined(<< >>, seqs[1]) /\ seqs[1] \in Constraints
          BY <1>3, <4>1 DEF Joins
        <5> QED BY <4>1, <5>1, JoinFacts
      <4>2. CASE i # 1
        <5>1. i - 1 \in 1..N
          BY <4>2
        <5> QED BY <1>3, <4>2, <5>1 DEF Joins
      <4> QED BY <4>1, <4>2
    <3>2. h = Rec(h)
      <4> HIDE DEF h
      <4>1. h = [i \in 1..N |-> h[i]]
        BY DEF h
      <4> QED BY <3>1, <4>1
    <3> HIDE DEF Rec, h
    <3> QED BY <3>2
  <2> HIDE DEF flatten
  <2>3. \A i \in 1..N : flatten[i] = IF i = 1 THEN seqs[i] ELSE Joined(flatten[i - 1], seqs[i])
    BY <2>2
  <2> DEFINE S == {n \in Nat : n \in 1..N => flatten[n] = f[n]}
  <2>4. ASSUME NEW n \in Nat, n \in S PROVE n + 1 \in S
    <3>1. CASE n = 0
      <4>1. 1 \in 1..N /\ seqs[1] \in Constraints
        BY <1>6
      <4>2. f[1] = Joined(<< >>, seqs[1]) /\ flatten[1] = seqs[1]
        BY <1>3, <2>3, <4>1 DEF Joins
      <4>3. flatten[1] = f[1]
        BY <4>1, <4>2, JoinFacts
      <4> QED BY <3>1, <4>3
    <3>2. CASE n # 0 /\ n + 1 \in 1..N
      <4>1. n \in 1..N /\ flatten[n] = f[n]
        BY <2>4, <3>2
      <4>2. f[n + 1] = Joined(f[n], seqs[n + 1]) /\ flatten[n + 1] = Joined(flatten[n], seqs[n + 1])
        BY <1>3, <2>3, <3>2 DEF Joins
      <4> QED BY <4>1, <4>2
    <3> QED BY <3>1, <3>2
  <2>5. Nat \subseteq S
    <3>1. 0 \in S
      OBVIOUS
    <3> HIDE DEF S
    <3> QED BY <2>4, <3>1, Induction
  <2>6. flatten[N] = f[N]
    BY <1>6, <2>5
  <2> QED BY <1>3, <2>1, <2>6
<1> QED BY <1>5, <1>6

-----------------------------------------------------------------------------
Hits(m, rs) == {i \in DOMAIN rs : Matches(rs[i], Subject(m), Query(m))}
Deciding(m, rs) == {i \in Hits(m, rs) : rs[i].access # "LIMIT"}
Binding(m, rs) ==
    {i \in Hits(m, rs) : rs[i].access = "LIMIT" /\ \A j \in Deciding(m, rs) : i < j}
Reads(m, rs) == [i \in DOMAIN rs |-> IF i \in Binding(m, rs) THEN rs[i].read ELSE << >>]

(* After n rounds: decided if one of the first n rules decides, by the      *)
(* first of them; with the constraints of the binding ones so far.         *)
Round(m, rs, f, n, acc) ==
    /\ acc.decided <=> \E i \in Deciding(m, rs) : i <= n
    /\ ~acc.decided => acc.d.allow = FALSE
    /\ acc.decided => \E k \in Deciding(m, rs) :
         /\ \A j \in Deciding(m, rs) : k <= j
         /\ acc.d.allow <=> rs[k].access = "ALLOW"
    /\ ~acc.decided \/ acc.d.allow => acc.d.read = f[n]

LEMMA NextRound ==
    ASSUME NEW m, NEW rs \in Seq(GeofenceRule), NEW f \in [0..Len(rs) -> Constraints],
           Joins(f, Len(rs), Reads(m, rs)), NEW acc \in Acc,
           NEW n \in Nat, n + 1 \in 1..Len(rs), Round(m, rs, f, n, acc)
    PROVE  Round(m, rs, f, n + 1, Consider(acc, rs[n + 1], Subject(m), Query(m)))
<1> DEFINE rule == rs[n + 1]
           new == Consider(acc, rule, Subject(m), Query(m))
           D == Deciding(m, rs)
<1>1. /\ rule \in GeofenceRule /\ n + 1 \in DOMAIN rs /\ n \in 0..Len(rs)
      /\ D \subseteq Nat /\ acc.d \in Result
  BY DEF Deciding, Hits, Acc
<1>2. f[n + 1] = IF n + 1 \in Binding(m, rs) THEN Joined(f[n], rule.read) ELSE f[n]
  <2>1. f[n + 1] = Joined(f[n], Reads(m, rs)[n + 1]) /\ f[n] \in Constraints
    BY <1>1 DEF Joins
  <2> QED BY <1>1, <2>1, JoinFacts DEF Reads
<1>3. n + 1 \in D <=> Matches(rule, Subject(m), Query(m)) /\ rule.access # "LIMIT"
  BY <1>1 DEF Deciding, Hits
<1>4. n + 1 \in Binding(m, rs) <=>
        /\ Matches(rule, Subject(m), Query(m)) /\ rule.access = "LIMIT"
        /\ \A j \in D : n + 1 < j
  BY <1>1 DEF Binding, Hits
<1>5. (\E i \in D : i <= n + 1) <=> (\E i \in D : i <= n) \/ n + 1 \in D
  BY <1>1
<1>6. CASE acc.decided
  <2>1. new = acc /\ n + 1 \notin Binding(m, rs) /\ \E i \in D : i <= n
    BY <1>1, <1>4, <1>6 DEF Consider, Round
  <2> QED BY <1>2, <1>5, <1>6, <2>1 DEF Round
<1>7. CASE ~acc.decided /\ ~Matches(rule, Subject(m), Query(m))
  BY <1>2, <1>3, <1>4, <1>5, <1>7 DEF Consider, Round
<1>8. CASE ~acc.decided /\ Matches(rule, Subject(m), Query(m))
  <2>1. new = Apply(acc, rule) /\ ~\E i \in D : i <= n
    BY <1>8 DEF Consider, Round
  <2>2. CASE rule.access = "LIMIT"
    <3>1. /\ new.decided = acc.decided /\ new.d.allow = acc.d.allow
          /\ new.d.read = Joined(acc.d.read, rule.read)
      <4>1. new = [acc EXCEPT !.d.read = Joined(acc.d.read, rule.read),
                              !.d.write = Joined(acc.d.write, rule.write)]
        BY <2>1, <2>2 DEF Apply, Joined
      <4>2. \A x, y : /\ [acc EXCEPT !.d.read = x, !.d.write = y].decided = acc.decided
                      /\ [acc EXCEPT !.d.read = x, !.d.write = y].d =
                           [acc.d EXCEPT !.read = x, !.write = y]
        BY DEF Acc
      <4>3. \A x, y : /\ [acc.d EXCEPT !.read = x, !.write = y].allow = acc.d.allow
                      /\ [acc.d EXCEPT !.read = x, !.write = y].read = x
        BY <1>1 DEF Result
      <4> HIDE DEF new
      <4>4. new.decided = acc.decided
        BY <4>1, <4>2
      <4>5. new.d = [acc.d EXCEPT !.read = Joined(acc.d.read, rule.read),
                                  !.write = Joined(acc.d.write, rule.write)]
        BY <4>1, <4>2
      <4> QED BY <4>3, <4>4, <4>5
    <3>2. n + 1 \in Binding(m, rs) /\ n + 1 \notin D
      BY <1>1, <1>3, <1>4, <1>8, <2>1, <2>2
    <3> QED BY <1>2, <1>5, <1>8, <2>1, <3>1, <3>2 DEF Round
  <2>3. CASE rule.access # "LIMIT"
    <3>1. /\ n + 1 \in D /\ n + 1 \notin Binding(m, rs)
          /\ \A j \in D : n + 1 <= j
      BY <1>1, <1>3, <1>4, <1>8, <2>1, <2>3
    <3>2. /\ new.decided /\ new.d.allow <=> rule.access = "ALLOW"
          /\ new.d.allow => new.d.read = acc.d.read
      <4>1. rule.access \in {"ALLOW", "DENY"}
        BY <1>1, <2>3 DEF GeofenceRule
      <4>2. CASE rule.access = "ALLOW"
        <5>1. new = [decided |-> TRUE, d |-> [acc.d EXCEPT !.allow = TRUE]]
          BY <2>1, <4>2 DEF Apply
        <5> HIDE DEF new
        <5> QED BY <1>1, <4>2, <5>1 DEF Result
      <4>3. CASE rule.access = "DENY"
        <5>1. new = [decided |-> TRUE, d |-> Denied]
          BY <2>1, <4>3 DEF Apply
        <5> HIDE DEF new
        <5> QED BY <4>3, <5>1 DEF Denied
      <4> QED BY <4>1, <4>2, <4>3
    <3>3. acc.d.read = f[n] /\ f[n + 1] = f[n]
      BY <1>2, <1>8, <3>1 DEF Round
    <3>4. \E i \in D : i <= n + 1
      BY <1>5, <3>1
    <3>5. new.d.allow => new.d.read = f[n + 1]
      BY <3>2, <3>3
    <3>6. /\ new.decided
          /\ \E k \in D : (\A j \in D : k <= j) /\ (new.d.allow <=> rs[k].access = "ALLOW")
      BY <3>1, <3>2
    <3> SUFFICES Round(m, rs, f, n + 1, new)
      OBVIOUS
    <3> HIDE DEF new
    <3> QED BY <3>4, <3>5, <3>6 DEF Round
  <2> QED BY <2>2, <2>3
<1> QED BY <1>6, <1>7, <1>8

(* The loop decides as the first deciding rule says.                       *)
LEMMA EvaluateDecides ==
    ASSUME NEW m, NEW rs \in Seq(GeofenceRule),
           Evaluate(rs, Subject(m), Query(m), DefaultAllow).allow
    PROVE  Decides(m, rs) =
             [allow |-> TRUE, read |-> Evaluate(rs, Subject(m), Query(m), DefaultAllow).read]
<1> DEFINE N == Len(rs)
           acc == Rounds(rs, Subject(m), Query(m))
           D == Deciding(m, rs)
           d == Evaluate(rs, Subject(m), Query(m), DefaultAllow)
<1>1. N \in Nat /\ DOMAIN rs = 1..N /\ \A i \in 1..N : rs[i] \in GeofenceRule
  OBVIOUS
<1>2. Reads(m, rs) \in [1..N -> Constraints]
  BY <1>1, JoinFacts DEF Reads, GeofenceRule, Constraints
<1>3. PICK f \in [0..N -> Constraints] :
        Joins(f, N, Reads(m, rs)) /\ FlattenSeq(Reads(m, rs)) = f[N]
  BY <1>1, <1>2, FlattenFacts
<1>4. /\ acc \in [0..N -> Acc] /\ acc[0] = Undecided
      /\ \A i \in 1..N : acc[i] = Consider(acc[i - 1], rs[i], Subject(m), Query(m))
  BY RoundsFacts
<1>5. Round(m, rs, f, N, acc[N])
  <2> DEFINE S == {n \in Nat : n <= N => Round(m, rs, f, n, acc[n])}
  <2>1. 0 \in S
    <3>1. \A i \in D : ~(i <= 0)
      BY <1>1 DEF Deciding, Hits
    <3>2. Round(m, rs, f, 0, Undecided)
      BY <1>3, <3>1 DEF Round, Undecided, Denied, Joins
    <3> QED BY <1>4, <3>2
  <2>2. ASSUME NEW n \in Nat, n \in S PROVE n + 1 \in S
    <3>1. ASSUME n + 1 <= N PROVE Round(m, rs, f, n + 1, acc[n + 1])
      <4>1. n + 1 \in 1..N /\ n \in 0..N /\ Round(m, rs, f, n, acc[n])
        BY <1>1, <2>2, <3>1
      <4>2. acc[n + 1] = Consider(acc[n], rs[n + 1], Subject(m), Query(m)) /\ acc[n] \in Acc
        BY <1>4, <4>1
      <4> QED BY <1>3, <4>1, <4>2, NextRound
    <3> QED BY <3>1
  <2>3. Nat \subseteq S
    <3> HIDE DEF S
    <3> QED BY <2>1, <2>2, Induction
  <2> QED BY <1>1, <2>3
<1>6. acc[N] \in Acc /\ acc[N].d \in Result
  BY <1>1, <1>4 DEF Acc
<1>7. d = IF acc[N].decided THEN acc[N].d
          ELSE IF DefaultAllow THEN [acc[N].d EXCEPT !.allow = TRUE] ELSE Denied
  BY DEF Evaluate
<1>8. /\ acc[N].decided => acc[N].d.allow
      /\ ~acc[N].decided => DefaultAllow
      /\ d.read = acc[N].d.read
  <2> HIDE DEF acc
  <2> QED BY <1>6, <1>7 DEF Denied, Result
<1>9. d.read = FlattenSeq(Reads(m, rs))
  BY <1>3, <1>5, <1>8 DEF Round
<1>10. (IF D = {} THEN DefaultAllow ELSE rs[Min(D)].access = "ALLOW") = TRUE
  <2>1. CASE acc[N].decided
    <3>1. PICK k \in D : (\A j \in D : k <= j) /\ rs[k].access = "ALLOW"
      BY <1>5, <1>8, <2>1 DEF Round
    <3>2. D \subseteq Nat
      BY <1>1 DEF Deciding, Hits
    <3>3. Min(D) = k
      <4> HIDE DEF D
      <4>1. \A i \in D : (\A j \in D : i <= j) => i = k
        BY <3>1, <3>2
      <4> QED BY <3>1, <4>1 DEF Min
    <3> QED BY <3>1, <3>3
  <2>2. CASE ~acc[N].decided
    <3>1. D = {}
      BY <1>1, <1>5, <2>2 DEF Round, Deciding, Hits
    <3> QED BY <1>8, <2>2, <3>1, DefaultAssumption
  <2> QED BY <2>1, <2>2
<1>11. Decides(m, rs) =
         [allow |-> IF D = {} THEN DefaultAllow ELSE rs[Min(D)].access = "ALLOW",
          read |-> FlattenSeq(Reads(m, rs))]
  BY DEF Decides, Deciding, Hits, Binding, Reads
<1> QED BY <1>9, <1>10, <1>11

-----------------------------------------------------------------------------
(* The rules in their order.                                               *)

Row == [id : Nat, rule : NewRules]
RowsOK(rows) ==
    /\ IsFiniteSet(rows) /\ rows \subseteq Row
    /\ \A a, b \in rows : a.id = b.id => a = b

LEMMA RowsAreOrdered ==
    ASSUME NEW rows, RowsOK(rows)
    PROVE  /\ \A a \in rows : ~Before(a, a)
           /\ \A a, b, c \in rows : Before(a, b) /\ Before(b, c) => Before(a, c)
           /\ \A a, b \in rows : a = b \/ Before(a, b) \/ Before(b, a)
<1>1. \A a \in rows : a.id \in Nat /\ a.rule.priority \in Int
  BY RulesAssumption DEF RowsOK, Row, GeofenceRule
<1> QED BY <1>1 DEF Before, RowsOK

(* A row has its place: as many come before it, with itself.               *)
LEMMA RowsCanBeListed ==
    ASSUME NEW rows, RowsOK(rows)
    PROVE  \E s \in SetToSeqs(rows) : \A i, j \in DOMAIN s : i < j => Before(s[i], s[j])
<1> DEFINE n == Cardinality(rows)
           upto(a) == {b \in rows : b = a \/ Before(b, a)}
           rank == [a \in rows |-> Cardinality(upto(a))]
           s == [i \in 1..n |-> CHOOSE a \in rows : rank[a] = i]
<1>1. n \in Nat /\ IsFiniteSet(rows)
  BY FS_CardinalityType DEF RowsOK
<1>2. ASSUME NEW a \in rows PROVE IsFiniteSet(upto(a)) /\ Cardinality(upto(a)) \in 1..n
  <2>1. upto(a) \subseteq rows /\ upto(a) # {}
    OBVIOUS
  <2> HIDE DEF upto
  <2>2. IsFiniteSet(upto(a)) /\ Cardinality(upto(a)) <= n /\ Cardinality(upto(a)) \in Nat
    BY <1>1, <2>1, FS_Subset, FS_CardinalityType
  <2>3. Cardinality(upto(a)) # 0
    BY <2>1, <2>2, FS_EmptySet
  <2> QED BY <1>1, <2>2, <2>3
<1>3. ASSUME NEW a \in rows, NEW b \in rows, Before(a, b) PROVE rank[a] < rank[b]
  <2>1. upto(a) \subseteq upto(b) /\ upto(a) # upto(b)
    BY <1>3, RowsAreOrdered
  <2> HIDE DEF upto
  <2>2. Cardinality(upto(a)) <= Cardinality(upto(b)) /\ Cardinality(upto(a)) # Cardinality(upto(b))
    BY <1>2, <2>1, FS_Subset
  <2> QED BY <1>2, <2>2
<1>4. rank \in [rows -> 1..n]
  BY <1>2
<1>5. ASSUME NEW a \in rows, NEW b \in rows, rank[a] = rank[b] PROVE a = b
  <2> HIDE DEF rank
  <2>1. rank[a] \in Int /\ ~Before(a, b) /\ ~Before(b, a)
    BY <1>1, <1>3, <1>4, <1>5
  <2> QED BY <2>1, RowsAreOrdered
<1>6. \A i \in 1..n : \E a \in rows : rank[a] = i
  <2> HIDE DEF rank
  <2>1. rank \in Injection(rows, 1..n)
    BY <1>4, <1>5 DEF Injection, IsInjective
  <2>2. IsFiniteSet(1..n) /\ Cardinality(1..n) = n
    BY <1>1, FS_Interval
  <2>3. rank \in Surjection(rows, 1..n)
    BY <2>1, <2>2, FS_Injection
  <2> QED BY <2>3 DEF Surjection
<1>7. \A i \in 1..n : s[i] \in rows /\ rank[s[i]] = i
  <2> HIDE DEF rank, n
  <2> QED BY <1>6
<1>8. DOMAIN s = 1..n
  OBVIOUS
<1> HIDE DEF s, rank
<1>9. s \in [1..n -> rows]
  <2>1. s = [i \in 1..n |-> s[i]]
    BY DEF s
  <2> QED BY <1>7, <2>1
<1>10. s \in SetToSeqs(rows)
  BY <1>7, <1>9 DEF SetToSeqs
<1>11. ASSUME NEW i \in 1..n, NEW j \in 1..n, i < j PROVE Before(s[i], s[j])
  <2>1. s[i] # s[j] /\ ~Before(s[j], s[i])
    BY <1>1, <1>3, <1>7, <1>11
  <2> QED BY <1>7, <2>1, RowsAreOrdered
<1> QED BY <1>8, <1>10, <1>11

LEMMA ListedRules ==
    ASSUME RowsOK(rules) PROVE ListRules \in Seq(GeofenceRule)
<1> DEFINE sorted == CHOOSE s \in SetToSeqs(rules) :
                       \A i, j \in DOMAIN s : i < j => Before(s[i], s[j])
<1>1. sorted \in SetToSeqs(rules)
  BY RowsCanBeListed
<1>2. Cardinality(rules) \in Nat /\ sorted \in [1..Cardinality(rules) -> rules]
  BY <1>1, FS_CardinalityType DEF SetToSeqs, RowsOK
<1>3. \A row \in rules : row.rule \in GeofenceRule
  BY RulesAssumption DEF RowsOK, Row
<1>4. ListRules = [i \in DOMAIN sorted |-> sorted[i].rule]
  BY DEF ListRules
<1> HIDE DEF sorted
<1>5. ListRules \in [1..Cardinality(rules) -> GeofenceRule]
  BY <1>2, <1>3, <1>4
<1> QED BY <1>2, <1>5

-----------------------------------------------------------------------------
(* Versions.                                                               *)

(* cmpVer stops at the first number in which two versions differ.          *)
LEMMA AtMostIsNotAbove ==
    ASSUME NEW v \in Seq(Int), NEW w \in Seq(Int)
    PROVE  AtMost(v, w) <=> ~Below(w, v)
<1> DEFINE D == DOMAIN v \cup DOMAIN w
           Worse(i) == Part(v, i) > Part(w, i)
           Better(i) == Part(v, i) < Part(w, i)
<1>1. /\ D \subseteq Nat /\ \A i \in D : \A j \in 1..(i - 1) : j \in D
      /\ \A i \in Nat : Part(v, i) \in Int /\ Part(w, i) \in Int
  BY DEF Part
<1>2. ASSUME AtMost(v, w), Below(w, v) PROVE FALSE
  <2>1. PICK i \in D : Part(w, i) < Part(v, i) /\ \A j \in 1..(i - 1) : Part(w, j) = Part(v, j)
    BY <1>2 DEF Below
  <2>2. \E j \in 1..(i - 1) : Part(v, j) < Part(w, j)
    BY <1>1, <1>2, <2>1 DEF AtMost
  <2> QED BY <1>1, <2>1, <2>2
<1>3. ASSUME ~AtMost(v, w) PROVE Below(w, v)
  <2> DEFINE T == {i \in D : Worse(i) /\ \A j \in 1..(i - 1) : ~Better(j)}
  <2>1. T \subseteq Nat /\ T # {}
    BY <1>1, <1>3 DEF AtMost
  <2>2. PICK i \in T : \A j \in T : i <= j
    <3> HIDE DEF T
    <3> QED BY <2>1, Least
  <2>3. ASSUME NEW j \in 1..(i - 1) PROVE Part(w, j) = Part(v, j)
    <3>1. i \in D /\ i \in Nat /\ ~Better(j)
      BY <1>1, <2>2
    <3>2. j \in D /\ j \in Nat /\ j < i /\ i - 1 \in Int
      <4> HIDE DEF D
      <4>1. j \in Nat /\ j < i /\ i - 1 \in Int
        BY <3>1
      <4>2. j \in D
        BY <1>1, <3>1
      <4> QED BY <4>1, <4>2
    <3>3. \A k \in 1..(j - 1) : ~Better(k)
      BY <2>2, <3>1, <3>2
    <3>4. ~Worse(j)
      BY <2>2, <3>2, <3>3
    <3> QED BY <1>1, <3>1, <3>2, <3>4
  <2> QED BY <1>1, <2>2, <2>3 DEF Below
<1> QED BY <1>2, <1>3

LEMMA TripleBelow ==
    ASSUME NEW a \in Int, NEW b \in Int, NEW c \in Int,
           NEW d \in Int, NEW e \in Int, NEW f \in Int,
           Below(<< a, b, c >>, << d, e, f >>)
    PROVE  a < d \/ (a = d /\ b < e) \/ (a = d /\ b = e /\ c < f)
<1> DEFINE v == << a, b, c >>
           w == << d, e, f >>
<1>1. /\ Part(v, 1) = a /\ Part(v, 2) = b /\ Part(v, 3) = c
      /\ Part(w, 1) = d /\ Part(w, 2) = e /\ Part(w, 3) = f
  BY DEF Part
<1>2. DOMAIN v \cup DOMAIN w = 1..3
  OBVIOUS
<1> HIDE DEF v, w
<1>3. PICK i \in 1..3 : Part(v, i) < Part(w, i) /\ \A j \in 1..(i - 1) : Part(v, j) = Part(w, j)
  BY <1>2 DEF Below, v, w
<1>4. CASE i = 1
  BY <1>1, <1>3, <1>4
<1>5. CASE i = 2
  BY <1>1, <1>3, <1>5
<1>6. CASE i = 3
  BY <1>1, <1>3, <1>6
<1> QED BY <1>4, <1>5, <1>6

(* Each service lists its versions from the newest on.                     *)
LEMMA NewestFirst ==
    ASSUME NEW service \in Services
    PROVE  LET vs == Versions[service] IN
           /\ vs \in Seq(Seq(Int)) /\ Len(vs) \in Nat \ {0}
           /\ \A i, j \in DOMAIN vs : i <= j => ~Below(vs[i], vs[j])
<1>1. CASE service = "WMS"
  BY <1>1, TripleBelow DEF Versions
<1>2. CASE service = "WFS"
  BY <1>2, TripleBelow DEF Versions
<1>3. CASE service = "WMTS"
  BY <1>3, TripleBelow DEF Versions
<1>4. CASE service = "WPS"
  BY <1>4, TripleBelow DEF Versions
<1>5. CASE service = "CSW"
  BY <1>5, TripleBelow DEF Versions
<1>6. CASE service = "WCS"
  BY <1>6, TripleBelow DEF Versions
<1> QED BY <1>1, <1>2, <1>3, <1>4, <1>5, <1>6 DEF Services, Versions

Fitting(service, wanted) ==
    {v \in Range(Versions[service]) : wanted = << >> \/ ~Below(wanted, v)}

LEMMA NegotiateFacts ==
    ASSUME NEW service \in Services, NEW wanted \in Seq(Int)
    PROVE  LET told == Negotiate(service, wanted)
               spoken == Range(Versions[service])
               fit == Fitting(service, wanted)
           IN IF fit = {}
              THEN told \in spoken /\ \A v \in spoken : ~Below(v, told)
              ELSE told \in fit /\ \A v \in fit : ~Below(told, v)
<1> DEFINE vs == Versions[service]
           n == Len(vs)
           F == {i \in DOMAIN vs : AtMost(vs[i], wanted)}
           told == Negotiate(service, wanted)
           spoken == Range(vs)
           fit == Fitting(service, wanted)
<1> SUFFICES IF fit = {}
             THEN told \in spoken /\ \A v \in spoken : ~Below(v, told)
             ELSE told \in fit /\ \A v \in fit : ~Below(told, v)
  OBVIOUS
<1>1. /\ vs \in Seq(Seq(Int)) /\ n \in Nat \ {0} /\ DOMAIN vs = 1..n
      /\ \A i, j \in DOMAIN vs : i <= j => ~Below(vs[i], vs[j])
  BY NewestFirst
<1>2. \A i \in DOMAIN vs : vs[i] \in Seq(Int)
  BY <1>1
<1>3. /\ \A i \in DOMAIN vs : vs[i] \in spoken
      /\ \A v \in spoken : \E i \in DOMAIN vs : v = vs[i]
  BY DEF Range
<1>4. told = IF wanted = << >> THEN vs[1] ELSE IF F = {} THEN vs[n] ELSE vs[Min(F)]
  BY DEF Negotiate, Last
<1>5. \A v : v \in fit <=> v \in spoken /\ (wanted = << >> \/ ~Below(wanted, v))
  BY DEF Fitting
<1>6. \A i \in DOMAIN vs : i \in F <=> ~Below(wanted, vs[i])
  BY <1>2, AtMostIsNotAbove
<1> HIDE DEF vs, n, F, told, spoken, fit
<1>7. CASE wanted = << >>
  <2>1. 1 \in DOMAIN vs /\ told = vs[1] /\ \A i \in DOMAIN vs : 1 <= i
    BY <1>1, <1>4, <1>7
  <2>2. told \in fit
    BY <1>3, <1>5, <1>7, <2>1
  <2>3. ASSUME NEW v \in fit PROVE ~Below(told, v)
    <3>1. PICK i \in DOMAIN vs : v = vs[i]
      BY <1>3, <1>5
    <3>2. 1 <= i
      BY <2>1
    <3> QED BY <1>1, <2>1, <3>1, <3>2
  <2>4. fit # {}
    BY <2>2
  <2> QED BY <2>2, <2>3, <2>4
<1>8. CASE wanted # << >> /\ F = {}
  <2>1. n \in DOMAIN vs /\ told = vs[n] /\ \A i \in DOMAIN vs : i <= n
    BY <1>1, <1>4, <1>8
  <2>2. fit = {} /\ told \in spoken
    BY <1>3, <1>5, <1>6, <1>8, <2>1
  <2>3. ASSUME NEW v \in spoken PROVE ~Below(v, told)
    <3>1. PICK i \in DOMAIN vs : v = vs[i]
      BY <1>3
    <3>2. i <= n
      BY <2>1
    <3> QED BY <1>1, <2>1, <3>1, <3>2
  <2> QED BY <2>2, <2>3
<1>9. CASE wanted # << >> /\ F # {}
  <2>1. F \subseteq Nat /\ F \subseteq DOMAIN vs
    BY <1>1 DEF F
  <2>2. Min(F) \in F /\ \A i \in F : Min(F) <= i
    BY <1>9, <2>1, Least DEF Min
  <2>3. told = vs[Min(F)] /\ told \in fit
    BY <1>3, <1>4, <1>5, <1>6, <1>9, <2>1, <2>2
  <2>4. ASSUME NEW v \in fit PROVE ~Below(told, v)
    <3>1. v \in spoken /\ ~Below(wanted, v)
      BY <1>5, <1>9, <2>4
    <3>2. PICK i \in DOMAIN vs : v = vs[i]
      BY <1>3, <3>1
    <3>3. i \in F
      BY <1>6, <3>1, <3>2
    <3>4. Min(F) \in DOMAIN vs /\ Min(F) <= i
      BY <2>1, <2>2, <3>3
    <3> QED BY <1>1, <2>3, <3>2, <3>4
  <2>5. fit # {}
    BY <2>3
  <2> QED BY <2>3, <2>4, <2>5
<1> QED BY <1>7, <1>8, <1>9
-----------------------------------------------------------------------------
(* What is under way was decided.                                          *)

(* Rules get their ids one after the other.                                *)
RulesOK == RowsOK(rules) /\ \A row \in rules : row.id < MaxChanges - changes

ServedFor(m) ==
    [service |-> ServiceOf(m), request |-> Asked(m).request,
     version |-> Negotiate(ServiceOf(m), Asked(m).version)]

(* The constraint that goes with a message decided by these rules. *)
Grants(m, rs, grant) ==
    LET d == Decides(m, rs)
    IN d.allow /\ (m.read = <<>> \/ d.read # <<>> => grant = d.read)

(* Past the check a request keeps the message that was decided, and what   *)
(* was decided; a backend is asked what that message says.                 *)
Sound(r, q) ==
    /\ q.pc \in {"dispatch", "proxied"} =>
         /\ q.msg \in Messages[r]
         /\ Grants(q.msg, q.seen, q.grant)
    /\ q.pc = "proxied" =>
         q.served = ServedFor(q.msg) /\ ServiceOf(q.msg) \in Services \cap Backends

Decided == RulesOK /\ \A r \in Requests : Sound(r, req[r])

LEMMA BecomeSound ==
    ASSUME Inv, \A q \in Requests : Sound(q, req[q]),
           NEW r \in Requests, NEW new, Become(r, new), Sound(r, new)
    PROVE  \A q \in Requests : Sound(q, req'[q])
<1>1. req' = [req EXCEPT ![r] = new] /\ DOMAIN req = Requests
  BY DEF Become, Inv, Formed
<1>2. \A q \in Requests : req'[q] = IF q = r THEN new ELSE req[q]
  BY <1>1
<1> QED BY <1>2

LEMMA AnswerSound ==
    ASSUME Inv, \A q \in Requests : Sound(q, req[q]), NEW r \in Requests, NEW o, Answered(r, o)
    PROVE  \A q \in Requests : Sound(q, req'[q])
<1> DEFINE new == [Idle EXCEPT !.pc = "done", !.outcome = o]
<1>1. new.pc = "done"
  BY IdleForm
<1>2. Become(r, new)
  BY DEF Answered
<1>3. Sound(r, new)
  BY <1>1 DEF Sound
<1> QED BY <1>2, <1>3, BecomeSound

(* The auth service decides by the rules there are.                        *)
LEMMA CheckSound ==
    ASSUME Inv, Decided, NEW r \in Requests, Check(r)
    PROVE  \A q \in Requests : Sound(q, req'[q])
<1>1. PICK m \in Messages[r] :
        LET d == Evaluate(ListRules, Subject(m), Query(m), DefaultAllow)
        IN \/ d.allow /\ Become(r, [req[r] EXCEPT !.pc = "dispatch", !.msg = m,
                                                  !.seen = ListRules, !.grant = Forwarded(m, d)])
           \/ \E o : Answered(r, o)
  BY DEF Check
<1> DEFINE d == Evaluate(ListRules, Subject(m), Query(m), DefaultAllow)
<1>2. CASE \E o : Answered(r, o)
  BY <1>2, AnswerSound DEF Decided
<1>3. CASE d.allow /\ Become(r, [req[r] EXCEPT !.pc = "dispatch", !.msg = m,
                                               !.seen = ListRules, !.grant = Forwarded(m, d)])
  <2>1. Grants(m, ListRules, Forwarded(m, d))
    <3>1. ListRules \in Seq(GeofenceRule)
      BY ListedRules DEF Decided, RulesOK
    <3>2. Decides(m, ListRules) = [allow |-> TRUE, read |-> d.read]
      BY <1>3, <3>1, EvaluateDecides
    <3>3. Decides(m, ListRules).allow /\ Decides(m, ListRules).read = d.read
      BY <3>2
    <3> HIDE DEF d
    <3> QED BY <3>3 DEF Grants, Forwarded
  <2>2. DOMAIN req[r] = {"pc", "client", "msg", "seen", "grant", "served", "outcome"}
    BY IdleForm DEF Inv, Formed
  <2> HIDE DEF d
  <2> DEFINE new == [req[r] EXCEPT !.pc = "dispatch", !.msg = m, !.seen = ListRules, !.grant = Forwarded(m, d)]
  <2>3. new.pc = "dispatch" /\ new.msg = m /\ new.seen = ListRules /\ new.grant = Forwarded(m, d)
    BY <2>2
  <2>4. Become(r, new)
    BY <1>3
  <2> HIDE DEF new
  <2>5. Sound(r, new)
    BY <2>1, <2>3 DEF Sound
  <2> QED BY <2>4, <2>5, BecomeSound DEF Decided
<1> QED BY <1>1, <1>2, <1>3

LEMMA DispatchSound ==
    ASSUME Inv, Decided, NEW r \in Requests, Dispatch(r)
    PROVE  \A q \in Requests : Sound(q, req'[q])
<1> DEFINE m == req[r].msg
<1>1. CASE \E o : Answered(r, o)
  BY <1>1, AnswerSound DEF Decided
<1>2. CASE /\ ServiceOf(m) \in Services \cap Backends
           /\ Become(r, [req[r] EXCEPT !.pc = "proxied", !.served = ServedFor(m)])
  <2>1. DOMAIN req[r] = {"pc", "client", "msg", "seen", "grant", "served", "outcome"}
    BY IdleForm DEF Inv, Formed
  <2>2. /\ m \in Messages[r]
        /\ Grants(m, req[r].seen, req[r].grant)
    BY DEF Decided, Sound, Dispatch
  <2> DEFINE new == [req[r] EXCEPT !.pc = "proxied", !.served = ServedFor(m)]
  <2>3. /\ new.pc = "proxied" /\ new.msg = m /\ new.seen = req[r].seen
        /\ new.grant = req[r].grant /\ new.served = ServedFor(m)
    BY <2>1
  <2>4. Become(r, new)
    BY <1>2
  <2> HIDE DEF new
  <2>5. Sound(r, new)
    BY <1>2, <2>2, <2>3 DEF Sound
  <2> QED BY <2>4, <2>5, BecomeSound DEF Decided
<1>3. \/ \E o : Answered(r, o)
      \/ /\ ServiceOf(m) \in Services \cap Backends
         /\ Become(r, [req[r] EXCEPT !.pc = "proxied", !.served = ServedFor(m)])
  BY DEF Dispatch, ServedFor
<1> QED BY <1>1, <1>2, <1>3

LEMMA RulesStayOK ==
    ASSUME Inv, RulesOK, CreateRule \/ DeleteRule
    PROVE  RulesOK'
<1>1. changes \in Nat /\ MaxChanges - changes \in Nat /\ changes' = changes - 1
  BY DEF Inv, TypeOK, CreateRule, DeleteRule
<1>2. /\ IsFiniteSet(rules) /\ rules \subseteq Row
      /\ \A a, b \in rules : a.id = b.id => a = b
      /\ \A row \in rules : row.id < MaxChanges - changes
  BY DEF RulesOK, RowsOK
<1>3. CASE CreateRule
  <2>1. PICK rule \in NewRules : rules' = rules \cup {[id |-> MaxChanges - changes, rule |-> rule]}
    BY <1>3 DEF CreateRule
  <2> DEFINE row == [id |-> MaxChanges - changes, rule |-> rule]
  <2>2. row \in Row /\ row.id = MaxChanges - changes
    BY <1>1 DEF Row
  <2>3. rules' = rules \cup {row}
    BY <2>1
  <2>4. IsFiniteSet(rules')
    BY <1>2, <2>3, FS_AddElement
  <2> HIDE DEF row
  <2>5. \A a \in rules : a.id \in Nat /\ a.id # row.id
    BY <1>1, <1>2, <2>2 DEF Row
  <2>6. \A a, b \in rules' : a.id = b.id => a = b
    BY <1>2, <2>3, <2>5
  <2>7. \A a \in rules' : a.id < MaxChanges - changes'
    BY <1>1, <1>2, <2>2, <2>3, <2>5
  <2> QED BY <1>2, <2>2, <2>3, <2>4, <2>6, <2>7 DEF RulesOK, RowsOK
<1>4. CASE DeleteRule
  <2>1. rules' \subseteq rules
    BY <1>4 DEF DeleteRule
  <2>2. IsFiniteSet(rules')
    BY <1>2, <2>1, FS_Subset
  <2>3. \A a \in rules : a.id \in Nat
    BY <1>2 DEF Row
  <2>4. \A a \in rules' : a.id < MaxChanges - changes'
    BY <1>1, <1>2, <2>1, <2>3
  <2> QED BY <1>2, <2>1, <2>2, <2>4 DEF RulesOK, RowsOK
<1> QED BY <1>3, <1>4

LEMMA InitDecided == Init => Decided
<1> SUFFICES ASSUME Init PROVE Decided
  OBVIOUS
<1>1. RulesOK
  BY FS_EmptySet DEF Init, RulesOK, RowsOK
<1>2. \A r \in Requests : Sound(r, req[r])
  BY IdleForm DEF Init, Sound
<1> QED BY <1>1, <1>2 DEF Decided

LEMMA NextDecided == ASSUME Inv, Decided, [Next]_vars PROVE Decided'
<1>1. RulesOK /\ \A r \in Requests : Sound(r, req[r])
  BY DEF Decided
<1>2. SUFFICES RulesOK' /\ \A r \in Requests : Sound(r, req'[r])
  BY DEF Decided, Sound
<1>3. CASE \E r \in Requests : Check(r)
  BY <1>1, <1>3, CheckSound DEF Check, RulesOK
<1>4. CASE \E r \in Requests : Dispatch(r)
  BY <1>1, <1>4, DispatchSound DEF Dispatch, RulesOK
<1>5. CASE \E r \in Requests : CheckFails(r) \/ GiveUp(r) \/ Backend(r)
  <2>1. PICK r \in Requests : CheckFails(r) \/ GiveUp(r) \/ Backend(r)
    BY <1>5
  <2>2. (\E o : Answered(r, o)) /\ UNCHANGED << rules, changes >>
    BY <2>1 DEF CheckFails, GiveUp, Backend
  <2> QED BY <1>1, <2>2, AnswerSound DEF RulesOK
<1>6. CASE \E r \in Requests : Arrive(r) \/ Allow(r)
  <2>1. PICK r \in Requests : Arrive(r) \/ Allow(r)
    BY <1>6
  <2>2. UNCHANGED << rules, changes >>
    BY <2>1 DEF Arrive, Allow
  <2>3. \E new : Become(r, new) /\ new.pc \notin {"dispatch", "proxied"}
    <3>1. CASE Arrive(r)
      <4>1. PICK c \in Clients : Become(r, [Idle EXCEPT !.pc = "allow", !.client = c])
        BY <3>1 DEF Arrive
      <4>2. [Idle EXCEPT !.pc = "allow", !.client = c].pc = "allow"
        BY IdleForm
      <4> QED BY <4>1, <4>2
    <3>2. CASE Allow(r)
      <4>1. PICK new : Moves(r, new) /\ new.pc \in {"done", "authz"}
        BY <3>2, AllowMoves
      <4> QED BY <4>1 DEF Moves
    <3> QED BY <2>1, <3>1, <3>2
  <2>4. PICK new : Become(r, new) /\ new.pc \notin {"dispatch", "proxied"}
    BY <2>3
  <2>5. Sound(r, new)
    BY <2>4 DEF Sound
  <2> QED BY <1>1, <2>2, <2>4, <2>5, BecomeSound DEF RulesOK
<1>7. CASE CreateRule \/ DeleteRule
  <2>1. req' = req
    BY <1>7 DEF CreateRule, DeleteRule
  <2> QED BY <1>1, <1>7, <2>1, RulesStayOK
<1>8. CASE Tick \/ UNCHANGED vars
  BY <1>1, <1>8 DEF Tick, vars, RulesOK
<1> QED BY <1>3, <1>4, <1>5, <1>6, <1>7, <1>8 DEF Next, Proceed

THEOREM DecisionInvariance == Spec => [](Inv /\ Decided)
BY InitInv, NextInv, InitDecided, NextDecided, PTL DEF Spec

(* No request reaches a backend that the first deciding rule, or the       *)
(* default, did not allow; it has the constraints of exactly the LIMIT     *)
(* rules that bind it, in their order, unless none does and it brought a   *)
(* header of its own; and the backend serves the very operation that was   *)
(* decided about if URL and body say the same                              *)
(* (Evaluate, authzMiddleware, newDispatcher).                             *)
THEOREM BackendsServeWhatWasDecided == Spec => []ServedAsDecided
<1>1. ASSUME Decided, NEW r \in Requests, req[r].pc = "proxied"
      PROVE  LET m == req[r].msg IN
             /\ Grants(m, req[r].seen, req[r].grant)
             /\ req[r].served.service \in Backends
             /\ SaysTheSame(m) => /\ req[r].served.service = Query(m).service
                                  /\ req[r].served.request = Query(m).request
  <2> DEFINE m == req[r].msg
  <2>1. /\ Grants(m, req[r].seen, req[r].grant)
        /\ req[r].served = ServedFor(m) /\ ServiceOf(m) \in Backends
    BY <1>1 DEF Decided, Sound
  <2>2. req[r].served.service = ServiceOf(m) /\ req[r].served.request = Asked(m).request
    BY <2>1 DEF ServedFor
  <2>3. ASSUME SaysTheSame(m)
        PROVE  ServiceOf(m) = Query(m).service /\ Asked(m).request = Query(m).request
    BY <2>3 DEF SaysTheSame, ServiceOf, Query
  <2> QED BY <2>1, <2>2, <2>3
<1>2. Decided => ServedAsDecided
  BY <1>1 DEF ServedAsDecided, Grants
<1> QED BY <1>2, DecisionInvariance, PTL

(* Whatever version a client asks for, of however many numbers, the        *)
(* backend is told the highest it speaks that is not above it, and its     *)
(* lowest when all are (ows.Negotiate, ows.cmpVer).                        *)
THEOREM BackendsAreToldTheirVersion == Spec => []VersionNegotiated
<1>1. ASSUME Decided, NEW r \in Requests, req[r].pc = "proxied"
      PROVE  LET told == req[r].served.version
                 spoken == Range(Versions[req[r].served.service])
                 wanted == Asked(req[r].msg).version
                 fit == {v \in spoken : wanted = << >> \/ ~Below(wanted, v)}
             IN IF fit = {} THEN told \in spoken /\ \A v \in spoken : ~Below(v, told)
                ELSE told \in fit /\ \A v \in fit : ~Below(told, v)
  <2> DEFINE m == req[r].msg
  <2>1. m \in Messages[r] /\ ServiceOf(m) \in Services /\ req[r].served = ServedFor(m)
    BY <1>1 DEF Decided, Sound
  <2>2. /\ req[r].served.service = ServiceOf(m)
        /\ req[r].served.version = Negotiate(ServiceOf(m), Asked(m).version)
    BY <2>1 DEF ServedFor
  <2>3. Asked(m).version \in Seq(Int)
    BY <2>1, MessagesAssumption DEF Asked
  <2> QED BY <2>1, <2>2, <2>3, NegotiateFacts DEF Fitting
<1>2. Decided => VersionNegotiated
  BY <1>1 DEF VersionNegotiated
<1> QED BY <1>2, DecisionInvariance, PTL
=============================================================================
