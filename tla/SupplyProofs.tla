---------------------------- MODULE SupplyProofs ----------------------------
(***************************************************************************)
(* Proofs about the supply of InflatableAsset, for any transactions,       *)
(* amounts and reject lists: the tokens and rights that the wallet owns,   *)
(* what others hold, what was minted, and the supply the wallet shows.     *)
(***************************************************************************)
EXTENDS InflatableAssetProofs

-----------------------------------------------------------------------------
(* The transfers that are reached from one through inputs are the least    *)
(* set that holds it and the ancestors of all its members.                 *)

ClosedIn(dag, A) == A \subseteq Nodes /\ \A x \in A : dag[x] \subseteq A
Least(dag, R)    == {x \in Nodes : \A A \in SUBSET Nodes : R \subseteq A /\ ClosedIn(dag, A) => x \in A}
Onward(dag, R)   == R \cup UNION {dag[x] : x \in R \ {}}
IsReach(f, dag)  ==
  f = [R \in SUBSET Nodes |-> IF Onward(dag, R) = R THEN R ELSE f[Onward(dag, R)]]

LEMMA LeastFacts ==
  ASSUME NEW dag \in [Nodes -> SUBSET Nodes], NEW R \in SUBSET Nodes
  PROVE  /\ R \subseteq Least(dag, R) /\ ClosedIn(dag, Least(dag, R))
         /\ Onward(dag, R) \in SUBSET Nodes /\ R \subseteq Onward(dag, R)
         /\ Onward(dag, R) = R => Least(dag, R) = R
         /\ Least(dag, Onward(dag, R)) = Least(dag, R)
<1>1. Onward(dag, R) \in SUBSET Nodes /\ R \subseteq Onward(dag, R)
  BY DEF Onward
<1>2. R \subseteq Least(dag, R) /\ ClosedIn(dag, Least(dag, R))
  BY DEF Least, ClosedIn
<1>3. Onward(dag, R) = R => ClosedIn(dag, R)
  BY DEF Onward, ClosedIn
<1>4. Onward(dag, R) = R => Least(dag, R) = R
  BY <1>2, <1>3 DEF Least
<1>5. \A A \in SUBSET Nodes : ClosedIn(dag, A) => (Onward(dag, R) \subseteq A <=> R \subseteq A)
  BY DEF Onward, ClosedIn
<1>6. Least(dag, Onward(dag, R)) = Least(dag, R)
  BY <1>5 DEF Least
<1>. QED
  BY <1>1, <1>2, <1>4, <1>6

LEMMA ReachIsLeast ==
  ASSUME NEW dag \in [Nodes -> SUBSET Nodes], NEW f, IsReach(f, dag), NEW R \in SUBSET Nodes
  PROVE  f[R] = Least(dag, R)
<1> DEFINE Bad == {S \in SUBSET Nodes : f[Nodes \ S] # Least(dag, Nodes \ S)}
<1>1. SUFFICES ASSUME Bad # {} PROVE FALSE
  <2>1. SUFFICES ASSUME f[R] # Least(dag, R) PROVE Bad # {}
    BY <1>1
  <2>2. Nodes \ (Nodes \ R) = R
    OBVIOUS
  <2>. QED
    BY <2>1, <2>2
<1>2. PICK S \in Bad : \A U \in Bad : U \subseteq S => U = S
  <2>1. Bad \subseteq SUBSET Nodes
    OBVIOUS
  <2> HIDE DEF Bad
  <2>. QED
    BY <1>1, <2>1, NodeFacts, MinimalSubset
<1> DEFINE Q == Nodes \ S
<1>3. Q \in SUBSET Nodes /\ f[Q] # Least(dag, Q)
  BY <1>2
<1>4. f[Q] = IF Onward(dag, Q) = Q THEN Q ELSE f[Onward(dag, Q)]
  BY <1>3 DEF IsReach
<1>5. Onward(dag, Q) # Q
  BY <1>3, <1>4, LeastFacts
<1>6. /\ Onward(dag, Q) \in SUBSET Nodes /\ Q \subseteq Onward(dag, Q)
      /\ Least(dag, Onward(dag, Q)) = Least(dag, Q)
  BY <1>3, LeastFacts
<1>7. f[Onward(dag, Q)] # Least(dag, Onward(dag, Q))
  BY <1>3, <1>4, <1>5, <1>6
<1> DEFINE U == Nodes \ Onward(dag, Q)
<1>8. U \subseteq S /\ U # S /\ Nodes \ U = Onward(dag, Q)
  BY <1>2, <1>5, <1>6
<1>9. U \in Bad
  BY <1>7, <1>8
<1>. QED
  BY <1>2, <1>8, <1>9

LEMMA ReachedIsLeast ==
  ASSUME NEW dag \in [Nodes -> SUBSET Nodes], NEW t \in Nodes
  PROVE  /\ ClosedIn(dag, Reached(dag, t, {})) /\ t \in Reached(dag, t, {})
         /\ \A A : ClosedIn(dag, A) /\ t \in A => Reached(dag, t, {}) \subseteq A
<1> DEFINE up == CHOOSE f : f = [R \in SUBSET Nodes |->
              LET next == R \cup UNION {dag[x] : x \in R \ {}}
              IN  IF next = R THEN R ELSE f[next]]
           least == [R \in SUBSET Nodes |-> Least(dag, R)]
<1>1. Reached(dag, t, {}) = up[{t}]
  BY DEF Reached
<1>2. IsReach(least, dag)
  <2>1. ASSUME NEW R \in SUBSET Nodes
        PROVE  least[R] = IF Onward(dag, R) = R THEN R ELSE least[Onward(dag, R)]
    <3>1. /\ Onward(dag, R) \in SUBSET Nodes /\ Least(dag, Onward(dag, R)) = Least(dag, R)
          /\ Onward(dag, R) = R => Least(dag, R) = R
      BY LeastFacts
    <3>. QED
      BY <3>1
  <2> HIDE DEF least
  <2>2. least = [R \in SUBSET Nodes |-> least[R]]
    BY DEF least
  <2>. QED
    BY <2>1, <2>2 DEF IsReach
<1>3. IsReach(up, dag)
  <2>1. up = CHOOSE f : IsReach(f, dag)
    BY DEF IsReach, Onward
  <2> HIDE DEF up, least
  <2>. QED
    BY <1>2, <2>1
<1> HIDE DEF up, least
<1>4. Reached(dag, t, {}) = Least(dag, {t})
  BY <1>1, <1>3, ReachIsLeast
<1>5. {t} \subseteq Least(dag, {t}) /\ ClosedIn(dag, Least(dag, {t}))
  BY LeastFacts
<1>6. \A A : ClosedIn(dag, A) /\ t \in A => Least(dag, {t}) \subseteq A
  BY DEF Least, ClosedIn
<1>. QED
  BY <1>4, <1>5, <1>6

-----------------------------------------------------------------------------
(* What a transaction brings and gives away it takes, of each kind and     *)
(* from each set of transfers that holds, with it, what it takes from.     *)

Part(S, kind, A)  == {k \in S : k.kind = kind /\ k.source \in A}
Gives(t, kind, A) == IF plan[t].kind = kind /\ t \in A THEN plan[t].gives ELSE 0
Mints(t, A)       == IF t \in Inflations /\ t \in A THEN minted[t] ELSE 0

TokensBalance(t) ==
  \A A \in SUBSET Nodes : (t \in A => parents[t] \subseteq A) =>
     Total(Part(plan[t].brings, "token", A)) + Gives(t, "token", A)
       <= Total(Part(plan[t].takes, "token", A)) + Mints(t, A)
RightsBalance(t) ==
  Total(Part(plan[t].brings, "right", Nodes)) + Gives(t, "right", Nodes) + Mints(t, Nodes)
    <= Total(Part(plan[t].takes, "right", Nodes))

LEMMA PartSums ==
  ASSUME NEW S, Summable(S), NEW kind, NEW A
  PROVE  /\ Part(S, kind, A) \subseteq S /\ Summable(Part(S, kind, A))
         /\ Total(Part(S, kind, A)) \in Nat /\ Total(Part(S, kind, A)) <= Total(S) /\ Total(S) \in Nat
<1>1. Part(S, kind, A) \subseteq S
  BY DEF Part
<1>. QED
  BY <1>1, TotalOfPart

(* Moving what is not used keeps its amount.                               *)
LEMMA MovedPart ==
  ASSUME TypeInv, CoreInv, NEW hosts, hosts \subseteq InputUnspents,
         NEW takes, takes = UNION {On(u) : u \in hosts},
         NEW used, used \subseteq takes, NEW fresh, Summable(fresh), NEW to, NEW t, NEW kind, NEW A
  PROVE  /\ Total(Part(fresh \cup Moved(takes \ used, to, t), kind, A)) + Total(Part(used, kind, A))
              <= Total(Part(fresh, kind, A)) + Total(Part(takes, kind, A))
         /\ Total(Part(fresh \cup Moved(takes \ used, to, t), kind, A)) \in Nat
         /\ Total(Part(used, kind, A)) \in Nat /\ Total(Part(fresh, kind, A)) \in Nat
         /\ Total(Part(takes, kind, A)) \in Nat
<1> DEFINE rest == Part(takes \ used, kind, A)
           moved == Moved(rest, to, t)
<1>1. Summable(takes) /\ Summable(used) /\ Summable(takes \ used)
  BY AllocsSummable DEF On, TypeInv
<1>2. Summable(rest) /\ Total(rest) \in Nat /\ Total(Part(takes, kind, A)) \in Nat
      /\ Total(Part(used, kind, A)) \in Nat /\ Total(Part(fresh, kind, A)) \in Nat
      /\ Summable(Part(takes, kind, A)) /\ Summable(Part(fresh, kind, A))
  BY <1>1, PartSums
<1>3. Total(Part(takes, kind, A)) = Total(Part(used, kind, A)) + Total(rest)
  <2>1. Part(used, kind, A) \subseteq Part(takes, kind, A)
        /\ Part(takes, kind, A) \ Part(used, kind, A) = rest
    BY DEF Part
  <2> HIDE DEF rest
  <2>. QED
    BY <1>2, <2>1, TotalSplit
<1>4. Summable(moved) /\ Total(moved) = Total(rest)
  <2>1. rest \subseteq takes
    BY DEF Part
  <2>2. \A j, k \in takes : Same(j, k) => j = k
    BY InputFacts
  <2>. QED
    BY <1>2, <2>1, <2>2, MovedTotal
<1>5. Part(fresh \cup Moved(takes \ used, to, t), kind, A) = Part(fresh, kind, A) \cup moved
  <2>1. \A extra : Moved(extra, to, t) = {MovedTo(k, to, t) : k \in extra}
    BY DEF Moved, MovedTo
  <2>2. \A k : MovedTo(k, to, t).kind = k.kind /\ MovedTo(k, to, t).source = k.source
    BY DEF MovedTo
  <2>3. Part({MovedTo(k, to, t) : k \in takes \ used}, kind, A) = {MovedTo(k, to, t) : k \in rest}
    BY <2>2 DEF Part
  <2>4. \A S, T : Part(S \cup T, kind, A) = Part(S, kind, A) \cup Part(T, kind, A)
    BY DEF Part
  <2>5. moved = {MovedTo(k, to, t) : k \in rest}
        /\ Moved(takes \ used, to, t) = {MovedTo(k, to, t) : k \in takes \ used}
    BY <2>1
  <2> HIDE DEF rest, moved
  <2>6. Part(Moved(takes \ used, to, t), kind, A) = moved
    BY <2>3, <2>5
  <2>. QED
    BY <2>4, <2>6
<1> HIDE DEF rest, moved
<1>6. /\ Total(Part(fresh, kind, A) \cup moved) <= Total(Part(fresh, kind, A)) + Total(moved)
      /\ Total(Part(fresh, kind, A) \cup moved) \in Nat
  BY <1>2, <1>4, TotalOfBoth
<1>7. Total(Part(fresh \cup Moved(takes \ used, to, t), kind, A)) = Total(Part(fresh, kind, A) \cup moved)
  BY <1>5
<1>. QED
  BY <1>2, <1>3, <1>4, <1>6, <1>7

LEMMA InflationBalance ==
  ASSUME TypeInv, CoreInv, NEW i \in Inflations, NEW amount \in Nat, NEW hosts \in SUBSET External,
         NEW fee \in Free, NEW used \in SUBSET allocs, NEW to,
         Inflates(i, amount, hosts, fee, used, to)
  PROVE  /\ TokensBalance(i)' /\ RightsBalance(i)'
         /\ parents' = [parents EXCEPT ![i] = {k.source : k \in used}] /\ used \subseteq plan'[i].takes
<1> DEFINE takes == UNION {On(u) : u \in hosts}
           token == Alloc(<<i, 1>>, "token", amount, i)
           rest  == Change("right", Total(used) - amount, to, i)
           fresh == {token} \cup rest
           X     == OfKindOn(hosts, "right")
<1>1. /\ hosts \subseteq InputUnspents /\ i \in Outgoing /\ i \in Nodes /\ TypeOK /\ FiniteInv
      /\ amount \in Nat \ {0}
  BY HostFacts, NodeFacts DEF Inflates, Outgoing, TypeInv
<1>2. /\ plan'[i] = [takes |-> takes, brings |-> fresh \cup Moved(takes \ used, to, i),
                     kind |-> "token", gives |-> 0]
      /\ parents' = [parents EXCEPT ![i] = {k.source : k \in used}]
      /\ minted'[i] = amount
  <2>1. plan = [x \in Outgoing |-> plan[x]] /\ minted \in [Minters -> Nat] /\ i \in Minters
    BY DEF TypeInv, IInv, AllocInv, TypeOK, Minters
  <2>2. Prepares(i, hosts, {fee}, used, to, fresh, "token", 0) /\ minted' = [minted EXCEPT ![i] = amount]
    BY DEF Inflates
  <2>. QED
    BY <1>1, <2>1, <2>2 DEF Prepares
<1>3. X \subseteq takes /\ X \subseteq allocs /\ takes \subseteq allocs
      /\ \A k \in X : k.kind = "right" /\ k.source \in Nodes
  BY <1>1 DEF OfKindOn, Of, On, TypeOK, Allocations
<1>4. used \subseteq X /\ Total(used) >= amount /\ Total(used) \in Nat
  <2>1. Summable(X) /\ Total(X) >= amount /\ Total(used) \in Nat /\ Total(X) \in Nat
    BY <1>1, <1>3, AllocsSummable, SelectionReaches DEF Inflates
  <2>2. used \subseteq X /\ (Total(used) >= amount \/ used = X)
    BY <2>1, ContributingTotal DEF Inflates
  <2>. QED
    BY <2>1, <2>2
<1>5. Summable({token}) /\ Total({token}) = amount
  <2>1. token.amount = amount
    BY DEF Alloc
  <2> HIDE DEF token
  <2>. QED
    BY <2>1, TotalOfOne
<1>6. Summable(rest) /\ Total(rest) = Total(used) - amount
  BY <1>4, ChangeTotal
<1>7. Summable(fresh)
  BY <1>5, <1>6, TotalOfBoth
<1>8. /\ token.kind = "token" /\ token.source = i
      /\ \A k \in rest : k.kind = "right" /\ k.source = i
  BY DEF Alloc, Change
<1>9. used \subseteq takes
  BY <1>3, <1>4
<1> HIDE DEF takes, token, rest, fresh, X
<1>10. ASSUME NEW kind, NEW A
       PROVE  /\ Total(Part(plan'[i].brings, kind, A)) + Total(Part(used, kind, A))
                   <= Total(Part(fresh, kind, A)) + Total(Part(plan'[i].takes, kind, A))
              /\ Total(Part(plan'[i].brings, kind, A)) \in Nat
              /\ Total(Part(used, kind, A)) \in Nat /\ Total(Part(fresh, kind, A)) \in Nat
              /\ Total(Part(plan'[i].takes, kind, A)) \in Nat
  <2>1. plan'[i].brings = fresh \cup Moved(takes \ used, to, i) /\ plan'[i].takes = takes
    BY <1>2
  <2>2. takes = UNION {On(u) : u \in hosts}
    BY DEF takes
  <2>. QED
    BY <1>1, <1>7, <1>9, <2>1, <2>2, MovedPart
<1>11. RightsBalance(i)'
  <2>1. Part(fresh, "right", Nodes) = rest
    BY <1>1, <1>8 DEF Part, fresh
  <2>2. Part(used, "right", Nodes) = used
    BY <1>3, <1>4 DEF Part
  <2>3. Gives(i, "right", Nodes)' = 0 /\ Mints(i, Nodes)' = amount
    BY <1>1, <1>2 DEF Gives, Mints
  <2>4. Total(Part(plan'[i].brings, "right", Nodes)) + Total(used)
           <= Total(used) - amount + Total(Part(plan'[i].takes, "right", Nodes))
    BY <1>6, <1>10, <2>1, <2>2
  <2>5. Total(Part(plan'[i].brings, "right", Nodes)) + Gives(i, "right", Nodes)' + Mints(i, Nodes)'
           <= Total(Part(plan'[i].takes, "right", Nodes))
    BY <1>4, <1>10, <2>3, <2>4
  <2>. QED
    BY <2>5 DEF RightsBalance
<1>12. TokensBalance(i)'
  <2>1. ASSUME NEW A \in SUBSET Nodes
        PROVE  Total(Part(plan'[i].brings, "token", A)) + Gives(i, "token", A)'
                 <= Total(Part(plan'[i].takes, "token", A)) + Mints(i, A)'
    <3>1. Gives(i, "token", A)' = 0 /\ Mints(i, A)' = IF i \in A THEN amount ELSE 0
      BY <1>2 DEF Gives, Mints
    <3>2. Part(fresh, "token", A) = IF i \in A THEN {token} ELSE {}
      BY <1>8 DEF Part, fresh
    <3>3. Total(Part(fresh, "token", A)) = IF i \in A THEN amount ELSE 0
      BY <1>5, <3>2, TotalOfOne
    <3>. QED
      BY <1>10, <3>1, <3>3
  <2>. QED
    BY <2>1 DEF TokensBalance, Part
<1>. QED
  BY <1>2, <1>9, <1>11, <1>12

LEMMA SendBalance ==
  ASSUME TypeInv, CoreInv, RetryInv, NEW s \in Sends, sending.send = s,
         NEW hosts \in SUBSET External, NEW used \in SUBSET allocs, NEW fee \in SUBSET Free,
         hosts \in SelectRgbInputs(sending.kind, sending.needed),
         used \in Contributing(Allowed(hosts), sending.needed), minted' = minted,
         NEW to, Drafted(s, hosts, used, fee, to)
  PROVE  /\ TokensBalance(s)' /\ RightsBalance(s)'
         /\ parents' = [parents EXCEPT ![s] = {k.source : k \in used}] /\ used \subseteq plan'[s].takes
<1> DEFINE takes == UNION {On(u) : u \in hosts}
           fresh == SendChange(s, used, to)
<1>1. /\ hosts \subseteq InputUnspents /\ s \in Outgoing /\ s \in Nodes /\ s \notin Inflations /\ TypeOK
      /\ FiniteInv
  BY HostFacts, NodeFacts, AssetAssumption DEF Outgoing, TypeInv
<1>2. /\ plan'[s] = [takes |-> takes, brings |-> fresh \cup Moved(takes \ used, to, s),
                     kind |-> sending.kind, gives |-> sending.need]
      /\ parents' = [parents EXCEPT ![s] = {k.source : k \in used}]
  <2>1. plan = [x \in Outgoing |-> plan[x]]
    BY DEF TypeInv, IInv, AllocInv
  <2>. QED
    BY <1>1, <2>1 DEF Prepares, Drafted
<1>3. /\ used \subseteq takes /\ \A k \in used : k.kind = sending.kind /\ k.source \in Nodes
      /\ Total(used) >= sending.need /\ Total(used) \in Nat /\ sending.need \in Nat
  BY <1>1, UsedSuffices DEF OfKindOn, Of, On, TypeOK, Allocations
<1>4. /\ Summable(fresh) /\ Total(fresh) = Total(used) - sending.need
      /\ \A k \in fresh : k.kind = sending.kind /\ k.source = s
  <2>1. Total(used) - sending.need \in Nat
    BY <1>3
  <2>2. Summable(fresh) /\ Total(fresh) = Total(used) - sending.need
    BY <2>1, ChangeTotal DEF SendChange
  <2>3. \A k \in fresh : k.kind = sending.kind /\ k.source = s
    BY DEF SendChange, Change, Alloc
  <2>. QED
    BY <2>2, <2>3
<1>5. parents'[s] = {k.source : k \in used}
  BY <1>1, <1>2 DEF TypeOK
<1> HIDE DEF takes, fresh
<1>6. ASSUME NEW kind, NEW A
      PROVE  /\ Total(Part(plan'[s].brings, kind, A)) + Total(Part(used, kind, A))
                  <= Total(Part(fresh, kind, A)) + Total(Part(plan'[s].takes, kind, A))
             /\ Total(Part(plan'[s].brings, kind, A)) \in Nat
             /\ Total(Part(used, kind, A)) \in Nat /\ Total(Part(fresh, kind, A)) \in Nat
             /\ Total(Part(plan'[s].takes, kind, A)) \in Nat
  <2>1. plan'[s].brings = fresh \cup Moved(takes \ used, to, s) /\ plan'[s].takes = takes
    BY <1>2
  <2>2. takes = UNION {On(u) : u \in hosts}
    BY DEF takes
  <2>3. hosts \subseteq InputUnspents /\ Summable(fresh) /\ used \subseteq takes
    BY <1>1, <1>3, <1>4
  <2> DEFINE brought == fresh \cup Moved(takes \ used, to, s)
  <2>4. /\ Total(Part(brought, kind, A)) + Total(Part(used, kind, A))
              <= Total(Part(fresh, kind, A)) + Total(Part(takes, kind, A))
        /\ Total(Part(brought, kind, A)) \in Nat
        /\ Total(Part(used, kind, A)) \in Nat /\ Total(Part(fresh, kind, A)) \in Nat
        /\ Total(Part(takes, kind, A)) \in Nat
    BY <2>2, <2>3, MovedPart
  <2>. QED
    BY <2>1, <2>4
<1>7. ASSUME NEW kind, NEW A \in SUBSET Nodes, s \in A => parents'[s] \subseteq A
      PROVE  Total(Part(plan'[s].brings, kind, A)) + Gives(s, kind, A)'
               <= Total(Part(plan'[s].takes, kind, A))
  <2>1. CASE kind = sending.kind /\ s \in A
    <3>1. Part(used, kind, A) = used /\ Part(fresh, kind, A) = fresh
      BY <1>3, <1>4, <1>5, <1>7, <2>1 DEF Part
    <3>2. Gives(s, kind, A)' = sending.need
      BY <1>2, <2>1 DEF Gives
    <3>. QED
      BY <1>3, <1>4, <1>6, <3>1, <3>2
  <2>2. CASE kind # sending.kind \/ s \notin A
    <3>1. Part(fresh, kind, A) = {}
      BY <1>4, <2>2 DEF Part
    <3>2. Gives(s, kind, A)' = 0 /\ Total(Part(fresh, kind, A)) = 0
      BY <1>2, <2>2, <3>1, TotalOfOne DEF Gives
    <3>. QED
      BY <1>6, <3>2
  <2>. QED
    BY <2>1, <2>2
<1>8. \A A : Mints(s, A)' = 0
  BY <1>1 DEF Mints
<1>9. \A x \in Nodes : parents'[x] \subseteq Nodes
  BY <1>1, <1>2, <1>3 DEF TypeOK
<1>10. TokensBalance(s)'
  <2>1. ASSUME NEW A \in SUBSET Nodes, s \in A => parents'[s] \subseteq A
        PROVE  Total(Part(plan'[s].brings, "token", A)) + Gives(s, "token", A)'
                 <= Total(Part(plan'[s].takes, "token", A)) + Mints(s, A)'
    BY <1>6, <1>7, <1>8, <2>1
  <2>. QED
    BY <2>1 DEF TokensBalance
<1>11. RightsBalance(s)'
  <2>1. Total(Part(plan'[s].brings, "right", Nodes)) + Gives(s, "right", Nodes)' + Mints(s, Nodes)'
          <= Total(Part(plan'[s].takes, "right", Nodes))
    <3>1. Total(Part(plan'[s].brings, "right", Nodes)) + Gives(s, "right", Nodes)'
            <= Total(Part(plan'[s].takes, "right", Nodes))
      BY <1>1, <1>7, <1>9
    <3>2. Gives(s, "right", Nodes)' \in Nat
      BY <1>2, <1>3 DEF Gives
    <3>. QED
      BY <1>6, <1>8, <3>1, <3>2
  <2>. QED
    BY <2>1 DEF RightsBalance
<1>. QED
  BY <1>2, <1>3, <1>10, <1>11

-----------------------------------------------------------------------------
(* The steps, as far as supply and history are concerned.                  *)

(* The steps that change neither: chain, bookkeeping, and rounds of        *)
(* send_begin that prepare nothing.                                        *)
Calm ==
  /\ UNCHANGED <<allocs, plan, known, stock, minted, parents, others>>
  /\ \A t \in Outgoing : /\ tx'[t] = "prepared" <=> tx[t] = "prepared"
                         /\ tx'[t] = "none" <=> tx[t] = "none"
  /\ \A r \in Receives : status'[r] = status[r]

(* Those that prepare a transaction.                                       *)
Drafts(t) ==
  /\ tx[t] = "none" /\ tx' = [tx EXCEPT ![t] = "prepared"]
  /\ UNCHANGED <<allocs, rows, status, known, others, panicked>>
  /\ \A x \in Outgoing \ {t} : plan'[x] = plan[x]
  /\ \A x \in Minters \ {t} : minted'[x] = minted[x]
  /\ \A x \in Nodes \ {t} : parents'[x] = parents[x]
  /\ \A p \in parents'[t] : \E k \in plan'[t].takes : k.source = p
  /\ stock' = stock \cup (Inflations \cap {t})
  /\ TokensBalance(t)' /\ RightsBalance(t)'

LEMMA InflateDrafts ==
  ASSUME TypeInv, CoreInv, NEW i \in Inflations, InflateBegin(i) PROVE Drafts(i)
<1>0. PICK amount \in Nat, hosts \in SUBSET External, fee \in Free, used \in SUBSET allocs :
         \E to : Inflates(i, amount, hosts, fee, used, to)
  BY InflateFacts
<1>1. PICK to : Inflates(i, amount, hosts, fee, used, to)
  BY <1>0
<1>2. /\ TokensBalance(i)' /\ RightsBalance(i)'
      /\ parents' = [parents EXCEPT ![i] = {k.source : k \in used}] /\ used \subseteq plan'[i].takes
  BY <1>1, InflationBalance
<1>3. Prepares(i, hosts, {fee}, used, to,
        {Alloc(<<i, 1>>, "token", amount, i)}
          \cup Change("right", Total(used) - amount, to, i), "token", 0)
      /\ minted' = [minted EXCEPT ![i] = amount]
  BY <1>1 DEF Inflates
<1>4. /\ plan = [x \in Outgoing |-> plan[x]] /\ minted \in [Minters -> Nat]
      /\ parents \in [Nodes -> SUBSET Nodes] /\ i \in Nodes
  BY NodeFacts DEF TypeInv, IInv, AllocInv, TypeOK, Minters, Outgoing
<1>5. tx' = [tx EXCEPT ![i] = "prepared"] /\ \A x \in Outgoing \ {i} : plan'[x] = plan[x]
  BY <1>3, <1>4 DEF Prepares
<1>6. /\ tx[i] = "none" /\ stock' = stock \cup {i}
      /\ UNCHANGED <<allocs, rows, status, known, others, panicked>>
  BY DEF InflateBegin
<1>7. \A x \in Minters \ {i} : minted'[x] = minted[x]
  BY <1>3, <1>4
<1>8. /\ \A x \in Nodes \ {i} : parents'[x] = parents[x]
      /\ \A p \in parents'[i] : \E k \in plan'[i].takes : k.source = p
  BY <1>2, <1>4
<1>. QED
  BY <1>2, <1>5, <1>6, <1>7, <1>8 DEF Drafts

LEMMA AttemptDrafts ==
  ASSUME TypeInv, CoreInv, RetryInv, NEW s \in Sends, SendAttempt(s) PROVE Calm \/ Drafts(s)
<1>1. /\ sending.send = s /\ tx[s] = "none" /\ s \in Outgoing /\ s \notin Inflations
      /\ UNCHANGED <<rows, panicked, allocs, known, stock, minted, others>>
  BY AssetAssumption DEF SendAttempt, TypeInv, SendInv, Outgoing
<1>2. ASSUME UNCHANGED <<tx, plan, parents>>, \A r \in Receives : status'[r] = status[r] PROVE Calm
  BY <1>1, <1>2 DEF Calm
<1>3. CASE RefusesSend(s)
  <2>1. \A r \in Receives : status'[r] = status[r]
    BY <1>1, <1>3, NodeFacts DEF RefusesSend, TypeInv, TypeOK
  <2>. QED
    BY <1>2, <1>3, <2>1 DEF RefusesSend
<1>4. ASSUME NEW hosts \in SUBSET External, NEW used \in SUBSET allocs, NEW fee \in SUBSET Free,
             Attempts(s, hosts, used, fee)
      PROVE  Calm \/ Drafts(s)
  <2>1. CASE UNCHANGED <<tx, inputs, plan, parents>>
    BY <1>2, <1>4, <2>1 DEF Attempts
  <2>2. ASSUME NEW to, Drafted(s, hosts, used, fee, to) PROVE Calm \/ Drafts(s)
    <3>1. /\ TokensBalance(s)' /\ RightsBalance(s)'
          /\ parents' = [parents EXCEPT ![s] = {k.source : k \in used}] /\ used \subseteq plan'[s].takes
      BY <1>1, <1>4, <2>2, SendBalance DEF Attempts
    <3>2. plan = [x \in Outgoing |-> plan[x]] /\ parents \in [Nodes -> SUBSET Nodes] /\ s \in Nodes
      BY <1>1, NodeFacts DEF TypeInv, IInv, AllocInv, TypeOK
    <3>3. tx' = [tx EXCEPT ![s] = "prepared"] /\ \A x \in Outgoing \ {s} : plan'[x] = plan[x]
      BY <2>2, <3>2 DEF Prepares, Drafted
    <3>4. /\ \A x \in Nodes \ {s} : parents'[x] = parents[x]
          /\ \A p \in parents'[s] : \E k \in plan'[s].takes : k.source = p
      BY <3>1, <3>2
    <3>5. status' = status /\ stock' = stock \cup (Inflations \cap {s})
      BY <1>1, <1>4 DEF Attempts
    <3>. QED
      BY <1>1, <3>1, <3>3, <3>4, <3>5 DEF Drafts
  <2>. QED
    BY <1>4, <2>1, <2>2 DEF Attempts
<1>. QED
  BY <1>3, <1>4, AttemptFacts

LEMMA SupplySteps ==
  ASSUME TypeInv, CoreInv, RetryInv, [Next]_vars
  PROVE  \/ Calm \/ IssueAssetIfa \/ IssuedElsewhere
         \/ (\E o \in OthersInflations : OthersInflate(o))
         \/ (\E r \in Receives : WaitConsignment(r)) \/ (\E r \in Receives : ReceiveSettles(r))
         \/ (\E t \in Outgoing : Drafts(t)) \/ (\E t \in Outgoing : EndBroadcast(t))
<1>1. ChainTypeOK /\ AssetTypeOK
      /\ \A t \in Outgoing : t \in Txs /\ t \in Colored /\ t \notin Receives
      /\ \A r \in Receives : r \in Txs /\ r \in Colored /\ r \notin Outgoing
  BY ColoredOutputs, ReceivedOutput, NodeFacts, TypeParts DEF TypeInv, TypeOK
<1>2. ASSUME UNCHANGED <<allocs, plan, known, stock, minted, parents, others, tx, status>> PROVE Calm
  BY <1>2 DEF Calm
<1>3. ASSUME NEW t \in Txs, Index(t), UNCHANGED assetVars PROVE Calm
  BY <1>1, <1>3 DEF Index, assetVars, ChainTypeOK, Calm
<1>4. ASSUME VanillaNext, UNCHANGED assetVars PROVE Calm
  BY <1>1, <1>4, VanillaQuiet DEF assetVars, Calm
<1>5. ASSUME NEW r \in Receives, Pay(r) PROVE Calm
  BY <1>1, <1>5 DEF Pay, Paid, assetVars, Calm, ChainTypeOK
<1>6. ASSUME NEW t \in Outgoing, OutgoingSettles(t) PROVE Calm
  <2>1. /\ status' = [status EXCEPT ![t] = "Settled"]
        /\ UNCHANGED <<allocs, plan, known, stock, minted, parents, others, tx>>
    BY <1>6 DEF OutgoingSettles, chainVars
  <2>. QED
    BY <1>1, <2>1 DEF Calm, AssetTypeOK
<1>7. CASE SendAborted \/ \E s \in Sends : SendBegin(s)
  BY <1>2, <1>7 DEF SendAborted, SendBegin, chainVars
<1>8. CASE UNCHANGED vars
  BY <1>2, <1>8 DEF vars, chainVars, assetVars
<1>9. \A i \in Inflations : InflateBegin(i) => i \in Outgoing /\ Drafts(i)
  BY InflateDrafts DEF Outgoing
<1>10. \A s \in Sends : SendAttempt(s) => s \in Outgoing /\ (Calm \/ Drafts(s))
  BY AttemptDrafts DEF Outgoing
<1>. QED
  BY <1>3, <1>4, <1>5, <1>6, <1>7, <1>8, <1>9, <1>10 DEF Next, NetworkNext, Outgoing

-----------------------------------------------------------------------------
(* The transfers that have happened, and of those that the wallet does not *)
(* hear of through its own, the inflations; what others hold comes from    *)
(* them and so does what any of them spends.                               *)

Minted   == {o \in OthersInflations : minted[o] > 0}
Happened == {Issue} \cup Minted \cup Begun
(* The inflations that count, whether the wallet knows of them or not.     *)
Done     == OthersInflations \cup {i \in Inflations : Public(i)}

HistoryInv ==
  /\ \A x \in Happened : parents[x] \subseteq Happened
  /\ \A x \in Nodes \ Happened : parents[x] = {} \/ (x \in Outgoing /\ tx[x] = "prepared")
  /\ \A t \in Outgoing : tx[t] = "prepared" => \A p \in parents[t] : \E k \in plan[t].takes : k.source = p
  /\ parents[Issue] = {}
  /\ \A kind \in Kinds, o \in Origins : others[kind][o] > 0 => o \in Happened
  /\ \A k \in allocs : k.by \in {Issue} \cup Receives => k.source = k.by

LEMMA HappenedFacts ==
  /\ Happened \subseteq Nodes /\ Issue \in Happened
  /\ \A t \in Outgoing : t \in Happened <=> Public(t)
  /\ \A r \in Receives : r \in Happened <=> status[r] # "none"
  /\ \A o \in OthersInflations : o \in Happened <=> minted[o] > 0
<1>1. /\ \A t \in Outgoing : t \notin Receives \cup OthersInflations \cup {Issue} /\ t \in Nodes
      /\ \A r \in Receives : r \notin Outgoing \cup OthersInflations \cup {Issue} /\ r \in Nodes
      /\ \A o \in OthersInflations : o \notin Outgoing \cup Receives \cup {Issue} /\ o \in Nodes
  BY NodeFacts, AssetAssumption DEF Nodes, Txs
<1>. QED
  BY <1>1, NodeFacts DEF Happened, Minted, Begun

(* If these are as they were, the history is.                              *)
LEMMA SameHappened ==
  ASSUME \A t \in Outgoing : Public(t)' <=> Public(t),
         \A r \in Receives : status'[r] = "none" <=> status[r] = "none",
         \A o \in OthersInflations : minted'[o] = minted[o]
  PROVE  Happened' = Happened /\ Done' = Done
<1>1. Inflations \subseteq Outgoing
  BY DEF Outgoing
<1>. QED
  BY <1>1 DEF Happened, Minted, Begun, Done

LEMMA CalmHappened ==
  ASSUME TypeInv, [Next]_vars, Calm
  PROVE  /\ Happened' = Happened /\ Done' = Done
<1>1. ChainTypeOK /\ ChainTypeOK' /\ \A t \in Outgoing : t \in Txs
  BY TypeInvStep, ColoredOutputs DEF TypeInv, TypeOK
<1>2. \A t \in Outgoing : Public(t)' <=> Public(t)
  BY <1>1 DEF Public, ChainTypeOK, TxStates, Calm
<1>. QED
  BY <1>2, SameHappened DEF Calm

LEMMA DraftHappened ==
  ASSUME TypeInv, NEW t \in Outgoing, Drafts(t)
  PROVE  Happened' = Happened /\ Done' = Done /\ t \notin Happened
<1>1. tx \in [Txs -> TxStates] /\ \A x \in Outgoing : x \in Txs
  BY ColoredOutputs DEF TypeInv, TypeOK, ChainTypeOK
<1>2. \A x \in Outgoing : Public(x)' <=> Public(x)
  BY <1>1 DEF Public, Drafts
<1>3. \A o \in OthersInflations : minted'[o] = minted[o]
  BY NodeFacts DEF Drafts, Minters
<1>. QED
  BY <1>2, <1>3, SameHappened, HappenedFacts DEF Drafts, Public

LEMMA SettleHappened ==
  ASSUME TypeInv, NEW r \in Receives, ReceiveSettles(r)
  PROVE  /\ Happened' = Happened /\ Done' = Done
         /\ status' = [status EXCEPT ![r] = "Settled"] /\ status[r] = "WaitingConfirmations"
<1>1. /\ status \in [Colored -> Statuses] /\ \A x \in Receives : x \in Colored
      /\ status[r] = "WaitingConfirmations" /\ status' = [status EXCEPT ![r] = "Settled"]
      /\ UNCHANGED <<tx, minted>>
  BY NodeFacts DEF TypeInv, TypeOK, ReceiveSettles
<1>2. \A x \in Receives : status'[x] = "none" <=> status[x] = "none"
  BY <1>1
<1>. QED
  BY <1>1, <1>2, SameHappened DEF Public

LEMMA WaitHappened ==
  ASSUME TypeInv, NEW r \in Receives, WaitConsignment(r)
  PROVE  Happened' = Happened \cup {r} /\ Done' = Done /\ r \notin Happened
<1>1. /\ status \in [Colored -> Statuses] /\ r \in Colored /\ status[r] = "none"
      /\ status' \in {[status EXCEPT ![r] = "WaitingConfirmations"], [status EXCEPT ![r] = "Failed"]}
      /\ UNCHANGED <<tx, minted>>
  BY NodeFacts DEF TypeInv, TypeOK, WaitConsignment
<1>2. Begun' = Begun \cup {r}
  <2>1. {x \in Receives : status'[x] # "none"} = {x \in Receives : status[x] # "none"} \cup {r}
    BY <1>1, NodeFacts
  <2>2. \A x : Public(x)' <=> Public(x)
    BY <1>1 DEF Public
  <2>. QED
    BY <2>1, <2>2 DEF Begun
<1>. QED
  BY <1>1, <1>2, HappenedFacts DEF Happened, Minted, Done, Public

LEMMA OthersHappened ==
  ASSUME TypeInv, NEW o \in OthersInflations, NEW from \in Origins, NEW amount \in Nat,
         OthersInflate(o), InflatesFrom(o, from, amount)
  PROVE  Happened' = Happened \cup {o} /\ Done' = Done /\ o \notin Happened
<1>1. /\ minted \in [Minters -> Nat] /\ minted' = [minted EXCEPT ![o] = amount] /\ amount > 0
      /\ minted[o] = 0 /\ UNCHANGED <<tx, status>> /\ OthersInflations \subseteq Minters
  BY DEF TypeInv, TypeOK, OthersInflate, InflatesFrom, chainVars, Minters
<1>2. Minted' = Minted \cup {o}
  BY <1>1 DEF Minted
<1>. QED
  BY <1>1, <1>2, HappenedFacts DEF Happened, Begun, Done, Public

LEMMA BroadcastHappened ==
  ASSUME TypeInv, NEW t \in Outgoing, EndBroadcast(t)
  PROVE  /\ Happened' = Happened \cup {t} /\ Done' = Done \cup (Inflations \cap {t})
         /\ t \notin Happened /\ t \notin Done
<1>1. Public(t)' /\ ~Public(t) /\ UNCHANGED minted
  BY BroadcastProgress, BroadcastFacts DEF TypeInv, TypeOK
<1>2. \A x \in Outgoing \ {t} : Public(x)' <=> Public(x)
  <2>1. ChainTypeOK /\ Published(t) /\ t \in Txs
    BY BroadcastFacts, ColoredOutputs DEF TypeInv, TypeOK
  <2>. QED
    BY <2>1, ColoredOutputs DEF Published, ChainTypeOK, Public
<1>3. \A r \in Receives : status'[r] = status[r]
  BY BroadcastFacts, NodeFacts DEF SavesAsset, TypeInv, TypeOK
<1>4. t \notin OthersInflations /\ Inflations \subseteq Outgoing
  BY NodeFacts DEF Outgoing
<1>5. Begun' = Begun \cup {t}
  BY <1>1, <1>2, <1>3 DEF Begun
<1>6. Done' = Done \cup (Inflations \cap {t}) /\ t \notin Done
  BY <1>1, <1>2, <1>4 DEF Done
<1>. QED
  BY <1>1, <1>5, <1>6, HappenedFacts DEF Happened, Minted

LEMMA HistoryInit == Init => HistoryInv
<1> SUFFICES ASSUME Init PROVE HistoryInv
  OBVIOUS
<1>1. /\ allocs = {}
      /\ \A x \in Nodes : parents[x] = {}
      /\ \A kind \in Kinds, o \in Origins : ~(others[kind][o] > 0)
  BY DEF Init
<1>2. \A t \in Outgoing : tx[t] # "prepared"
  BY ColoredOutputs DEF Init, ChainInit
<1>3. \A x \in Happened : parents[x] \subseteq Happened
  BY <1>1, HappenedFacts
<1>. QED
  BY <1>1, <1>2, <1>3, NodeFacts DEF HistoryInv

LEMMA CalmKeepsHistory ==
  ASSUME TypeInv, HistoryInv, [Next]_vars, Calm PROVE HistoryInv'
<1>1. Happened' = Happened
  BY CalmHappened
<1>. QED
  BY <1>1 DEF HistoryInv, Calm

LEMMA IssueKeepsHistory ==
  ASSUME HistoryInv, IssueAssetIfa \/ IssuedElsewhere, TypeInv PROVE HistoryInv'
<1>1. UNCHANGED <<tx, status, minted, parents, plan>>
  BY DEF IssueAssetIfa, IssuedElsewhere, chainVars
<1>2. Happened' = Happened
  BY <1>1, SameHappened DEF Public
<1>3. \A kind \in Kinds, o \in Origins : others'[kind][o] > 0 => o \in Happened
  <2>1. CASE IssueAssetIfa
    BY <2>1 DEF IssueAssetIfa, HistoryInv
  <2>2. CASE IssuedElsewhere
    <3>1. others' = [others EXCEPT !["token"][Issue] = IssuedTokens, !["right"][Issue] = IssuedRights]
      BY <2>2 DEF IssuedElsewhere
    <3>2. \A kind \in Kinds, o \in Origins : o # Issue => others'[kind][o] = others[kind][o]
      BY <3>1 DEF TypeInv, TypeOK, Kinds
    <3>. QED
      BY <3>2, HappenedFacts DEF HistoryInv
  <2>. QED
    BY <2>1, <2>2
<1>4. \A k \in allocs' : k.by \in {Issue} \cup Receives => k.source = k.by
  BY DEF IssueAssetIfa, IssuedElsewhere, Issued, Alloc, HistoryInv
<1>. QED
  BY <1>1, <1>2, <1>3, <1>4 DEF HistoryInv

(* One more transfer has happened, which descends from others that have.   *)
LEMMA OneMoreHappened ==
  ASSUME HistoryInv, NEW t \in Nodes, Happened' = Happened \cup {t}, t \notin Happened,
         \A x \in Nodes \ {t} : parents'[x] = parents[x], parents'[t] \subseteq Happened',
         plan' = plan, \A x \in Outgoing \ {t} : tx'[x] = "prepared" <=> tx[x] = "prepared",
         t \in Outgoing => tx'[t] # "prepared",
         \A kind \in Kinds, o \in Origins : others'[kind][o] > 0 => others[kind][o] > 0 \/ o = t,
         \A k \in allocs' : k \in allocs \/ (k.by \in {Issue} \cup Receives => k.source = k.by)
  PROVE  HistoryInv'
<1>1. t # Issue /\ Issue \in Nodes /\ Outgoing \subseteq Nodes /\ Happened \subseteq Nodes
  BY HappenedFacts, NodeFacts
<1>. QED
  BY <1>1 DEF HistoryInv

LEMMA OthersKeepHistory ==
  ASSUME TypeInv, HistoryInv, NEW o \in OthersInflations, OthersInflate(o) PROVE HistoryInv'
<1>1. PICK from \in Origins, amount \in Nat : InflatesFrom(o, from, amount)
  BY TypeParts, OthersFacts DEF TypeInv
<1>2. Happened' = Happened \cup {o} /\ o \notin Happened
  BY <1>1, OthersHappened
<1>3. from \in Happened
  <2>1. others["right"][from] > 0
    BY <1>1 DEF InflatesFrom, TypeInv, TypeOK, Kinds
  <2>. QED
    BY <2>1 DEF HistoryInv, Kinds
<1>4. parents' = [parents EXCEPT ![o] = {from}] /\ parents \in [Nodes -> SUBSET Nodes] /\ o \in Nodes
  BY <1>1 DEF InflatesFrom, TypeInv, TypeOK, Nodes
<1>5. \A kind \in Kinds, x \in Origins : others'[kind][x] > 0 => others[kind][x] > 0 \/ x = o
  <2>1. others' = [others EXCEPT !["token"][o] = amount, !["right"][from] = @ - amount]
        /\ amount \in Nat /\ amount <= others["right"][from] /\ others["right"][from] \in Nat
    BY <1>1 DEF InflatesFrom, TypeInv, TypeOK, Kinds
  <2>2. others["right"][from] - amount > 0 => others["right"][from] > 0
    BY <2>1
  <2>. QED
    BY <2>1, <2>2 DEF TypeInv, TypeOK, Kinds
<1>6. UNCHANGED <<tx, plan, allocs>>
  BY DEF OthersInflate, chainVars
<1>. QED
  BY <1>2, <1>3, <1>4, <1>5, <1>6, OneMoreHappened, NodeFacts DEF HistoryInv

LEMMA WaitKeepsHistory ==
  ASSUME TypeInv, HistoryInv, NEW r \in Receives, WaitConsignment(r) PROVE HistoryInv'
<1>1. PICK o \in Origins, kind \in Kinds, amount \in Nat : ReceivesFrom(r, o, kind, amount)
  BY TypeParts, WaitFacts DEF TypeInv
<1>2. Happened' = Happened \cup {r} /\ r \notin Happened
  BY WaitHappened
<1>3. o \in Happened
  <2>1. others[kind][o] > 0
    BY <1>1 DEF ReceivesFrom, TypeInv, TypeOK
  <2>. QED
    BY <2>1 DEF HistoryInv
<1>4. parents' = [parents EXCEPT ![r] = {o}] /\ parents \in [Nodes -> SUBSET Nodes] /\ r \in Nodes
  BY <1>1, NodeFacts DEF ReceivesFrom, TypeInv, TypeOK
<1>5. \A x \in Kinds, y \in Origins : others'[x][y] > 0 => others[x][y] > 0 \/ y = r
  <2>1. CASE UNCHANGED others
    BY <2>1
  <2>2. CASE others' = [others EXCEPT ![kind][o] = @ - amount]
    <3>1. others[kind][o] - amount > 0 => others[kind][o] > 0
      BY <1>1 DEF TypeInv, TypeOK
    <3>. QED
      BY <2>2, <3>1 DEF TypeInv, TypeOK
  <2>. QED
    BY <1>1, <2>1, <2>2 DEF ReceivesFrom, Accepts, Refuses
<1>6. UNCHANGED <<tx, plan>> /\ r \notin Outgoing
  BY NodeFacts DEF WaitConsignment
<1>7. \A k \in allocs' : k \in allocs \/ k.source = k.by
  BY <1>1 DEF ReceivesFrom, Accepts, Refuses, Received, Alloc
<1>. QED
  BY <1>2, <1>3, <1>4, <1>5, <1>6, <1>7, OneMoreHappened

LEMMA SettleKeepsHistory ==
  ASSUME TypeInv, HistoryInv, NEW r \in Receives, ReceiveSettles(r) PROVE HistoryInv'
<1>1. Happened' = Happened
  BY SettleHappened
<1>2. UNCHANGED <<tx, parents, plan, others, allocs>>
  BY DEF ReceiveSettles
<1>. QED
  BY <1>1, <1>2 DEF HistoryInv

LEMMA DraftKeepsHistory ==
  ASSUME TypeInv, HistoryInv, NEW t \in Outgoing, Drafts(t) PROVE HistoryInv'
<1>1. Happened' = Happened /\ t \notin Happened /\ t # Issue /\ t \in Nodes /\ Issue \in Nodes
  BY DraftHappened, HappenedFacts, NodeFacts
<1>2. /\ tx'[t] = "prepared" /\ \A x \in Outgoing \ {t} : tx'[x] = tx[x]
  BY ColoredOutputs DEF Drafts, TypeInv, TypeOK, ChainTypeOK
<1>3. /\ UNCHANGED <<allocs, others>>
      /\ \A x \in Happened : parents'[x] = parents[x]
      /\ \A x \in Nodes \ {t} : parents'[x] = parents[x]
      /\ \A x \in Outgoing \ {t} : plan'[x] = plan[x] /\ parents'[x] = parents[x]
      /\ \A p \in parents'[t] : \E k \in plan'[t].takes : k.source = p
  BY <1>1, HappenedFacts, NodeFacts DEF Drafts
<1>4. \A x \in Happened' : parents'[x] \subseteq Happened'
  BY <1>1, <1>3 DEF HistoryInv
<1>5. \A x \in Nodes \ Happened' : parents'[x] = {} \/ (x \in Outgoing /\ tx'[x] = "prepared")
  BY <1>1, <1>2, <1>3 DEF HistoryInv
<1>6. \A x \in Outgoing : tx'[x] = "prepared" => \A p \in parents'[x] : \E k \in plan'[x].takes : k.source = p
  BY <1>2, <1>3 DEF HistoryInv
<1>. QED
  BY <1>1, <1>3, <1>4, <1>5, <1>6 DEF HistoryInv

LEMMA BroadcastKeepsHistory ==
  ASSUME TypeInv, CoreInv, HistoryInv, NEW t \in Outgoing, EndBroadcast(t) PROVE HistoryInv'
<1>1. Happened' = Happened \cup {t} /\ t \notin Happened /\ t \in Nodes
  BY BroadcastHappened, NodeFacts
<1>2. /\ tx[t] = "prepared" /\ UNCHANGED <<plan, parents>> /\ GivesAway(t) /\ Published(t) /\ GoodPlan(t)
      /\ SavesAsset(t) \/ UNCHANGED allocs
  BY BroadcastFacts DEF CoreInv, PlanInv
<1>3. parents[t] \subseteq Happened
  <2>1. \A k \in plan[t].takes : k.source \in Happened
    BY <1>2 DEF GoodPlan, CoreInv, OriginInv, Happened
  <2>. QED
    BY <1>2, <2>1 DEF HistoryInv
<1>4. tx'[t] # "prepared" /\ \A x \in Outgoing \ {t} : tx'[x] = tx[x]
  BY <1>2, ColoredOutputs DEF Published, TypeInv, TypeOK, ChainTypeOK
<1>5. \A kind \in Kinds, o \in Origins : others'[kind][o] > 0 => others[kind][o] > 0 \/ o = t
  BY <1>2 DEF GivesAway, TypeInv, TypeOK
<1>6. \A k \in allocs' : k \in allocs \/ k.by = t
  BY <1>2 DEF SavesAsset, GoodPlan
<1>7. t \notin {Issue} \cup Receives
  BY NodeFacts
<1>. QED
  BY <1>1, <1>2, <1>3, <1>4, <1>5, <1>6, <1>7, OneMoreHappened

LEMMA PastStep ==
  ASSUME TypeInv, CoreInv, RetryInv, HistoryInv, [Next]_vars PROVE HistoryInv'
BY SupplySteps, CalmKeepsHistory, IssueKeepsHistory, OthersKeepHistory, WaitKeepsHistory,
   SettleKeepsHistory, DraftKeepsHistory, BroadcastKeepsHistory

-----------------------------------------------------------------------------
(* What is prepared balances; what has not begun has minted nothing; the   *)
(* stock has heard of inflations that happened or are prepared.            *)

BalanceInv == \A t \in Outgoing : tx[t] = "prepared" => TokensBalance(t) /\ RightsBalance(t)
Fresh ==
  /\ known = NoAsset /\ \A kind \in Kinds, o \in Origins : others[kind][o] = 0
  /\ \A r \in Receives : status[r] = "none"
  /\ \A t \in Outgoing : tx[t] = "none"
FreshInv == Fresh => \A x \in Minters : minted[x] = 0
StockInv ==
  /\ stock \subseteq Happened \cup {i \in Inflations : tx[i] = "prepared"}
  /\ \A i \in Inflations : tx[i] # "none" => i \in stock

LEMMA SameBalance ==
  ASSUME NEW t, plan'[t] = plan[t], parents'[t] = parents[t], t \in Inflations => minted'[t] = minted[t],
         TokensBalance(t), RightsBalance(t)
  PROVE  TokensBalance(t)' /\ RightsBalance(t)'
<1>1. \A kind, A : Gives(t, kind, A)' = Gives(t, kind, A) /\ Mints(t, A)' = Mints(t, A)
  BY DEF Gives, Mints
<1>2. \A S, kind, A : Part(S, kind, A)' = Part(S, kind, A)
  BY DEF Part
<1>. QED
  BY <1>1, <1>2 DEF TokensBalance, RightsBalance

LEMMA BalanceStep ==
  ASSUME TypeInv, CoreInv, RetryInv, BalanceInv, [Next]_vars PROVE BalanceInv'
<1>0. \A t \in Outgoing : t \in Nodes /\ t \in Txs /\ t \notin Receives \cup OthersInflations
  BY NodeFacts, ColoredOutputs
<1>1. ASSUME \A t \in Outgoing : tx'[t] = "prepared" =>
                /\ tx[t] = "prepared" /\ plan'[t] = plan[t] /\ parents'[t] = parents[t]
                /\ t \in Inflations => minted'[t] = minted[t]
      PROVE  BalanceInv'
  BY <1>1, SameBalance DEF BalanceInv
<1>2. CASE Calm
  BY <1>1, <1>2 DEF Calm
<1>3. CASE IssueAssetIfa \/ IssuedElsewhere
  BY <1>1, <1>3 DEF IssueAssetIfa, IssuedElsewhere, chainVars
<1>4. ASSUME NEW o \in OthersInflations, OthersInflate(o) PROVE BalanceInv'
  <2>1. PICK from \in Origins, amount \in Nat : InflatesFrom(o, from, amount)
    BY <1>4, TypeParts, OthersFacts DEF TypeInv
  <2>2. UNCHANGED <<tx, plan>> /\ \A t \in Outgoing : parents'[t] = parents[t]
        /\ \A i \in Inflations : minted'[i] = minted[i]
    BY <1>0, <1>4, <2>1 DEF OthersInflate, chainVars, InflatesFrom, TypeInv, TypeOK, Minters, Outgoing
  <2>. QED
    BY <1>1, <2>2
<1>5. ASSUME NEW r \in Receives, WaitConsignment(r) PROVE BalanceInv'
  <2>1. UNCHANGED <<tx, plan, minted>> /\ \A t \in Outgoing : parents'[t] = parents[t]
    BY <1>0, <1>5 DEF WaitConsignment, TypeInv, TypeOK
  <2>. QED
    BY <1>1, <2>1
<1>6. ASSUME NEW r \in Receives, ReceiveSettles(r) PROVE BalanceInv'
  BY <1>1, <1>6 DEF ReceiveSettles
<1>7. ASSUME NEW t \in Outgoing, Drafts(t) PROVE BalanceInv'
  <2>1. \A x \in Outgoing \ {t} : /\ tx'[x] = tx[x] /\ plan'[x] = plan[x] /\ parents'[x] = parents[x]
                                  /\ x \in Inflations => minted'[x] = minted[x]
    BY <1>0, <1>7 DEF Drafts, TypeInv, TypeOK, ChainTypeOK, Minters
  <2>. QED
    BY <1>7, <2>1, SameBalance DEF BalanceInv, Drafts
<1>8. ASSUME NEW t \in Outgoing, EndBroadcast(t) PROVE BalanceInv'
  <2>1. UNCHANGED <<plan, parents, minted>> /\ Published(t)
    BY <1>8, BroadcastFacts
  <2>2. \A x \in Outgoing : tx'[x] = "prepared" => tx[x] = "prepared"
    BY <1>0, <2>1 DEF Published, TypeInv, TypeOK, ChainTypeOK
  <2>. QED
    BY <1>1, <2>1, <2>2
<1>. QED
  BY <1>2, <1>3, <1>4, <1>5, <1>6, <1>7, <1>8, SupplySteps

LEMMA FreshStep ==
  ASSUME TypeInv, CoreInv, RetryInv, FreshInv, [Next]_vars PROVE FreshInv'
<1>1. CASE Calm
  <2>1. Fresh' => Fresh
    BY <1>1 DEF Calm, Fresh
  <2>. QED
    BY <1>1, <2>1 DEF Calm, FreshInv
<1>2. CASE IssueAssetIfa
  BY <1>2, AssetAssumption DEF IssueAssetIfa, NoAsset, FreshInv, Fresh
<1>3. CASE IssuedElsewhere
  <2>1. Fresh /\ UNCHANGED minted
    BY <1>3, NodeFacts, ColoredOutputs DEF IssuedElsewhere, Unissued, Fresh
  <2>. QED
    BY <2>1 DEF FreshInv
<1>4. ASSUME NEW o \in OthersInflations, OthersInflate(o) PROVE FreshInv'
  <2>1. PICK from \in Origins, amount \in Nat : InflatesFrom(o, from, amount)
    BY <1>4, TypeParts, OthersFacts DEF TypeInv
  <2>2. others'["token"][o] = amount /\ amount # 0 /\ o \in Origins /\ "token" \in Kinds
    BY <2>1 DEF InflatesFrom, TypeInv, TypeOK, Origins, Kinds
  <2>. QED
    BY <2>2 DEF FreshInv, Fresh
<1>5. ASSUME NEW r \in Receives, WaitConsignment(r) \/ ReceiveSettles(r) PROVE FreshInv'
  <2>1. status'[r] # "none"
    BY <1>5, WaitHappened, SettleHappened, NodeFacts DEF TypeInv, TypeOK, WaitConsignment
  <2>. QED
    BY <2>1 DEF FreshInv, Fresh
<1>6. ASSUME NEW t \in Outgoing, Drafts(t) PROVE FreshInv'
  <2>1. tx'[t] # "none"
    BY <1>6, ColoredOutputs DEF Drafts, TypeInv, TypeOK, ChainTypeOK
  <2>. QED
    BY <2>1 DEF FreshInv, Fresh
<1>7. ASSUME NEW t \in Outgoing, EndBroadcast(t) PROVE FreshInv'
  <2>1. tx'[t] # "none"
    BY <1>7, BroadcastProgress DEF TypeInv, TypeOK, Public
  <2>. QED
    BY <2>1 DEF FreshInv, Fresh
<1>. QED
  BY <1>1, <1>2, <1>3, <1>4, <1>5, <1>6, <1>7, SupplySteps

LEMMA HeardHappened ==
  ASSUME TypeInv, HistoryInv, NEW t \in Happened
  PROVE  Heard(parents, t) \subseteq Happened
<1>1. ClosedIn(parents, Happened) /\ t \in Nodes
  BY HappenedFacts DEF ClosedIn, HistoryInv
<1>2. parents \in [Nodes -> SUBSET Nodes]
  BY DEF TypeInv, TypeOK
<1>. QED
  BY <1>1, <1>2, ReachedIsLeast DEF Heard

LEMMA StockStep ==
  ASSUME TypeInv, CoreInv, RetryInv, HistoryInv, StockInv, [Next]_vars PROVE StockInv'
<1>0. \A i \in Inflations : i \in Outgoing /\ i \in Txs
  BY ColoredOutputs DEF Outgoing
<1>1. ASSUME Happened \subseteq Happened', UNCHANGED stock,
             \A i \in Inflations : /\ tx[i] = "prepared" => tx'[i] = "prepared" \/ i \in Happened'
                                   /\ tx[i] = "none" => tx'[i] = "none"
      PROVE  StockInv'
  BY <1>1 DEF StockInv
<1>2. CASE Calm
  BY <1>0, <1>1, <1>2, CalmHappened DEF Calm
<1>3. CASE IssueAssetIfa \/ IssuedElsewhere
  <2>1. UNCHANGED <<tx, status, minted, stock>>
    BY <1>3 DEF IssueAssetIfa, IssuedElsewhere, chainVars
  <2>2. Happened' = Happened
    BY <2>1, SameHappened DEF Public
  <2>. QED
    BY <1>1, <2>1, <2>2
<1>4. ASSUME NEW o \in OthersInflations, OthersInflate(o) PROVE StockInv'
  <2>1. Happened \subseteq Happened'
    BY <1>4, TypeParts, OthersFacts, OthersHappened DEF TypeInv
  <2>. QED
    BY <1>1, <1>4, <2>1 DEF OthersInflate, chainVars
<1>5. ASSUME NEW r \in Receives, WaitConsignment(r) PROVE StockInv'
  BY <1>1, <1>5, WaitHappened DEF WaitConsignment
<1>6. ASSUME NEW r \in Receives, ReceiveSettles(r) PROVE StockInv'
  <2>1. Happened' = Happened /\ r \in Happened /\ UNCHANGED tx /\ stock' = stock \cup Heard(parents, r)
    BY <1>6, SettleHappened, HappenedFacts DEF ReceiveSettles
  <2>2. Heard(parents, r) \subseteq Happened
    BY <2>1, HeardHappened
  <2>. QED
    BY <2>1, <2>2 DEF StockInv
<1>7. ASSUME NEW t \in Outgoing, Drafts(t) PROVE StockInv'
  <2>1. /\ Happened' = Happened /\ stock' = stock \cup (Inflations \cap {t}) /\ tx'[t] = "prepared"
        /\ tx[t] = "none" /\ \A i \in Inflations \ {t} : tx'[i] = tx[i]
    BY <1>0, <1>7, DraftHappened, ColoredOutputs DEF Drafts, TypeInv, TypeOK, ChainTypeOK
  <2>. QED
    BY <2>1 DEF StockInv
<1>8. ASSUME NEW t \in Outgoing, EndBroadcast(t) PROVE StockInv'
  <2>1. Published(t) /\ tx[t] = "prepared" /\ UNCHANGED stock /\ Happened' = Happened \cup {t}
    BY <1>8, BroadcastFacts, BroadcastHappened
  <2>2. \A i \in Inflations \ {t} : tx'[i] = tx[i]
    BY <1>0, <2>1, ColoredOutputs DEF Published, TypeInv, TypeOK, ChainTypeOK
  <2>. QED
    BY <1>1, <2>1, <2>2
<1>. QED
  BY <1>2, <1>3, <1>4, <1>5, <1>6, <1>7, <1>8, SupplySteps

-----------------------------------------------------------------------------
(* The supply the wallet shows is no less than what the ancestors of its   *)
(* allocations minted.                                                     *)

MintedIn(A) == SumOver(minted, Done \cap A)
Knows(A) ==
  /\ ClosedIn(parents, A) /\ Issue \in A /\ A \cap Minters \subseteq stock
  /\ \A k \in allocs : (k.by \in Receives => status[k.by] = "Settled") => k.source \in A
  /\ Supply(A \cap Minters) <= known
KnownInv == known # NoAsset => \E A \in SUBSET Happened : Knows(A)

LEMMA DoneFacts ==
  /\ Done \subseteq Minters /\ IsFiniteSet(Minters) /\ Happened \cap Minters \subseteq Done
  /\ \A A : IsFiniteSet(Done \cap A)
<1>1. Done \subseteq Minters /\ IsFiniteSet(Minters)
  BY NodeFacts, FS_Subset DEF Done, Minters
<1>2. Happened \cap Minters \subseteq Done
  BY HappenedFacts DEF Done, Minters, Outgoing
<1>3. \A A : IsFiniteSet(Done \cap A)
  BY <1>1, FS_Subset
<1>. QED
  BY <1>1, <1>2, <1>3

LEMMA MintedType ==
  ASSUME TypeInv, NEW A
  PROVE  /\ MintedIn(A) \in Nat /\ \A x \in Done : minted[x] \in Nat
<1>1. \A x \in Done : minted[x] \in Nat
  BY DoneFacts DEF TypeInv, TypeOK
<1>. QED
  BY <1>1, DoneFacts, SumNat DEF MintedIn

(* How much is minted if the same inflations count.                        *)
LEMMA MintedStays ==
  ASSUME TypeInv, Done' = Done, \A x \in Done : minted'[x] = minted[x], NEW A
  PROVE  MintedIn(A)' = MintedIn(A)
<1>1. \A x \in Done \cap A : minted[x] \in Int
  BY MintedType
<1>2. SumOver(minted', Done \cap A) = SumOver(minted, Done \cap A)
  BY <1>1, DoneFacts, SumSame
<1>. QED
  BY <1>2 DEF MintedIn

LEMMA MintedByOthers ==
  ASSUME TypeInv, NEW o \in OthersInflations, NEW from \in Origins, NEW amount \in Nat,
         OthersInflate(o), InflatesFrom(o, from, amount), NEW A
  PROVE  MintedIn(A)' = MintedIn(A) + (IF o \in A THEN amount ELSE 0)
<1>1. /\ minted' = [minted EXCEPT ![o] = amount] /\ minted[o] = 0 /\ minted \in [Minters -> Nat]
      /\ Done' = Done /\ o \in Done
  <2>1. minted' = [minted EXCEPT ![o] = amount] /\ minted[o] = 0 /\ minted \in [Minters -> Nat]
    BY DEF InflatesFrom, OthersInflate, TypeInv, TypeOK
  <2>2. Done' = Done
    BY OthersHappened
  <2>. QED
    BY <2>1, <2>2 DEF Done
<1>2. \A x \in (Done \cap A) \ {o} : minted'[x] = minted[x]
  BY <1>1, DoneFacts
<1>3. minted'[o] = amount
  BY <1>1, DoneFacts
<1> DEFINE S == Done \cap A
<1>4. /\ IsFiniteSet(S) /\ \A x \in S : minted[x] \in Int
      /\ o \in S <=> o \in A
  BY <1>1, DoneFacts, MintedType
<1> HIDE DEF S
<1>5. /\ o \notin S => SumOver(minted', S) = SumOver(minted, S)
      /\ o \in S => SumOver(minted', S) = SumOver(minted, S) + minted'[o] - minted[o]
      /\ SumOver(minted, S) \in Int
  <2>1. \A x \in S \ {o} : minted'[x] = minted[x]
    BY <1>2 DEF S
  <2>. QED
    BY <1>3, <1>4, <2>1, SumChange
<1>6. MintedIn(A) = SumOver(minted, S) /\ MintedIn(A)' = SumOver(minted', S)
  BY <1>1 DEF MintedIn, S
<1>. QED
  BY <1>1, <1>3, <1>4, <1>5, <1>6

LEMMA MintedByBroadcast ==
  ASSUME TypeInv, NEW t \in Outgoing, EndBroadcast(t), NEW A
  PROVE  MintedIn(A)' = MintedIn(A) + Mints(t, A)
<1>1. /\ Done' = Done \cup (Inflations \cap {t}) /\ t \notin Done /\ UNCHANGED minted
      /\ minted \in [Minters -> Nat]
  BY BroadcastHappened, BroadcastFacts DEF TypeInv, TypeOK
<1>2. MintedIn(A) \in Nat
  BY MintedType
<1>3. CASE t \in Inflations /\ t \in A
  <2> DEFINE S == (Done \cap A) \cup {t}
  <2>1. Done' \cap A = S /\ IsFiniteSet(S) /\ t \in S /\ S \ {t} = Done \cap A
    BY <1>1, <1>3, DoneFacts, FS_AddElement
  <2>2. \A x \in S : minted[x] \in Nat
    BY <1>1, <1>3, DoneFacts DEF Minters
  <2> HIDE DEF S
  <2>3. SumOver(minted, S) = SumOver(minted, S \ {t}) + minted[t]
    BY <2>1, <2>2, SumRemove
  <2>. QED
    BY <1>1, <1>3, <2>1, <2>3 DEF MintedIn, Mints
<1>4. CASE ~(t \in Inflations /\ t \in A)
  <2>1. Done' \cap A = Done \cap A /\ Mints(t, A) = 0
    BY <1>1, <1>4 DEF Mints
  <2>2. MintedIn(A)' = SumOver(minted', Done' \cap A) /\ MintedIn(A) = SumOver(minted, Done \cap A)
    BY DEF MintedIn
  <2>3. MintedIn(A)' = MintedIn(A)
    BY <1>1, <2>1, <2>2
  <2>. QED
    BY <1>2, <2>1, <2>3
<1>. QED
  BY <1>3, <1>4

SupplyFormula == \A S : Supply(S) = IssuedTokens + SumOver(minted, S)
LEMMA SupplyIsSum == SupplyFormula
BY DEF SupplyFormula, Supply, SumOver

LEMMA SupplyStaysSum == \A S : Supply(S)' = IssuedTokens + SumOver(minted', S)
<1>1. SupplyFormula'
  BY SupplyIsSum, PTL
<1>. QED
  BY <1>1 DEF SupplyFormula

LEMMA SupplyOfNone == Supply({}) = IssuedTokens /\ Supply({})' = IssuedTokens
<1>1. SumOver(minted, {}) = 0 /\ SumOver(minted', {}) = 0
  BY SumRemove, FS_EmptySet
<1>2. Supply({}) = IssuedTokens + 0 /\ Supply({})' = IssuedTokens + 0
  BY <1>1, SupplyIsSum, SupplyStaysSum DEF SupplyFormula
<1>. QED
  BY <1>2, AssetAssumption

LEMMA SupplyBounds ==
  ASSUME TypeInv, NEW S, S \subseteq Minters, NEW T, T \subseteq S
  PROVE  /\ Supply(S) \in Nat /\ Supply(T) \in Nat /\ Supply(T) <= Supply(S)
         /\ Supply(S) = IssuedTokens + SumOver(minted, S) /\ IssuedTokens \in Nat
<1>1. minted \in [Minters -> Nat] /\ T \subseteq Minters /\ IsFiniteSet(S) /\ IssuedTokens \in Nat
  BY DoneFacts, FS_Subset, AssetAssumption DEF TypeInv, TypeOK
<1>2. SumOver(minted, T) <= SumOver(minted, S) /\ SumOver(minted, T) \in Nat /\ SumOver(minted, S) \in Nat
  BY <1>1, SumOfPart
<1>3. /\ Supply(S) = IssuedTokens + SumOver(minted, S) /\ Supply(S) \in Nat
      /\ Supply(T) = IssuedTokens + SumOver(minted, T) /\ Supply(T) \in Nat
  BY <1>1, SupplyType
<1>. QED
  BY <1>1, <1>2, <1>3

LEMMA StillKnows ==
  ASSUME TypeInv, HistoryInv, NEW A \in SUBSET Happened, Knows(A),
         \A x \in Happened : parents'[x] = parents[x], stock \subseteq stock',
         \A x \in Minters \cap Happened : minted'[x] = minted[x], minted' \in [Minters -> Nat],
         known' \in Nat, known <= known',
         \A k \in allocs' : (k.by \in Receives => status'[k.by] = "Settled") =>
            k \in allocs /\ (k.by \in Receives => status[k.by] = "Settled")
  PROVE  Knows(A)'
<1>1. A \subseteq Nodes /\ known \in Nat \cup {NoAsset}
  BY HappenedFacts DEF TypeInv, TypeOK
<1>2. ClosedIn(parents', A) /\ Issue \in A /\ A \cap Minters \subseteq stock'
  BY DEF Knows, ClosedIn
<1>3. \A k \in allocs' : (k.by \in Receives => status'[k.by] = "Settled") => k.source \in A
  BY DEF Knows
<1>4. Supply(A \cap Minters)' = Supply(A \cap Minters) /\ Supply(A \cap Minters) \in Nat
  <2>1. \A x \in A \cap Minters : minted[x] \in Int /\ minted'[x] = minted[x]
    BY DEF TypeInv, TypeOK
  <2>2. IsFiniteSet(A \cap Minters)
    BY DoneFacts, FS_Subset
  <2>3. SumOver(minted', A \cap Minters) = SumOver(minted, A \cap Minters)
    BY <2>1, <2>2, SumSame
  <2>4. Supply(A \cap Minters) = IssuedTokens + SumOver(minted, A \cap Minters)
        /\ Supply(A \cap Minters)' = IssuedTokens + SumOver(minted', A \cap Minters)
    BY SupplyIsSum, SupplyStaysSum DEF SupplyFormula
  <2>. QED
    BY <2>3, <2>4, SupplyBounds
<1>5. Supply(A \cap Minters)' <= known'
  BY <1>1, <1>4 DEF Knows, NoAsset
<1>. QED
  BY <1>2, <1>3, <1>5 DEF Knows

(* The genesis alone is enough for a wallet that has nothing settled but   *)
(* by issuance.                                                            *)
LEMMA KnowsGenesis ==
  ASSUME parents'[Issue] = {}, known' \in Nat, IssuedTokens <= known',
         \A k \in allocs' : (k.by \in Receives => status'[k.by] = "Settled") => k.source = Issue
  PROVE  Knows({Issue})'
<1>1. {Issue} \cap Minters = {} /\ Issue \in Nodes
  BY NodeFacts, AssetAssumption DEF Minters, Outgoing, Txs
<1>2. ClosedIn(parents', {Issue})
  BY <1>1 DEF ClosedIn
<1>3. Supply({Issue} \cap Minters)' <= known'
  BY <1>1, SupplyOfNone
<1>. QED
  BY <1>1, <1>2, <1>3 DEF Knows

LEMMA KnownByIssue ==
  ASSUME TypeInv, TypeInv', HistoryInv, HistoryInv', IssueAssetIfa PROVE KnownInv'
<1>1. known' = IssuedTokens /\ IssuedTokens \in Nat /\ \A k \in allocs' : k.source = Issue
  BY AssetAssumption DEF IssueAssetIfa, Issued, Alloc
<1>2. parents'[Issue] = {}
  BY DEF HistoryInv
<1>3. Knows({Issue})'
  BY <1>1, <1>2, KnowsGenesis
<1>4. Issue \in Happened'
  BY DEF Happened
<1>. QED
  BY <1>3, <1>4 DEF KnownInv

LEMMA KnownByWait ==
  ASSUME TypeInv, TypeInv', HistoryInv, HistoryInv', KnownInv, NEW r \in Receives, WaitConsignment(r)
  PROVE  KnownInv'
<1>1. PICK o \in Origins, kind \in Kinds, amount \in Nat : ReceivesFrom(r, o, kind, amount)
  BY TypeParts, WaitFacts DEF TypeInv
<1>2. /\ Happened' = Happened \cup {r} /\ r \notin Happened /\ UNCHANGED <<stock, minted>>
      /\ minted \in [Minters -> Nat] /\ parents \in [Nodes -> SUBSET Nodes]
  BY WaitHappened DEF WaitConsignment, TypeInv, TypeOK
<1>3. /\ status'[r] # "Settled" /\ \A x \in Receives \ {r} : status'[x] = status[x]
  BY <1>1, NodeFacts DEF ReceivesFrom, Accepts, Refuses, TypeInv, TypeOK
<1>4. \A k \in allocs' : (k.by \in Receives => status'[k.by] = "Settled") =>
         k \in allocs /\ (k.by \in Receives => status[k.by] = "Settled")
  <2>1. allocs' \subseteq allocs \cup {Alloc(<<r, 1>>, kind, amount, r)}
    BY <1>1 DEF ReceivesFrom, Accepts, Refuses, Received
  <2>2. Alloc(<<r, 1>>, kind, amount, r).by = r
    BY DEF Alloc
  <2>. QED
    BY <1>3, <2>1, <2>2
<1>5. CASE known # NoAsset
  <2>1. known' = known /\ known \in Nat
    BY <1>1, <1>5 DEF ReceivesFrom, Accepts, Refuses, KnownFrom, TypeInv, TypeOK
  <2>2. PICK A \in SUBSET Happened : Knows(A)
    BY <1>5 DEF KnownInv
  <2>3. \A x \in Happened : parents'[x] = parents[x]
    BY <1>1, <1>2, HappenedFacts DEF ReceivesFrom
  <2>4. Knows(A)'
    BY <1>2, <1>4, <2>1, <2>2, <2>3, StillKnows
  <2>. QED
    BY <1>2, <2>4 DEF KnownInv
<1>6. CASE known = NoAsset
  <2>1. allocs = {}
    BY <1>6 DEF TypeInv, IssueInv
  <2>2. CASE known' = NoAsset
    BY <2>2 DEF KnownInv
  <2>3. CASE known' # NoAsset
    <3>1. known' = Supply(Heard(parents', r)) /\ Heard(parents', r) \subseteq Minters
      BY <1>1, <1>6, <2>3, HeardType DEF ReceivesFrom, Accepts, Refuses, KnownFrom
    <3>2. Supply(Heard(parents', r)) \in Nat /\ IssuedTokens <= Supply(Heard(parents', r))
      BY <3>1, SupplyOfNone, SupplyBounds
    <3>3. parents'[Issue] = {}
      BY DEF HistoryInv
    <3>4. Knows({Issue})'
      BY <1>4, <2>1, <3>1, <3>2, <3>3, KnowsGenesis
    <3>5. Issue \in Happened'
      BY DEF Happened
    <3>. QED
      BY <3>4, <3>5 DEF KnownInv
  <2>. QED
    BY <2>2, <2>3
<1>. QED
  BY <1>5, <1>6

(* accept_transfer: the stock hears of all that the receive descends from, *)
(* and the supply shown is at least what the stock then counts.            *)
LEMMA KnownBySettle ==
  ASSUME TypeInv, TypeInv', HistoryInv, KnownInv, NEW r \in Receives, ReceiveSettles(r)
  PROVE  KnownInv'
<1>1. /\ UNCHANGED <<allocs, minted, parents>> /\ stock' = stock \cup Heard(parents, r)
      /\ known' = KnownAfter(stock')
  BY DEF ReceiveSettles
<1>2. /\ Happened' = Happened /\ r \in Happened /\ status' = [status EXCEPT ![r] = "Settled"]
      /\ status[r] = "WaitingConfirmations" /\ status \in [Colored -> Statuses] /\ r \in Colored
  BY SettleHappened, HappenedFacts, NodeFacts DEF TypeInv, TypeOK
<1>3. known # NoAsset
  BY <1>2 DEF TypeInv, IssueInv
<1>4. PICK A \in SUBSET Happened : Knows(A)
  BY <1>3 DEF KnownInv
<1>5. PICK R \in SUBSET Happened :
         ClosedIn(parents, R) /\ r \in R /\ R \cap Minters = Heard(parents, r)
  <2> DEFINE R == Reached(parents, r, {})
  <2>1. parents \in [Nodes -> SUBSET Nodes] /\ r \in Nodes /\ ClosedIn(parents, Happened)
    BY <1>2, HappenedFacts DEF TypeInv, TypeOK, ClosedIn, HistoryInv
  <2>2. ClosedIn(parents, R) /\ r \in R /\ R \in SUBSET Happened
    BY <1>2, <2>1, ReachedIsLeast
  <2>3. R \cap Minters = Heard(parents, r)
    BY DEF Heard
  <2> HIDE DEF R
  <2>. QED
    BY <2>2, <2>3
<1>6. PICK B : B = A \cup R
  OBVIOUS
<1>7. ClosedIn(parents, B) /\ Issue \in B /\ B \cap Minters \subseteq stock'
  <2>1. A \cap Minters \subseteq stock /\ ClosedIn(parents, A) /\ Issue \in A
    BY <1>4 DEF Knows
  <2>. QED
    BY <1>1, <1>5, <1>6, <2>1 DEF ClosedIn
<1>8. \A k \in allocs : (k.by \in Receives => status'[k.by] = "Settled") => k.source \in B
  <2>1. ASSUME NEW k \in allocs, k.by \in Receives => status'[k.by] = "Settled" PROVE k.source \in B
    <3>1. CASE k.by = r
      BY <1>5, <1>6, <3>1 DEF HistoryInv
    <3>2. CASE k.by # r
      <4>1. k.by \in Receives => status[k.by] = "Settled"
        BY <1>2, <2>1, <3>2, NodeFacts
      <4>. QED
        BY <1>4, <1>6, <4>1 DEF Knows
    <3>. QED
      BY <3>1, <3>2
  <2>. QED
    BY <2>1
<1>9. Supply(B \cap Minters)' <= known'
  <2>1. stock' \subseteq Minters
    BY DEF TypeInv, TypeOK
  <2>2. Supply(B \cap Minters) <= Supply(stock') /\ Supply(stock') \in Nat /\ Supply(B \cap Minters) \in Nat
    BY <1>7, <2>1, SupplyBounds
  <2>3. Supply(stock') <= known' /\ known' \in Nat
    <3>1. known \in Nat
      BY <1>3 DEF TypeInv, TypeOK
    <3>. QED
      BY <1>1, <2>2, <3>1 DEF KnownAfter
  <2>4. Supply(B \cap Minters)' = Supply(B \cap Minters)
    BY <1>1, SupplyIsSum, SupplyStaysSum DEF SupplyFormula
  <2>. QED
    BY <2>2, <2>3, <2>4
<1>10. B \in SUBSET Happened'
  BY <1>2, <1>5, <1>6
<1>11. Knows(B)'
  BY <1>1, <1>7, <1>8, <1>9 DEF Knows
<1>. QED
  BY <1>10, <1>11 DEF KnownInv

LEMMA KnownByBroadcast ==
  ASSUME TypeInv, TypeInv', CoreInv, HistoryInv, StockInv, KnownInv, NEW t \in Outgoing, EndBroadcast(t)
  PROVE  KnownInv'
<1>1. /\ Happened' = Happened \cup {t} /\ t \notin Happened /\ t \in Nodes /\ t \notin Receives
      /\ UNCHANGED <<stock, minted, parents, plan>> /\ tx[t] = "prepared" /\ GoodPlan(t)
      /\ SavesAsset(t) \/ UNCHANGED <<allocs, status, known>>
  BY BroadcastHappened, BroadcastFacts, NodeFacts DEF CoreInv, PlanInv
<1>2. known # NoAsset
  BY <1>1 DEF TypeInv, IssueInv
<1>3. PICK A \in SUBSET Happened : Knows(A)
  BY <1>2 DEF KnownInv
<1>4. minted \in [Minters -> Nat] /\ known \in Nat /\ status \in [Colored -> Statuses]
  BY <1>2 DEF TypeInv, TypeOK
<1>5. CASE UNCHANGED <<allocs, status, known>>
  <2>1. Knows(A)'
    BY <1>1, <1>3, <1>4, <1>5, StillKnows
  <2>. QED
    BY <1>1, <2>1 DEF KnownInv
<1>6. CASE SavesAsset(t)
  <2> DEFINE B == A \cup {t}
  <2>1. \A k \in plan[t].takes : k.source \in A
    <3>1. \A k \in plan[t].takes : k \in allocs /\ IsSettled(k) /\ Issue \notin Receives
      BY <1>1, NodeFacts DEF GoodPlan
    <3>. QED
      BY <1>3, <3>1 DEF IsSettled, Knows
  <2>2. parents[t] \subseteq A
    BY <1>1, <2>1 DEF HistoryInv
  <2>3. ClosedIn(parents', B) /\ Issue \in B
    BY <1>1, <1>3, <2>2 DEF Knows, ClosedIn
  <2>4. B \cap Minters \subseteq stock'
    <3>1. t \in Minters => t \in Inflations
      BY <1>1, NodeFacts DEF Minters
    <3>. QED
      BY <1>1, <1>3, <3>1 DEF Knows, StockInv
  <2>5. \A k \in allocs' : (k.by \in Receives => status'[k.by] = "Settled") => k.source \in B
    <3>1. ASSUME NEW k \in plan[t].brings PROVE k.source \in B
      BY <1>1, <2>1 DEF GoodPlan, Same
    <3>2. \A r \in Receives : status'[r] = status[r]
      BY <1>1, <1>4, <1>6, NodeFacts DEF SavesAsset
    <3>. QED
      BY <1>3, <1>6, <3>1, <3>2 DEF SavesAsset, Knows
  <2>6. Supply(B \cap Minters)' <= known'
    <3>1. Supply(B \cap Minters)' = Supply(B \cap Minters)
      BY <1>1, SupplyIsSum, SupplyStaysSum DEF SupplyFormula
    <3>2. Supply(A \cap Minters) \in Nat /\ Supply(A \cap Minters) <= known
      BY <1>3, SupplyBounds DEF Knows
    <3>3. CASE t \in Inflations
      <4> DEFINE S == B \cap Minters
      <4>1. t \in S /\ S \ {t} = A \cap Minters /\ S \subseteq Minters
        BY <1>1, <3>3 DEF Minters
      <4>2. IsFiniteSet(S) /\ \A x \in S : minted[x] \in Nat
        BY <1>4, DoneFacts, FS_Subset
      <4> HIDE DEF S
      <4>3. SumOver(minted, S) = SumOver(minted, S \ {t}) + minted[t] /\ SumOver(minted, S \ {t}) \in Nat
        <5>1. IsFiniteSet(S \ {t})
          BY <4>2, FS_Subset
        <5>. QED
          BY <4>1, <4>2, <5>1, SumRemove, SumNat
      <4>4. /\ Supply(S) = IssuedTokens + SumOver(minted, S) /\ IssuedTokens \in Nat
            /\ Supply(A \cap Minters) = IssuedTokens + SumOver(minted, A \cap Minters)
        BY SupplyIsSum, AssetAssumption DEF SupplyFormula
      <4>5. Supply(S) = Supply(A \cap Minters) + minted[t] /\ minted[t] \in Nat
        <5>1. SumOver(minted, S \ {t}) = SumOver(minted, A \cap Minters)
          BY <4>1
        <5>2. minted[t] \in Nat
          BY <4>1, <4>2
        <5>. QED
          BY <4>3, <4>4, <5>1, <5>2
      <4>6. known' = known + minted[t]
        BY <1>6, <3>3 DEF SavesAsset, KnownInflated
      <4>. QED
        BY <1>4, <3>1, <3>2, <4>5, <4>6 DEF S
    <3>4. CASE t \notin Inflations
      <4>1. B \cap Minters = A \cap Minters
        BY <1>1, <3>4, NodeFacts DEF Minters
      <4>2. known' = known
        BY <1>6, <3>4 DEF SavesAsset, KnownInflated
      <4>. QED
        BY <3>1, <3>2, <4>1, <4>2
    <3>. QED
      BY <3>3, <3>4
  <2>7. B \in SUBSET Happened'
    BY <1>1
  <2> HIDE DEF B
  <2>8. Knows(B)'
    BY <2>3, <2>4, <2>5, <2>6 DEF Knows
  <2>. QED
    BY <2>7, <2>8 DEF KnownInv
<1>. QED
  BY <1>1, <1>5, <1>6


LEMMA KnownStays ==
  ASSUME TypeInv, TypeInv', HistoryInv, KnownInv, Happened \subseteq Happened',
         \A x \in Happened : parents'[x] = parents[x], stock \subseteq stock',
         \A x \in Minters \cap Happened : minted'[x] = minted[x], UNCHANGED <<known, allocs>>,
         \A r \in Receives : status'[r] = status[r]
  PROVE  KnownInv'
<1>1. CASE known = NoAsset
  BY <1>1 DEF KnownInv
<1>2. CASE known # NoAsset
  <2>1. PICK A \in SUBSET Happened : Knows(A)
    BY <1>2 DEF KnownInv
  <2>2. minted' \in [Minters -> Nat] /\ known \in Nat /\ known <= known'
    BY <1>2 DEF TypeInv, TypeOK
  <2>3. Knows(A)'
    BY <2>1, <2>2, StillKnows
  <2>. QED
    BY <2>1, <2>3 DEF KnownInv
<1>. QED
  BY <1>1, <1>2

LEMMA KnownStep ==
  ASSUME TypeInv, TypeInv', CoreInv, RetryInv, HistoryInv, HistoryInv', StockInv, KnownInv, [Next]_vars
  PROVE  KnownInv'
<1>1. CASE Calm
  BY <1>1, CalmHappened, KnownStays DEF Calm
<1>2. CASE IssuedElsewhere
  BY <1>2 DEF IssuedElsewhere, Unissued, KnownInv
<1>3. ASSUME NEW o \in OthersInflations, OthersInflate(o) PROVE KnownInv'
  <2>1. PICK from \in Origins, amount \in Nat : InflatesFrom(o, from, amount)
    BY <1>3, TypeParts, OthersFacts DEF TypeInv
  <2>2. Happened' = Happened \cup {o} /\ o \notin Happened
    BY <1>3, <2>1, OthersHappened
  <2>3. /\ \A x \in Happened : parents'[x] = parents[x]
        /\ \A x \in Minters \cap Happened : minted'[x] = minted[x]
    BY <2>1, <2>2, HappenedFacts DEF InflatesFrom, TypeInv, TypeOK
  <2>4. UNCHANGED <<stock, known, allocs, status>>
    BY <1>3 DEF OthersInflate
  <2>. QED
    BY <2>2, <2>3, <2>4, KnownStays
<1>4. ASSUME NEW t \in Outgoing, Drafts(t) PROVE KnownInv'
  <2>1. Happened' = Happened /\ t \notin Happened
    BY <1>4, DraftHappened
  <2>2. /\ \A x \in Happened : parents'[x] = parents[x]
        /\ \A x \in Minters \cap Happened : minted'[x] = minted[x]
        /\ stock \subseteq stock' /\ UNCHANGED <<known, allocs, status>>
    BY <1>4, <2>1, HappenedFacts DEF Drafts
  <2>. QED
    BY <2>1, <2>2, KnownStays
<1>. QED
  BY <1>1, <1>2, <1>3, <1>4, KnownByIssue, KnownByWait, KnownBySettle, KnownByBroadcast, SupplySteps

-----------------------------------------------------------------------------
(* Tokens and rights, wherever they are, come from the issue and from what *)
(* was minted: from the inflations among the ancestors, and rights turn    *)
(* into tokens.  After a panic the database has not recorded the inflation *)
(* that the network has.                                                   *)

Unspent            == {k \in allocs : rows[k.txo] # "spent"}
Held(kind, A)      == Total(Part(Unspent, kind, A))
Elsewhere(kind, A) == SumOver(others[kind], Origins \cap A)

Tokens(A) == Held("token", A) + Elsewhere("token", A)
Rights    == Held("right", Nodes) + Elsewhere("right", Nodes)

TokensInv ==
  ~panicked => \A A \in SUBSET Nodes :
     ClosedIn(parents, A) /\ Issue \in A => Tokens(A) <= IssuedTokens + MintedIn(A)
RightsInv == ~panicked => Rights + MintedIn(Nodes) <= IssuedRights

LEMMA SumsAreNat ==
  ASSUME TypeInv, NEW kind \in Kinds, NEW A
  PROVE  /\ Held(kind, A) \in Nat /\ Elsewhere(kind, A) \in Nat /\ IsFiniteSet(Origins \cap A)
         /\ Summable(Unspent) /\ Summable(Part(Unspent, kind, A))
         /\ \A o \in Origins \cap A : others[kind][o] \in Nat
<1>1. Summable(Unspent)
  BY AllocsSummable DEF Unspent, TypeInv
<1>2. IsFiniteSet(Origins \cap A)
  BY NodeFacts, FS_Subset
<1>3. \A o \in Origins \cap A : others[kind][o] \in Nat
  BY DEF TypeInv, TypeOK
<1>4. Elsewhere(kind, A) \in Nat
  BY <1>2, <1>3, SumNat DEF Elsewhere
<1>. QED
  BY <1>1, <1>2, <1>3, <1>4, PartSums DEF Held

(* Spending takes away what is held.                                       *)
LEMMA HeldShrinks ==
  ASSUME TypeInv, allocs' = allocs, RowProgress, NEW kind \in Kinds, NEW A
  PROVE  Held(kind, A)' <= Held(kind, A) /\ Held(kind, A)' \in Nat
<1>1. Unspent' \subseteq Unspent
  <2>1. \A k \in allocs : k.txo \in External
    BY DEF TypeInv, TypeOK, Allocations
  <2>. QED
    BY <2>1 DEF Unspent, RowProgress
<1>2. Part(Unspent', kind, A) \subseteq Part(Unspent, kind, A)
  BY <1>1 DEF Part
<1>3. Held(kind, A)' = Total(Part(Unspent', kind, A)) /\ Held(kind, A) = Total(Part(Unspent, kind, A))
  BY DEF Held, Part
<1>4. /\ Total(Part(Unspent', kind, A)) <= Total(Part(Unspent, kind, A))
      /\ Total(Part(Unspent', kind, A)) \in Nat
  BY <1>2, SumsAreNat, TotalOfPart
<1>. QED
  BY <1>3, <1>4

(* One allocation, or one origin, more or less.                            *)
LEMMA OneElsewhere ==
  ASSUME TypeInv, NEW kind \in Kinds, NEW A, NEW o \in Origins, NEW amount \in Int,
         others'[kind][o] = others[kind][o] + amount,
         \A x \in Origins \ {o} : others'[kind][x] = others[kind][x]
  PROVE  Elsewhere(kind, A)' = Elsewhere(kind, A) + (IF o \in A THEN amount ELSE 0)
<1> DEFINE S == Origins \cap A
<1>1. IsFiniteSet(S) /\ \A x \in S : others[kind][x] \in Int
  <2>1. IsFiniteSet(S) /\ \A x \in S : others[kind][x] \in Nat
    BY SumsAreNat
  <2>. QED
    BY <2>1
<1>2. o \in S <=> o \in A
  OBVIOUS
<1>3. \A x \in S \ {o} : others'[kind][x] = others[kind][x]
  OBVIOUS
<1>4. Elsewhere(kind, A)' = SumOver(others'[kind], S) /\ Elsewhere(kind, A) = SumOver(others[kind], S)
  BY DEF Elsewhere, Origins
<1> HIDE DEF S
<1>5. o \in S => others'[kind][o] \in Int
  BY <1>1
<1>6. /\ o \notin S => SumOver(others'[kind], S) = SumOver(others[kind], S)
      /\ o \in S => SumOver(others'[kind], S) = SumOver(others[kind], S) + others'[kind][o] - others[kind][o]
      /\ SumOver(others[kind], S) \in Int
  BY <1>1, <1>3, <1>5, SumChange
<1>. QED
  BY <1>1, <1>2, <1>4, <1>6

LEMMA SameElsewhere ==
  ASSUME TypeInv, NEW kind \in Kinds, NEW A, \A x \in Origins : others'[kind][x] = others[kind][x]
  PROVE  Elsewhere(kind, A)' = Elsewhere(kind, A)
<1>1. IsFiniteSet(Origins \cap A) /\ \A x \in Origins \cap A : others[kind][x] \in Int
  BY SumsAreNat
<1>2. SumOver(others'[kind], Origins \cap A) = SumOver(others[kind], Origins \cap A)
  BY <1>1, SumSame
<1>. QED
  BY <1>2 DEF Elsewhere, Origins


(* What a step must keep, but for what it mints.                           *)
Conserves ==
  /\ \A A \in SUBSET Nodes : ClosedIn(parents', A) /\ Issue \in A =>
        ClosedIn(parents, A) /\ Tokens(A)' + MintedIn(A) <= Tokens(A) + MintedIn(A)'
  /\ Rights' + MintedIn(Nodes)' <= Rights + MintedIn(Nodes)

LEMMA TotalsAreNat ==
  ASSUME TypeInv, NEW A PROVE Tokens(A) \in Nat /\ Rights \in Nat /\ MintedIn(A) \in Nat
<1>1. "token" \in Kinds /\ "right" \in Kinds
  BY DEF Kinds
<1>2. /\ Held("token", A) \in Nat /\ Elsewhere("token", A) \in Nat
      /\ Held("right", Nodes) \in Nat /\ Elsewhere("right", Nodes) \in Nat
  BY <1>1, SumsAreNat
<1>. QED
  BY <1>2, MintedType DEF Tokens, Rights

TotalsTyped == \A A : Tokens(A) \in Nat /\ Rights \in Nat /\ MintedIn(A) \in Nat
LEMMA TotalsStayNat ==
  TypeInv' => \A A : Tokens(A)' \in Nat /\ Rights' \in Nat /\ MintedIn(A)' \in Nat
<1>1. TypeInv => TotalsTyped
  BY TotalsAreNat DEF TotalsTyped
<1>2. TypeInv' => TotalsTyped'
  BY <1>1, PTL
<1>. QED
  BY <1>2 DEF TotalsTyped

LEMMA ConservedTotals ==
  ASSUME TypeInv, TypeInv', TokensInv, RightsInv, ~panicked, Conserves PROVE TokensInv' /\ RightsInv'
<1>1. IssuedTokens \in Nat /\ IssuedRights \in Nat
  BY AssetAssumption
<1>2. \A A : /\ Tokens(A) \in Nat /\ Rights \in Nat /\ MintedIn(A) \in Nat
             /\ Tokens(A)' \in Nat /\ Rights' \in Nat /\ MintedIn(A)' \in Nat
  BY TotalsAreNat, TotalsStayNat
<1>3. ASSUME NEW A \in SUBSET Nodes, ClosedIn(parents', A), Issue \in A
      PROVE  Tokens(A)' <= IssuedTokens + MintedIn(A)'
  <2>1. Tokens(A) <= IssuedTokens + MintedIn(A)
    BY <1>3 DEF Conserves, TokensInv
  <2>2. Tokens(A)' + MintedIn(A) <= Tokens(A) + MintedIn(A)'
    BY <1>3 DEF Conserves
  <2>. QED
    BY <1>1, <1>2, <2>1, <2>2
<1>4. Rights' + MintedIn(Nodes)' <= IssuedRights
  <2>1. /\ Rights + MintedIn(Nodes) <= IssuedRights
        /\ Rights' + MintedIn(Nodes)' <= Rights + MintedIn(Nodes)
    BY DEF Conserves, RightsInv
  <2>. QED
    BY <1>1, <1>2, <2>1
<1>. QED
  BY <1>3, <1>4 DEF TokensInv, RightsInv

(* Steps that leave others, allocations and what was minted alone.         *)
LEMMA StillConserves ==
  ASSUME TypeInv, TypeInv', UNCHANGED <<allocs, others>>, RowProgress,
         Done' = Done, \A x \in Done : minted'[x] = minted[x],
         \A A \in SUBSET Nodes : ClosedIn(parents', A) => ClosedIn(parents, A)
  PROVE  Conserves
<1>1. \A A : /\ Tokens(A) \in Nat /\ Rights \in Nat /\ MintedIn(A) \in Nat
             /\ Tokens(A)' \in Nat /\ Rights' \in Nat /\ MintedIn(A)' \in Nat
  BY TotalsAreNat, TotalsStayNat
<1>2. \A A : MintedIn(A)' = MintedIn(A)
  BY MintedStays
<1>3. ASSUME NEW kind \in Kinds, NEW A
      PROVE  /\ Held(kind, A)' <= Held(kind, A) /\ Elsewhere(kind, A)' = Elsewhere(kind, A)
             /\ Held(kind, A)' \in Nat /\ Held(kind, A) \in Nat /\ Elsewhere(kind, A) \in Nat
  BY HeldShrinks, SameElsewhere, SumsAreNat
<1>4. "token" \in Kinds /\ "right" \in Kinds
  BY DEF Kinds
<1>5. \A A : Tokens(A)' <= Tokens(A)
  BY <1>3, <1>4 DEF Tokens
<1>6. Rights' <= Rights
  BY <1>3, <1>4 DEF Rights
<1>. QED
  BY <1>1, <1>2, <1>5, <1>6 DEF Conserves

LEMMA OthersConserve ==
  ASSUME TypeInv, TypeInv', HistoryInv, NEW o \in OthersInflations, OthersInflate(o) PROVE Conserves
<1>1. PICK from \in Origins, amount \in Nat : InflatesFrom(o, from, amount)
  BY TypeParts, OthersFacts DEF TypeInv
<1>2. /\ others' = [others EXCEPT !["token"][o] = amount, !["right"][from] = @ - amount]
      /\ parents' = [parents EXCEPT ![o] = {from}] /\ others \in [Kinds -> [Origins -> Nat]]
      /\ "token" \in Kinds /\ "right" \in Kinds /\ o \in Origins /\ o \in Nodes /\ from \in Nodes
      /\ parents \in [Nodes -> SUBSET Nodes]
  BY <1>1, NodeFacts DEF InflatesFrom, TypeInv, TypeOK, Kinds, Origins
<1>3. ASSUME NEW A PROVE MintedIn(A)' = MintedIn(A) + (IF o \in A THEN amount ELSE 0)
  BY <1>1, MintedByOthers
<1>4. ASSUME NEW A PROVE Elsewhere("token", A)' <= Elsewhere("token", A) + (IF o \in A THEN amount ELSE 0)
  <2> DEFINE less == amount - others["token"][o]
  <2>1. /\ others'["token"][o] = others["token"][o] + less /\ less \in Int /\ less <= amount
        /\ \A x \in Origins \ {o} : others'["token"][x] = others["token"][x]
    BY <1>2
  <2>2. Elsewhere("token", A) \in Nat
    BY <1>2, SumsAreNat
  <2> HIDE DEF less
  <2>3. Elsewhere("token", A)' = Elsewhere("token", A) + (IF o \in A THEN less ELSE 0)
    BY <1>2, <2>1, OneElsewhere
  <2>. QED
    BY <2>1, <2>2, <2>3
<1>5. Elsewhere("right", Nodes)' = Elsewhere("right", Nodes) - amount
  <2>1. /\ others'["right"][from] = others["right"][from] + (0 - amount) /\ 0 - amount \in Int
        /\ \A x \in Origins \ {from} : others'["right"][x] = others["right"][x]
    BY <1>2
  <2>2. Elsewhere("right", Nodes)' = Elsewhere("right", Nodes) + (IF from \in Nodes THEN 0 - amount ELSE 0)
    BY <1>2, <2>1, OneElsewhere
  <2>3. Elsewhere("right", Nodes) \in Nat
    BY <1>2, SumsAreNat
  <2>. QED
    BY <1>2, <2>2, <2>3
<1>6. ASSUME NEW kind \in Kinds, NEW A
      PROVE  /\ Held(kind, A)' = Held(kind, A) /\ Held(kind, A) \in Nat /\ Elsewhere(kind, A) \in Nat
             /\ Elsewhere(kind, A)' \in Int /\ MintedIn(A) \in Nat
  <2>1. UNCHANGED <<allocs, rows>>
    BY DEF OthersInflate, chainVars
  <2>2. Held(kind, A)' = Held(kind, A)
    BY <2>1 DEF Held, Unspent, Part
  <2>3. \A x \in Origins \cap A : others'[kind][x] \in Int
    BY DEF TypeInv, TypeOK
  <2>4. Elsewhere(kind, A)' \in Int
    BY <2>3, SumsAreNat, SumRemove DEF Elsewhere, Origins
  <2>. QED
    BY <2>2, <2>4, SumsAreNat, MintedType
<1>7. ASSUME NEW A \in SUBSET Nodes, ClosedIn(parents', A) PROVE ClosedIn(parents, A)
  <2>1. parents[o] = {}
    <3>1. o \notin Happened /\ o \notin Outgoing
      BY <1>1, OthersHappened, NodeFacts
    <3>. QED
      BY <1>2, <3>1 DEF HistoryInv
  <2>. QED
    BY <1>2, <1>7, <2>1 DEF ClosedIn
<1>8. ASSUME NEW A \in SUBSET Nodes PROVE Tokens(A)' + MintedIn(A) <= Tokens(A) + MintedIn(A)'
  BY <1>2, <1>3, <1>4, <1>6 DEF Tokens
<1>9. Rights' + MintedIn(Nodes)' <= Rights + MintedIn(Nodes)
  BY <1>2, <1>3, <1>5, <1>6 DEF Rights
<1>. QED
  BY <1>7, <1>8, <1>9 DEF Conserves


(* Some of what is held goes, and no more than this comes.                 *)
LEMMA HeldChanges ==
  ASSUME TypeInv, NEW kind \in Kinds, NEW A, NEW less, less \subseteq Unspent,
         NEW more, Summable(more), Unspent' \subseteq (Unspent \ less) \cup more
  PROVE  /\ Held(kind, A)' + Total(Part(less, kind, A)) <= Held(kind, A) + Total(Part(more, kind, A))
         /\ Held(kind, A)' \in Nat /\ Total(Part(less, kind, A)) \in Nat
         /\ Held(kind, A) \in Nat /\ Total(Part(more, kind, A)) \in Nat
<1> DEFINE P == Part(Unspent, kind, A)
           L == Part(less, kind, A)
           M == Part(more, kind, A)
           N == Part(Unspent', kind, A)
<1>1. Summable(P) /\ Summable(M) /\ L \subseteq P
  <2>1. Summable(P) /\ Summable(M)
    BY SumsAreNat, PartSums
  <2>2. L \subseteq P
    BY DEF Part
  <2>. QED
    BY <2>1, <2>2
<1>2. N \subseteq (P \ L) \cup M
  BY DEF Part
<1>3. Held(kind, A)' = Total(N) /\ Held(kind, A) = Total(P)
  BY DEF Held, Part
<1> HIDE DEF P, L, M, N
<1>4. /\ Summable(P \ L) /\ Total(P) = Total(L) + Total(P \ L)
      /\ Total(L) \in Nat /\ Total(P \ L) \in Nat /\ Total(P) \in Nat
  BY <1>1, TotalSplit
<1>5. /\ Summable((P \ L) \cup M) /\ Total((P \ L) \cup M) <= Total(P \ L) + Total(M)
      /\ Total(M) \in Nat /\ Total((P \ L) \cup M) \in Nat
  BY <1>1, <1>4, TotalOfBoth
<1>6. Total(N) <= Total((P \ L) \cup M) /\ Total(N) \in Nat
  BY <1>2, <1>5, TotalOfPart
<1>7. Total(N) + Total(L) <= Total(P) + Total(M)
  BY <1>4, <1>5, <1>6
<1>. QED
  BY <1>3, <1>4, <1>5, <1>6, <1>7 DEF L, M

LEMMA WaitConserves ==
  ASSUME TypeInv, TypeInv', HistoryInv, NEW r \in Receives, WaitConsignment(r) PROVE Conserves
<1>1. PICK o \in Origins, kind \in Kinds, amount \in Nat : ReceivesFrom(r, o, kind, amount)
  BY TypeParts, WaitFacts DEF TypeInv
<1>2. /\ Happened' = Happened \cup {r} /\ Done' = Done /\ r \notin Happened /\ UNCHANGED minted
      /\ r \notin Outgoing /\ r \in Nodes /\ o \in Nodes /\ <<r, 1>> \in External
  BY WaitHappened, ReceivedOutput, NodeFacts DEF WaitConsignment
<1>3. /\ parents' = [parents EXCEPT ![r] = {o}] /\ parents \in [Nodes -> SUBSET Nodes]
      /\ parents[r] = {} /\ others \in [Kinds -> [Origins -> Nat]] /\ rows \in [External -> RowStates]
  BY <1>1, <1>2 DEF ReceivesFrom, HistoryInv, TypeInv, TypeOK, ChainTypeOK
<1>4. ASSUME NEW A \in SUBSET Nodes, ClosedIn(parents', A)
      PROVE  ClosedIn(parents, A) /\ (r \in A => o \in A)
  BY <1>2, <1>3, <1>4 DEF ClosedIn
<1>5. CASE Refuses(r)
  <2>1. UNCHANGED <<allocs, others, rows>>
    BY <1>5 DEF Refuses
  <2>2. RowProgress
    BY <2>1, SameRows
  <2>. QED
    BY <1>2, <1>4, <2>1, <2>2, StillConserves
<1>6. CASE Accepts(r, o, kind, amount)
  <2> DEFINE new == Alloc(<<r, 1>>, kind, amount, r)
  <2>1. /\ new.kind = kind /\ new.source = r /\ new.amount = amount /\ new.txo = <<r, 1>>
    BY DEF Alloc
  <2>2. allocs' = allocs \cup {new} /\ others' = [others EXCEPT ![kind][o] = @ - amount]
    BY <1>6 DEF Accepts, Received
  <2>3. \A u \in External : rows'[u] = "spent" <=> rows[u] = "spent"
    BY <1>2, <1>3, <1>6 DEF Accepts
  <2> HIDE DEF new
  <2>4. Summable({new}) /\ Total({new}) = amount /\ Total({}) = 0
    BY <2>1, TotalOfOne
  <2>5. Unspent' \subseteq (Unspent \ {}) \cup {new}
    <3>1. \A k \in allocs : k.txo \in External
      BY DEF TypeInv, TypeOK, Allocations
    <3>. QED
      BY <2>2, <2>3, <3>1 DEF Unspent
  <2>6. ASSUME NEW of \in Kinds, NEW A
        PROVE  /\ Held(of, A)' <= Held(of, A) + (IF of = kind /\ r \in A THEN amount ELSE 0)
               /\ Held(of, A)' \in Nat /\ Held(of, A) \in Nat
    <3>1. Part({}, of, A) = {} /\ Part({new}, of, A) = IF of = kind /\ r \in A THEN {new} ELSE {}
      BY <2>1 DEF Part
    <3>2. Total(Part({new}, of, A)) = (IF of = kind /\ r \in A THEN amount ELSE 0)
          /\ Total(Part({}, of, A)) = 0
      BY <2>4, <3>1
    <3>3. /\ Held(of, A)' + Total(Part({}, of, A)) <= Held(of, A) + Total(Part({new}, of, A))
          /\ Held(of, A)' \in Nat /\ Held(of, A) \in Nat
      <4>1. {} \subseteq Unspent
        OBVIOUS
      <4>. QED
        BY <2>4, <2>5, <4>1, HeldChanges
    <3>. QED
      BY <3>2, <3>3
  <2>7. ASSUME NEW of \in Kinds, NEW A
        PROVE  /\ Elsewhere(of, A)' = Elsewhere(of, A) - (IF of = kind /\ o \in A THEN amount ELSE 0)
               /\ Elsewhere(of, A) \in Nat
    <3>1. Elsewhere(of, A) \in Nat
      BY SumsAreNat
    <3>2. CASE of = kind
      <4>1. /\ others'[of][o] = others[of][o] + (0 - amount) /\ 0 - amount \in Int
            /\ \A x \in Origins \ {o} : others'[of][x] = others[of][x]
        BY <1>3, <2>2, <3>2
      <4>2. Elsewhere(of, A)' = Elsewhere(of, A) + (IF o \in A THEN 0 - amount ELSE 0)
        BY <4>1, OneElsewhere
      <4>. QED
        BY <3>1, <3>2, <4>2
    <3>3. CASE of # kind
      <4>1. \A x \in Origins : others'[of][x] = others[of][x]
        BY <1>3, <2>2, <3>3
      <4>2. Elsewhere(of, A)' = Elsewhere(of, A)
        BY <4>1, SameElsewhere
      <4>. QED
        BY <3>1, <3>3, <4>2
    <3>. QED
      BY <3>2, <3>3
  <2>8. "token" \in Kinds /\ "right" \in Kinds
    BY DEF Kinds
  <2>9. \A A : MintedIn(A)' = MintedIn(A) /\ MintedIn(A) \in Nat
    BY <1>2, MintedStays, MintedType
  <2>10. ASSUME NEW A \in SUBSET Nodes, ClosedIn(parents', A)
         PROVE  Tokens(A)' + MintedIn(A) <= Tokens(A) + MintedIn(A)'
    <3>1. r \in A => o \in A
      BY <1>4, <2>10
    <3>. QED
      BY <2>6, <2>7, <2>8, <2>9, <3>1 DEF Tokens
  <2>11. Rights' + MintedIn(Nodes)' <= Rights + MintedIn(Nodes)
    BY <1>2, <2>6, <2>7, <2>8, <2>9 DEF Rights
  <2>. QED
    BY <1>4, <2>10, <2>11 DEF Conserves
<1>. QED
  BY <1>1, <1>5, <1>6 DEF ReceivesFrom


LEMMA SettleConserves ==
  ASSUME TypeInv, TypeInv', NEW r \in Receives, ReceiveSettles(r) PROVE Conserves
<1>1. /\ Done' = Done /\ UNCHANGED <<allocs, others, minted, parents>>
      /\ Synced \/ NotSynced
  BY SettleHappened DEF ReceiveSettles
<1>2. RowProgress
  BY <1>1, SyncedRows DEF TypeInv, TypeOK
<1>. QED
  BY <1>1, <1>2, StillConserves DEF ClosedIn

LEMMA DraftConserves ==
  ASSUME TypeInv, TypeInv', HistoryInv, NEW t \in Outgoing, Drafts(t) PROVE Conserves
<1>1. Done' = Done /\ t \notin Happened /\ t \in Nodes /\ UNCHANGED <<allocs, others, rows>>
  BY DraftHappened, NodeFacts DEF Drafts
<1>2. \A x \in Done : minted'[x] = minted[x]
  <2>1. t \notin Done
    BY <1>1, HappenedFacts, NodeFacts DEF Done
  <2>. QED
    BY <2>1, DoneFacts DEF Drafts
<1>3. parents[t] = {} /\ \A x \in Nodes \ {t} : parents'[x] = parents[x]
  BY <1>1 DEF HistoryInv, Drafts
<1>4. \A A \in SUBSET Nodes : ClosedIn(parents', A) => ClosedIn(parents, A)
  BY <1>1, <1>3 DEF ClosedIn
<1>5. RowProgress
  BY <1>1, SameRows
<1>. QED
  BY <1>1, <1>2, <1>4, <1>5, StillConserves

LEMMA CalmConserves ==
  ASSUME TypeInv, TypeInv', [Next]_vars, Calm PROVE Conserves
<1>1. Done' = Done /\ RowProgress
  BY CalmHappened, ChainProgresses DEF ChainProgress, TypeInv, TypeOK
<1>. QED
  BY <1>1, StillConserves DEF ClosedIn, Calm

(* A broadcast that does not panic marks its inputs spent, even if its     *)
(* sync fails; what it took was not spent before.                          *)
LEMMA BroadcastSpends ==
  ASSUME ChainTypeOK, NEW t \in Outgoing, EndBroadcast(t), ~panicked'
  PROVE  \A u \in External \cap inputs[t] : rows'[u] = "spent"
<1>1. /\ t \in Txs /\ Public(t)' /\ inputs' = inputs
  BY ColoredOutputs, BroadcastProgress, BroadcastFacts
<1>2. CASE BroadcastSyncFails(t)
  BY <1>2 DEF BroadcastSyncFails, SpendRows
<1>3. ASSUME NEW b \in Broadcasts(t, FALSE, Indexed'), Saves(t, b.rows)
      PROVE  \A u \in External \cap inputs[t] : rows'[u] = "spent"
  <2>1. \A u \in External \cap inputs[t] : b.rows[u] = "spent"
    BY <1>1, BroadcastRows
  <2>2. rows' = [u \in External |-> IF u = ChangeOf(t) /\ b.rows[u] = "none"
                                    THEN "expected" ELSE b.rows[u]]
    BY <1>3 DEF Saves
  <2>4. \A u \in External : b.rows[u] = "spent" => rows'[u] = "spent"
    BY <2>2
  <2>. QED
    BY <2>1, <2>4
<1>. QED
  BY <1>2, <1>3 DEF EndBroadcast, BroadcastPanics

LEMMA TakesUnspent ==
  ASSUME TypeInv, CoreInv, NEW t \in Outgoing, tx[t] = "prepared", Acceptable(t)
  PROVE  plan[t].takes \subseteq Unspent /\ \A k \in plan[t].takes : k.txo \in External \cap inputs[t]
<1>1. GoodPlan(t) /\ t \in Txs
  BY ColoredOutputs DEF CoreInv, PlanInv
<1>2. ASSUME NEW k \in plan[t].takes PROVE k \in Unspent /\ k.txo \in External \cap inputs[t]
  <2>1. k \in allocs /\ k.txo \in inputs[t] /\ k.txo \in External
    BY <1>1 DEF GoodPlan, TypeInv, TypeOK, Allocations
  <2>2. rows[k.txo] # "spent"
    <3>1. ASSUME rows[k.txo] = "spent" PROVE FALSE
      <4>1. PICK x \in Txs : Public(x) /\ k.txo \in inputs[x]
        BY <2>1, <3>1 DEF CoreInv, SpentInv
      <4>2. x # t
        BY <4>1 DEF Public
      <4>. QED
        BY <2>1, <4>1, <4>2 DEF Acceptable
    <3>. QED
      BY <3>1
  <2>. QED
    BY <2>1, <2>2 DEF Unspent
<1>. QED
  BY <1>2

LEMMA GivesElsewhere ==
  ASSUME TypeInv, NEW t \in Outgoing, GivesAway(t), NEW kind \in Kinds, NEW A
  PROVE  /\ Elsewhere(kind, A)' <= Elsewhere(kind, A) + Gives(t, kind, A)
         /\ Gives(t, kind, A) \in Nat /\ Elsewhere(kind, A) \in Nat /\ Elsewhere(kind, A)' \in Int
<1>1. Elsewhere(kind, A) \in Nat
  BY SumsAreNat
<1>2. /\ plan[t].kind \in Kinds /\ plan[t].gives \in Nat /\ others \in [Kinds -> [Origins -> Nat]]
  <2>1. plan[t] \in PlanType
    BY TypeParts DEF TypeInv, AssetTypeOK
  <2>. QED
    BY <2>1 DEF PlanType, TypeInv, TypeOK
<1>3. Gives(t, kind, A) \in Nat
  BY <1>2 DEF Gives
<1>4. CASE t \in Sends /\ kind = plan[t].kind
  <2> DEFINE more == plan[t].gives - others[kind][t]
  <2>1. t \in Origins /\ others' = [others EXCEPT ![kind][t] = plan[t].gives]
    BY <1>4 DEF Origins, GivesAway
  <2>2. /\ others'[kind][t] = others[kind][t] + more /\ more \in Int /\ more <= plan[t].gives
        /\ \A x \in Origins \ {t} : others'[kind][x] = others[kind][x]
    BY <1>2, <2>1
  <2> HIDE DEF more
  <2>3. Elsewhere(kind, A)' = Elsewhere(kind, A) + (IF t \in A THEN more ELSE 0)
    BY <2>1, <2>2, OneElsewhere
  <2>4. Gives(t, kind, A) = IF t \in A THEN plan[t].gives ELSE 0
    BY <1>4 DEF Gives
  <2>. QED
    BY <1>1, <1>2, <2>2, <2>3, <2>4
<1>5. CASE ~(t \in Sends /\ kind = plan[t].kind)
  <2>1. \A x \in Origins : others'[kind][x] = others[kind][x]
    BY <1>2, <1>5 DEF GivesAway
  <2>2. Elsewhere(kind, A)' = Elsewhere(kind, A)
    BY <2>1, SameElsewhere
  <2>. QED
    BY <1>1, <1>3, <2>2
<1>. QED
  BY <1>4, <1>5

LEMMA BroadcastConserves ==
  ASSUME TypeInv, TypeInv', CoreInv, BalanceInv, NEW t \in Outgoing, EndBroadcast(t), ~panicked'
  PROVE  Conserves
<1>1. /\ tx[t] = "prepared" /\ Acceptable(t) /\ GivesAway(t) /\ UNCHANGED parents
      /\ (SavesAsset(t) \/ UNCHANGED allocs) /\ TokensBalance(t) /\ RightsBalance(t) /\ t \in Nodes
      /\ ChainTypeOK
  BY BroadcastFacts, BroadcastProgress, NodeFacts DEF BalanceInv, TypeInv, TypeOK
<1> DEFINE T == plan[t].takes
           B == plan[t].brings
<1>2. T \subseteq Unspent /\ \A k \in T : k.txo \in External /\ rows'[k.txo] = "spent"
  BY <1>1, TakesUnspent, BroadcastSpends
<1>3. Summable(B)
  <2>1. plan[t] \in PlanType /\ IsFiniteSet(B)
    BY TypeParts DEF TypeInv, AssetTypeOK, FiniteInv
  <2>. QED
    BY <2>1 DEF PlanType, Summable, Allocations
<1>4. Unspent' \subseteq (Unspent \ T) \cup B
  <2>1. RowProgress
    BY <1>1, BroadcastProgress DEF ChainProgress
  <2>2. allocs' \subseteq allocs \cup B
    BY <1>1 DEF SavesAsset
  <2>3. \A k \in allocs : k.txo \in External
    BY DEF TypeInv, TypeOK, Allocations
  <2>. QED
    BY <1>2, <2>1, <2>2, <2>3 DEF Unspent, RowProgress
<1> HIDE DEF T, B
<1>5. ASSUME NEW kind \in Kinds, NEW A
      PROVE  /\ Held(kind, A)' + Total(Part(T, kind, A)) <= Held(kind, A) + Total(Part(B, kind, A))
             /\ Held(kind, A)' \in Nat /\ Total(Part(T, kind, A)) \in Nat
             /\ Held(kind, A) \in Nat /\ Total(Part(B, kind, A)) \in Nat
             /\ Elsewhere(kind, A)' <= Elsewhere(kind, A) + Gives(t, kind, A)
             /\ Gives(t, kind, A) \in Nat /\ Elsewhere(kind, A) \in Nat /\ Elsewhere(kind, A)' \in Int
  BY <1>1, <1>2, <1>3, <1>4, HeldChanges, GivesElsewhere
<1>6. \A A : /\ MintedIn(A)' = MintedIn(A) + Mints(t, A) /\ MintedIn(A) \in Nat /\ Mints(t, A) \in Nat
  <2>1. \A A : Mints(t, A) \in Nat
    BY DEF Mints, TypeInv, TypeOK, Minters
  <2>. QED
    BY <2>1, MintedByBroadcast, MintedType
<1>7. "token" \in Kinds /\ "right" \in Kinds
  BY DEF Kinds
<1>8. ASSUME NEW A \in SUBSET Nodes, ClosedIn(parents', A)
      PROVE  ClosedIn(parents, A) /\ Tokens(A)' + MintedIn(A) <= Tokens(A) + MintedIn(A)'
  <2>1. ClosedIn(parents, A) /\ (t \in A => parents[t] \subseteq A)
    BY <1>1, <1>8 DEF ClosedIn
  <2>2. Total(Part(B, "token", A)) + Gives(t, "token", A) <= Total(Part(T, "token", A)) + Mints(t, A)
    BY <1>1, <2>1 DEF TokensBalance, T, B
  <2>. QED
    BY <1>5, <1>6, <1>7, <2>1, <2>2 DEF Tokens
<1>9. Rights' + MintedIn(Nodes)' <= Rights + MintedIn(Nodes)
  <2>1. Total(Part(B, "right", Nodes)) + Gives(t, "right", Nodes) + Mints(t, Nodes)
           <= Total(Part(T, "right", Nodes))
    BY <1>1 DEF RightsBalance, T, B
  <2>. QED
    BY <1>5, <1>6, <1>7, <2>1 DEF Rights
<1>. QED
  BY <1>8, <1>9 DEF Conserves


(* Before the asset is issued nothing of it is anywhere.                   *)
LEMMA NothingUnissued ==
  ASSUME TypeInv, FreshInv, Unissued
  PROVE  /\ allocs = {} /\ \A x \in Minters : minted[x] = 0
         /\ \A A : /\ \A kind \in Kinds : Elsewhere(kind, A) = 0
                   /\ MintedIn(A) = 0
<1>1. Fresh
  BY NodeFacts, ColoredOutputs DEF Unissued, Fresh
<1>2. allocs = {} /\ \A x \in Minters : minted[x] = 0
  BY <1>1 DEF Fresh, FreshInv, TypeInv, IssueInv
<1>3. ASSUME NEW A PROVE MintedIn(A) = 0
  <2>1. IsFiniteSet(Done \cap A) /\ \A x \in Done \cap A : minted[x] = 0
    BY <1>2, DoneFacts
  <2>. QED
    BY <2>1, SumZero DEF MintedIn
<1>4. ASSUME NEW A, NEW kind \in Kinds PROVE Elsewhere(kind, A) = 0
  <2>1. IsFiniteSet(Origins \cap A) /\ \A x \in Origins \cap A : others[kind][x] = 0
    BY SumsAreNat DEF Unissued
  <2>. QED
    BY <2>1, SumZero DEF Elsewhere
<1>. QED
  BY <1>2, <1>3, <1>4

LEMMA IssueTotals ==
  ASSUME TypeInv, TypeInv', FreshInv, IssueAssetIfa PROVE TokensInv' /\ RightsInv'
<1>1. PICK u, v \in Free : allocs' = Issued(u, v)
  BY DEF IssueAssetIfa
<1> DEFINE token == Alloc(u, "token", IssuedTokens, Issue)
           right == Alloc(v, "right", IssuedRights, Issue)
<1>2. /\ token.kind = "token" /\ right.kind = "right"
      /\ token.amount = IssuedTokens /\ right.amount = IssuedRights
      /\ allocs' \subseteq {token, right}
  BY <1>1 DEF Alloc, Issued
<1>3. UNCHANGED <<tx, status, minted, others>>
  BY DEF IssueAssetIfa, chainVars
<1>4. IssuedTokens \in Nat /\ IssuedRights \in Nat /\ "token" \in Kinds /\ "right" \in Kinds
  BY AssetAssumption DEF Kinds
<1> HIDE DEF token, right
<1>5. ASSUME NEW A
      PROVE  /\ Held("token", A)' <= IssuedTokens /\ Held("right", A)' <= IssuedRights
             /\ Held("token", A)' \in Nat /\ Held("right", A)' \in Nat
  <2>1. Summable({token}) /\ Total({token}) = IssuedTokens
        /\ Summable({right}) /\ Total({right}) = IssuedRights
    BY <1>2, <1>4, TotalOfOne
  <2>2. Part(Unspent', "token", A) \subseteq {token} /\ Part(Unspent', "right", A) \subseteq {right}
    BY <1>2 DEF Part, Unspent
  <2>3. /\ Total(Part(Unspent', "token", A)) <= IssuedTokens
        /\ Total(Part(Unspent', "right", A)) <= IssuedRights
        /\ Total(Part(Unspent', "token", A)) \in Nat /\ Total(Part(Unspent', "right", A)) \in Nat
    BY <2>1, <2>2, TotalOfPart
  <2>4. Held("token", A)' = Total(Part(Unspent', "token", A))
        /\ Held("right", A)' = Total(Part(Unspent', "right", A))
    BY DEF Held, Part
  <2>. QED
    BY <2>3, <2>4
<1>6. ASSUME NEW A
      PROVE  /\ Elsewhere("token", A)' = 0 /\ Elsewhere("right", A)' = 0 /\ MintedIn(A)' = 0
  <2>1. /\ Elsewhere("token", A)' = Elsewhere("token", A)
        /\ Elsewhere("right", A)' = Elsewhere("right", A)
    BY <1>3, <1>4, SameElsewhere
  <2>2. MintedIn(A)' = MintedIn(A)
    BY <1>3, SameHappened, MintedStays DEF Public
  <2>. QED
    BY <1>4, <2>1, <2>2, NothingUnissued DEF IssueAssetIfa
<1>7. ASSUME NEW A PROVE Tokens(A)' <= IssuedTokens + MintedIn(A)'
  BY <1>4, <1>5, <1>6 DEF Tokens
<1>8. Rights' + MintedIn(Nodes)' <= IssuedRights
  BY <1>4, <1>5, <1>6 DEF Rights
<1>. QED
  BY <1>7, <1>8 DEF TokensInv, RightsInv

LEMMA ElsewhereTotals ==
  ASSUME TypeInv, TypeInv', FreshInv, IssuedElsewhere PROVE TokensInv' /\ RightsInv'
<1>1. /\ others' = [others EXCEPT !["token"][Issue] = IssuedTokens, !["right"][Issue] = IssuedRights]
      /\ UNCHANGED <<tx, status, minted, allocs>> /\ Unissued
      /\ others \in [Kinds -> [Origins -> Nat]]
  BY DEF IssuedElsewhere, chainVars, TypeInv, TypeOK
<1>2. /\ IssuedTokens \in Nat /\ IssuedRights \in Nat /\ "token" \in Kinds /\ "right" \in Kinds
      /\ Issue \in Origins /\ Issue \in Nodes
  BY AssetAssumption, NodeFacts DEF Kinds, Origins
<1>3. ASSUME NEW A, Issue \in A
      PROVE  Elsewhere("token", A)' = IssuedTokens /\ Elsewhere("right", A)' = IssuedRights
  <2>1. /\ others'["token"][Issue] = others["token"][Issue] + IssuedTokens
        /\ others'["right"][Issue] = others["right"][Issue] + IssuedRights
        /\ \A x \in Origins \ {Issue} : /\ others'["token"][x] = others["token"][x]
                                        /\ others'["right"][x] = others["right"][x]
    BY <1>1, <1>2 DEF Unissued
  <2>2. /\ Elsewhere("token", A)' = Elsewhere("token", A) + (IF Issue \in A THEN IssuedTokens ELSE 0)
        /\ Elsewhere("right", A)' = Elsewhere("right", A) + (IF Issue \in A THEN IssuedRights ELSE 0)
    BY <1>2, <2>1, OneElsewhere
  <2>3. Elsewhere("token", A) = 0 /\ Elsewhere("right", A) = 0
    BY <1>1, <1>2, NothingUnissued
  <2>. QED
    BY <1>2, <1>3, <2>2, <2>3
<1>4. ASSUME NEW A, NEW kind \in Kinds PROVE Held(kind, A)' = 0
  <2>1. Unspent' = {}
    BY <1>1, NothingUnissued DEF Unspent
  <2>2. Part(Unspent', kind, A) = {}
    BY <2>1 DEF Part
  <2>3. Held(kind, A)' = Total(Part(Unspent', kind, A))
    BY DEF Held, Part
  <2>. QED
    BY <2>2, <2>3, TotalOfOne
<1>5. ASSUME NEW A PROVE MintedIn(A)' = 0
  <2>1. MintedIn(A)' = MintedIn(A)
    BY <1>1, SameHappened, MintedStays DEF Public
  <2>. QED
    BY <1>1, <2>1, NothingUnissued
<1>6. ASSUME NEW A, Issue \in A PROVE Tokens(A)' <= IssuedTokens + MintedIn(A)'
  BY <1>2, <1>3, <1>4, <1>5, <1>6 DEF Tokens
<1>7. Rights' + MintedIn(Nodes)' <= IssuedRights
  BY <1>2, <1>3, <1>4, <1>5 DEF Rights
<1>. QED
  BY <1>6, <1>7 DEF TokensInv, RightsInv

(* A panic leaves what the wallet shows as it was, for good.               *)
PanicStop ==
  panicked' => /\ UNCHANGED <<allocs, known, rows>>
               /\ \A x \in Colored : status'[x] = "Settled" => status[x] = "Settled"

LEMMA VanillaPanics ==
  ASSUME VanillaNext PROVE ~panicked /\ (panicked' => UNCHANGED rows)
<1>1. ASSUME NEW t, NEW skipSync, VanillaEnds(t, skipSync) PROVE ~panicked /\ (panicked' => UNCHANGED rows)
  BY <1>1 DEF VanillaEnds, BroadcastPanics, BroadcastSyncFails, BroadcastCompletes
<1>2. ASSUME NEW t, CreateUtxosBegin(t) \/ SendBtcBegin(t) \/ DrainToBegin(t)
      PROVE  ~panicked /\ ~panicked'
  BY <1>2 DEF CreateUtxosBegin, SendBtcBegin, DrainToBegin, VanillaBegins
<1>3. Sync => ~panicked /\ ~panicked'
  BY DEF Sync
<1>. QED
  BY <1>1, <1>2, <1>3 DEF VanillaNext, CreateUtxosEnd, SendBtcEnd, DrainToEnd

LEMMA PanicStops ==
  ASSUME TypeInv, [Next]_vars PROVE PanicStop /\ (panicked => panicked')
<1>1. CASE UNCHANGED <<allocs, known, rows, status, panicked>>
  BY <1>1 DEF PanicStop
<1>2. CASE UNCHANGED vars \/ (NetworkNext /\ UNCHANGED assetVars)
  BY <1>1, <1>2 DEF vars, chainVars, assetVars, NetworkNext, Index
<1>3. CASE VanillaNext /\ UNCHANGED assetVars
  BY <1>3, VanillaPanics DEF PanicStop, assetVars
<1>4. CASE IssuedElsewhere \/ SendAborted \/ (\E o \in OthersInflations : OthersInflate(o))
           \/ (\E s \in Sends : SendBegin(s)) \/ (\E r \in Receives : Pay(r))
  BY <1>1, <1>4 DEF IssuedElsewhere, SendAborted, OthersInflate, SendBegin, Pay, Paid, chainVars, assetVars
<1>5. CASE IssueAssetIfa \/ (\E r \in Receives : WaitConsignment(r) \/ ReceiveSettles(r))
           \/ (\E i \in Inflations : InflateBegin(i)) \/ (\E t \in Outgoing : OutgoingSettles(t))
  <2>1. ~panicked /\ panicked' = panicked
    <3>1. ASSUME NEW r \in Receives, WaitConsignment(r) \/ ReceiveSettles(r)
          PROVE  ~panicked /\ panicked' = panicked
      BY <3>1 DEF WaitConsignment, ReceiveSettles, Ready
    <3>2. ASSUME NEW i \in Inflations, InflateBegin(i) PROVE ~panicked /\ panicked' = panicked
      BY <3>2 DEF InflateBegin, Ready
    <3>3. ASSUME NEW t \in Outgoing, OutgoingSettles(t) PROVE ~panicked /\ panicked' = panicked
      BY <3>3 DEF OutgoingSettles, Ready, chainVars
    <3>4. IssueAssetIfa => ~panicked /\ panicked' = panicked
      BY DEF IssueAssetIfa, Ready, chainVars
    <3>. QED
      BY <1>5, <3>1, <3>2, <3>3, <3>4
  <2>. QED
    BY <2>1 DEF PanicStop
<1>6. ASSUME NEW s \in Sends, SendAttempt(s) PROVE PanicStop /\ (panicked => panicked')
  <2>1. UNCHANGED <<allocs, known, rows, panicked>>
        /\ (status' = status \/ status' = [status EXCEPT ![s] = "Refused"])
    BY <1>6 DEF SendAttempt
  <2>2. status \in [Colored -> Statuses]
    BY DEF TypeInv, TypeOK
  <2>. QED
    BY <2>1, <2>2 DEF PanicStop
<1>7. ASSUME NEW t \in Outgoing, EndBroadcast(t) PROVE PanicStop /\ (panicked => panicked')
  <2>1. ~panicked
    BY <1>7 DEF EndBroadcast, Ready
  <2>2. panicked' => UNCHANGED <<rows, allocs, status, known>>
    BY <1>7, <2>1 DEF EndBroadcast, BroadcastPanics, BroadcastSyncFails, Saves
  <2>. QED
    BY <2>1, <2>2 DEF PanicStop
<1>. QED
  BY <1>2, <1>3, <1>4, <1>5, <1>6, <1>7 DEF Next, Outgoing

LEMMA TotalsStep ==
  ASSUME TypeInv, TypeInv', CoreInv, RetryInv, HistoryInv, BalanceInv, FreshInv, TokensInv, RightsInv,
         [Next]_vars
  PROVE  TokensInv' /\ RightsInv'
<1>1. CASE panicked'
  BY <1>1 DEF TokensInv, RightsInv
<1>2. CASE ~panicked'
  <2>1. ~panicked
    BY <1>2, PanicStops
  <2>2. Conserves => TokensInv' /\ RightsInv'
    BY <2>1, ConservedTotals
  <2>. QED
    BY <1>2, <2>2, SupplySteps, CalmConserves, IssueTotals, ElsewhereTotals, OthersConserve,
       WaitConserves, SettleConserves, DraftConserves, BroadcastConserves
<1>. QED
  BY <1>1, <1>2


-----------------------------------------------------------------------------
(* The wallet never owns more than the supply it shows.                    *)

SupplyInv ==
  /\ TypeInv /\ CoreInv /\ RetryInv /\ HistoryInv /\ BalanceInv /\ FreshInv /\ StockInv
  /\ KnownInv /\ TokensInv /\ RightsInv

LEMMA SupplyInit == Init => SupplyInv
<1> SUFFICES ASSUME Init PROVE SupplyInv
  OBVIOUS
<1>1. TypeInv /\ CoreInv /\ HistoryInv
  BY TypeInvInit, CoreInit, HistoryInit
<1>2. /\ allocs = {} /\ known = NoAsset /\ stock = {} /\ sending = NoSend
      /\ \A x \in Minters : minted[x] = 0
      /\ \A kind \in Kinds, o \in Origins : others[kind][o] = 0
  BY DEF Init
<1>3. \A t \in Outgoing : tx[t] = "none"
  <2>1. \A t \in Outgoing : t \in Txs /\ t \notin Funding
    BY ColoredOutputs, TransactionsAssumption
  <2>. QED
    BY <2>1 DEF Init, ChainInit
<1>4. RetryInv
  BY <1>2, NoSendInv DEF RetryInv
<1>5. BalanceInv /\ FreshInv /\ KnownInv
  BY <1>2, <1>3 DEF BalanceInv, FreshInv, KnownInv
<1>6. StockInv
  BY <1>2, <1>3 DEF StockInv, Outgoing
<1>7. Unissued
  <2>1. \A t \in Colored : t \in Txs /\ t \notin Funding
    BY TransactionsAssumption DEF Txs
  <2>2. \A t \in Colored : status[t] = "none" /\ tx[t] = "none"
    BY <2>1 DEF Init, ChainInit
  <2>. QED
    BY <1>2, <2>2 DEF Unissued
<1>8. ASSUME NEW A PROVE Tokens(A) = 0 /\ Rights = 0 /\ MintedIn(A) = 0
  <2>1. "token" \in Kinds /\ "right" \in Kinds
    BY DEF Kinds
  <2>2. \A kind, B : Part(Unspent, kind, B) = {}
    BY <1>2 DEF Part, Unspent
  <2>3. \A kind, B : Held(kind, B) = 0
    BY <2>2, TotalOfOne DEF Held
  <2>4. \A B : /\ \A kind \in Kinds : Elsewhere(kind, B) = 0
               /\ MintedIn(B) = 0
    BY <1>1, <1>5, <1>7, NothingUnissued
  <2>. QED
    BY <2>1, <2>3, <2>4 DEF Tokens, Rights
<1>9. TokensInv /\ RightsInv
  BY <1>8, AssetAssumption DEF TokensInv, RightsInv
<1>. QED
  BY <1>1, <1>4, <1>5, <1>6, <1>9 DEF SupplyInv

LEMMA SupplyStep == SupplyInv /\ [Next]_vars => SupplyInv'
<1> SUFFICES ASSUME SupplyInv, [Next]_vars PROVE SupplyInv'
  OBVIOUS
<1>1. TypeInv' /\ CoreInv' /\ RetryInv'
  BY TypeInvStep, CoreStep, RetryStep DEF SupplyInv
<1>2. HistoryInv' /\ BalanceInv' /\ FreshInv' /\ StockInv'
  BY PastStep, BalanceStep, FreshStep, StockStep DEF SupplyInv
<1>3. KnownInv'
  BY <1>1, <1>2, KnownStep DEF SupplyInv
<1>4. TokensInv' /\ RightsInv'
  BY <1>1, TotalsStep DEF SupplyInv
<1>. QED
  BY <1>1, <1>2, <1>3, <1>4 DEF SupplyInv

LEMMA OwnedFacts ==
  ASSUME TypeInv, NEW kind
  PROVE  /\ Summable(Owned(kind)) /\ Total(Owned(kind)) \in Nat
         /\ \A k \in Owned(kind) : k \in Unspent /\ k.kind = kind /\ k.source \in Nodes
         /\ \A k \in Owned(kind) : k.by \in Receives => status[k.by] = "Settled"
<1>1. Owned(kind) \subseteq allocs
  BY DEF Owned
<1>2. Summable(Owned(kind)) /\ Total(Owned(kind)) \in Nat
  BY <1>1, AllocsSummable DEF TypeInv
<1>3. \A k \in Owned(kind) : k \in Unspent /\ k.kind = kind /\ k.source \in Nodes
  BY <1>1 DEF Owned, Unspent, TypeInv, TypeOK, Allocations
<1>4. \A k \in Owned(kind) : k.by \in Receives => status[k.by] = "Settled"
  BY NodeFacts DEF Owned, IsSettled
<1>. QED
  BY <1>2, <1>3, <1>4

LEMMA OwnedIsKnown ==
  ASSUME SupplyInv, ~panicked PROVE OwnedWithinKnown
<1>1. TypeInv
  BY DEF SupplyInv
<1>2. CASE known = NoAsset
  <2>1. Owned("token") = {}
    BY <1>1, <1>2 DEF Owned, TypeInv, IssueInv
  <2>. QED
    BY <1>2, <2>1, TotalOfOne DEF OwnedWithinKnown
<1>3. CASE known # NoAsset
  <2>1. PICK A \in SUBSET Happened : Knows(A)
    BY <1>3 DEF SupplyInv, KnownInv
  <2>2. A \in SUBSET Nodes /\ Done \cap A = A \cap Minters
    BY HappenedFacts, DoneFacts
  <2>3. Tokens(A) <= IssuedTokens + MintedIn(A)
    BY <2>1, <2>2 DEF SupplyInv, TokensInv, Knows
  <2>4. Supply(A \cap Minters) = IssuedTokens + MintedIn(A)
    BY <2>2, SupplyIsSum DEF SupplyFormula, MintedIn
  <2>5. Owned("token") \subseteq Part(Unspent, "token", A)
    <3>1. \A k \in Owned("token") : k \in allocs /\ k.source \in A
      BY <1>1, <2>1, OwnedFacts DEF Knows, Owned
    <3>. QED
      BY <1>1, <3>1, OwnedFacts DEF Part
  <2>6. "token" \in Kinds
    BY DEF Kinds
  <2>7. Total(Owned("token")) <= Held("token", A) /\ Total(Owned("token")) \in Nat
    BY <1>1, <2>5, <2>6, SumsAreNat, TotalOfPart DEF Held
  <2>8. Held("token", A) \in Nat /\ Elsewhere("token", A) \in Nat /\ MintedIn(A) \in Nat
    BY <1>1, <2>6, SumsAreNat, MintedType
  <2>9. IssuedTokens + MintedIn(A) <= known /\ known \in Nat /\ IssuedTokens \in Nat
    BY <1>1, <1>3, <2>1, <2>4, AssetAssumption DEF Knows, TypeInv, TypeOK
  <2>. QED
    BY <1>3, <2>3, <2>7, <2>8, <2>9 DEF OwnedWithinKnown, Tokens
<1>. QED
  BY <1>2, <1>3

LEMMA OwnedIsIssued ==
  ASSUME SupplyInv, ~panicked PROVE OwnedWithinIssued
<1>1. TypeInv
  BY DEF SupplyInv
<1>2. ClosedIn(parents, Nodes) /\ Issue \in Nodes
  BY <1>1 DEF ClosedIn, TypeInv, TypeOK, Nodes
<1>3. Tokens(Nodes) <= IssuedTokens + MintedIn(Nodes) /\ Rights + MintedIn(Nodes) <= IssuedRights
  BY <1>2 DEF SupplyInv, TokensInv, RightsInv
<1>4. ASSUME NEW kind \in Kinds
      PROVE  /\ Total(Owned(kind)) <= Held(kind, Nodes) /\ Total(Owned(kind)) \in Nat
             /\ Held(kind, Nodes) \in Nat /\ Elsewhere(kind, Nodes) \in Nat
  <2>1. Owned(kind) \subseteq Part(Unspent, kind, Nodes)
    BY <1>1, OwnedFacts DEF Part
  <2>. QED
    BY <1>1, <2>1, SumsAreNat, TotalOfPart DEF Held
<1>5. "token" \in Kinds /\ "right" \in Kinds /\ MintedIn(Nodes) \in Nat
  BY <1>1, MintedType DEF Kinds
<1>. QED
  BY <1>3, <1>4, <1>5, AssetAssumption DEF OwnedWithinIssued, Tokens, Rights

LEMMA OwnedStops ==
  ASSUME TypeInv, CoreInv, [Next]_vars, panicked', NEW kind
  PROVE  Total(Owned(kind)') <= Total(Owned(kind)) /\ Total(Owned(kind)') \in Nat
<1>1. Owned(kind)' \subseteq Owned(kind)
  <2>1. PanicStop
    BY PanicStops
  <2>2. \A k \in allocs : k.by = Issue \/ k.by \in Colored
    BY BegunFacts DEF CoreInv, OriginInv
  <2>. QED
    BY <2>1, <2>2 DEF PanicStop, Owned, IsSettled
<1>. QED
  BY <1>1, OwnedFacts, TotalOfPart


(* In every reachable state the tokens that the wallet owns are no more    *)
(* than the circulating supply that it shows: whatever others mint and     *)
(* send, the wallet hears of the inflations that its tokens descend from   *)
(* before it owns them.                                                    *)
THEOREM SupplyCoversHoldings == Spec => []OwnedWithinKnown
<1>1. SupplyInv => (~panicked => OwnedWithinKnown)
  BY OwnedIsKnown
<1>2. SupplyInv /\ OwnedWithinKnown /\ [Next]_vars /\ panicked' => OwnedWithinKnown'
  <2> SUFFICES ASSUME SupplyInv, OwnedWithinKnown, [Next]_vars, panicked' PROVE OwnedWithinKnown'
    OBVIOUS
  <2>1. TypeInv /\ CoreInv
    BY DEF SupplyInv
  <2>2. Total(Owned("token")') <= Total(Owned("token")) /\ Total(Owned("token")') \in Nat
        /\ Total(Owned("token")) \in Nat
    BY <2>1, OwnedStops, OwnedFacts
  <2>3. known' = known
    BY <2>1, PanicStops DEF PanicStop
  <2>4. known \in Nat \cup {NoAsset}
    BY <2>1 DEF TypeInv, TypeOK
  <2>5. Total(Owned("token")') <= IF known' = NoAsset THEN 0 ELSE known'
    BY <2>2, <2>3, <2>4 DEF OwnedWithinKnown
  <2>. QED
    BY <2>5 DEF OwnedWithinKnown
<1>3. Init => ~panicked
  BY DEF Init, ChainInit
<1>. QED
  BY <1>1, <1>2, <1>3, SupplyInit, SupplyStep, PTL DEF Spec

(* In every reachable state the tokens and the inflation rights that the   *)
(* wallet owns are together no more than what was issued: no broadcast,    *)
(* failed sync, retry or inflation by others makes the wallet count an     *)
(* allocation at the UTXO it left and at the one it went to.               *)
THEOREM NothingIsOwnedTwice == Spec => []OwnedWithinIssued
<1>1. SupplyInv => (~panicked => OwnedWithinIssued)
  BY OwnedIsIssued
<1>2. SupplyInv /\ OwnedWithinIssued /\ [Next]_vars /\ panicked' => OwnedWithinIssued'
  <2> SUFFICES ASSUME SupplyInv, OwnedWithinIssued, [Next]_vars, panicked' PROVE OwnedWithinIssued'
    OBVIOUS
  <2>1. TypeInv /\ CoreInv
    BY DEF SupplyInv
  <2>2. \A kind : /\ Total(Owned(kind)') <= Total(Owned(kind)) /\ Total(Owned(kind)') \in Nat
                  /\ Total(Owned(kind)) \in Nat
    BY <2>1, OwnedStops, OwnedFacts
  <2>3. Total(Owned("token")') + Total(Owned("right")') <= IssuedTokens + IssuedRights
    BY <2>2, AssetAssumption DEF OwnedWithinIssued
  <2>. QED
    BY <2>3 DEF OwnedWithinIssued
<1>3. Init => ~panicked
  BY DEF Init, ChainInit
<1>. QED
  BY <1>1, <1>2, <1>3, SupplyInit, SupplyStep, PTL DEF Spec
=============================================================================
