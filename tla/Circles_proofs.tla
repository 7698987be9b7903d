--------------------------- MODULE Circles_proofs ---------------------------
(***************************************************************************)
(* The safety of Circles for any number of users, of requests served at    *)
(* the same time, of contracts and of failing calls: IInv is an inductive  *)
(* invariant, and the properties that the runs check follow from it.  The  *)
(* contracts are driven as EtibeCircle specifies.                          *)
(***************************************************************************)
EXTENDS Circles, TLAPS, FiniteSetTheorems

-----------------------------------------------------------------------------
(* What a step does to the handler it serves                               *)

With(s, step, seen, address) ==
  [op |-> s.op, user |-> s.user, step |-> step, seen |-> seen, address |-> address,
   nonce |-> s.nonce]

Becomes(h, s) == /\ handler' \in [Handlers -> Request] /\ handler'[h] = s
                 /\ \A g \in Handlers \ {h} : handler'[g] = handler[g]

\* It goes to another step, and sees the same circle.
Goes(h, step) ==
  Becomes(h, With(handler[h], step, handler[h].seen, handler[h].address))

\* A handler that is idle is a request.
LEMMA IdleRequest == Idle \in Request
  BY UsersAssumption DEF Idle, Request, Ops, Steps

\* A handler that changes is still one, and the others stay as they are.
LEMMA Put ==
  ASSUME TypeOK, NEW h \in Handlers, NEW s \in Request,
         handler' = [handler EXCEPT ![h] = s]
  PROVE  Becomes(h, s)
  BY DEF TypeOK, Becomes

\* What a step may change of a request.
LEMMA WithRequest ==
  ASSUME NEW s \in Request, NEW step \in Steps, NEW seen \in Circle \cup {NoCircle},
         NEW address \in {0} \cup Addresses
  PROVE  With(s, step, seen, address) \in Request
  BY DEF With, Request

LEMMA WithSeen ==
  ASSUME NEW s \in Request, NEW step, NEW seen
  PROVE  [s EXCEPT !.step = step, !.seen = seen] = With(s, step, seen, s.address)
<1>1. [s EXCEPT !.step = step, !.seen = seen]
        = [[s EXCEPT !.step = step] EXCEPT !.seen = seen]
  OBVIOUS
<1>2. [s EXCEPT !.step = step] = With(s, step, s.seen, s.address)
  BY DEF Request, With
<1>3. [With(s, step, s.seen, s.address) EXCEPT !.seen = seen]
        = With(s, step, seen, s.address)
  BY DEF With
<1>4. QED
  BY <1>1, <1>2, <1>3

LEMMA WithAddress ==
  ASSUME NEW s \in Request, NEW step, NEW address
  PROVE  [s EXCEPT !.step = step, !.address = address] = With(s, step, s.seen, address)
<1>1. [s EXCEPT !.step = step, !.address = address]
        = [[s EXCEPT !.step = step] EXCEPT !.address = address]
  OBVIOUS
<1>2. [s EXCEPT !.step = step] = With(s, step, s.seen, s.address)
  BY DEF Request, With
<1>3. [With(s, step, s.seen, s.address) EXCEPT !.address = address]
        = With(s, step, s.seen, address)
  BY DEF With
<1>4. QED
  BY <1>1, <1>2, <1>3

\* The three ways in which most steps leave a handler.
LEMMA MovesGoes ==
  ASSUME TypeOK, NEW h \in Handlers, NEW step \in Steps, Moves(h, step)
  PROVE  Goes(h, step)
<1> DEFINE s == With(handler[h], step, handler[h].seen, handler[h].address)
<1>1. handler[h] \in Request
  BY DEF TypeOK
<1>2. s \in Request
  BY <1>1, WithRequest DEF Request
<1>3. [handler[h] EXCEPT !.step = step] = s
  BY <1>1 DEF Request, With
<1>4. handler' = [handler EXCEPT ![h] = s]
  BY <1>3 DEF Moves
<1> HIDE DEF s
<1>5. Becomes(h, s)
  BY <1>2, <1>4, Put
<1>6. QED
  BY <1>5 DEF Goes, s

LEMMA EndsIdle ==
  ASSUME TypeOK, NEW h \in Handlers, Ends(h)
  PROVE  Becomes(h, Idle)
  BY IdleRequest, Put DEF Ends

\* It reads the document, for itself or to join.
LEMMA FindByIdBecomes ==
  ASSUME TypeOK, NEW h \in Handlers, FindById(h)
  PROVE  Becomes(h, With(handler[h], "fill", circle, handler[h].address))
<1> DEFINE s == With(handler[h], "fill", circle, handler[h].address)
<1>1. handler[h] \in Request /\ circle \in Circle /\ "fill" \in Steps
  BY DEF TypeOK, Steps
<1>2. s \in Request
  BY <1>1, WithRequest DEF Request
<1>3. [handler[h] EXCEPT !.step = "fill", !.seen = circle] = s
  BY <1>1, WithSeen
<1>4. handler' = [handler EXCEPT ![h] = s]
  BY <1>1, <1>3 DEF FindById, TypeOK
<1> HIDE DEF s
<1>5. Becomes(h, s)
  BY <1>2, <1>4, Put
<1>6. QED
  BY <1>5 DEF s

LEMMA FindForJoinBecomes ==
  ASSUME TypeOK, NEW h \in Handlers, FindForJoin(h)
  PROVE  IF MayJoin(handler[h].user, circle)
         THEN Becomes(h, With(handler[h], "push", circle, handler[h].address))
         ELSE Becomes(h, Idle)
<1>1. CASE ~MayJoin(handler[h].user, circle)
  BY <1>1, EndsIdle DEF FindForJoin
<1>2. CASE MayJoin(handler[h].user, circle)
  <2> DEFINE s == With(handler[h], "push", circle, handler[h].address)
  <2>1. handler[h] \in Request /\ circle \in Circle /\ "push" \in Steps
    BY DEF TypeOK, Steps
  <2>2. s \in Request
    BY <2>1, WithRequest DEF Request
  <2>3. [handler[h] EXCEPT !.step = "push", !.seen = circle] = s
    BY <2>1, WithSeen
  <2>4. handler' = [handler EXCEPT ![h] = s]
    BY <1>2, <2>1, <2>3 DEF FindForJoin, TypeOK
  <2> HIDE DEF s
  <2>5. Becomes(h, s)
    BY <2>2, <2>4, Put
  <2>6. QED
    BY <1>2, <2>5 DEF s
<1>3. QED
  BY <1>1, <1>2

\* It deploys.
LEMMA DeployBecomes ==
  ASSUME TypeOK, NEW h \in Handlers, Deploy(h)
  PROVE  /\ deployed' \in 1..MaxDeploys
         /\ Becomes(h, With(handler[h], IF OnBase THEN "addCreator" ELSE "save",
                            handler[h].seen, deployed'))
<1> DEFINE step == IF OnBase THEN "addCreator" ELSE "save"
           s == With(handler[h], step, handler[h].seen, deployed')
<1>1. handler[h] \in Request /\ step \in Steps
  BY DEF TypeOK, Steps
<1>2. deployed' \in 1..MaxDeploys
  BY BoundAssumption DEF Deploy, TypeOK
<1>3. s \in Request
  BY <1>1, <1>2, WithRequest DEF Request, Addresses
<1>4. [handler[h] EXCEPT !.step = step, !.address = deployed'] = s
  BY <1>1, WithAddress
<1>5. handler' = [handler EXCEPT ![h] = s]
  BY <1>1, <1>4 DEF Deploy, TypeOK
<1> HIDE DEF s
<1>6. Becomes(h, s)
  BY <1>3, <1>5, Put
<1>7. QED
  BY <1>2, <1>6 DEF s

\* It signs.
LEMMA SignNearBecomes ==
  ASSUME TypeOK, NEW h \in Handlers, SignNear(h)
  PROVE  LET s == handler[h]
         IN  Becomes(h, [op |-> s.op, user |-> s.user, step |-> "send", seen |-> s.seen,
                         address |-> s.address, nonce |-> nonces[s.user]])
<1> DEFINE s == handler[h]
           t == [op |-> s.op, user |-> s.user, step |-> "send", seen |-> s.seen,
                 address |-> s.address, nonce |-> nonces[s.user]]
<1>1. s \in Request /\ nonces[s.user] \in Nat
  BY DEF TypeOK, Request
<1>2. t \in Request
  BY <1>1 DEF Request, Steps
<1>3. [s EXCEPT !.step = "send", !.nonce = nonces[s.user]] = t
  <2>1. [s EXCEPT !.step = "send"] = With(s, "send", s.seen, s.address)
    BY <1>1 DEF Request, With
  <2>2. [s EXCEPT !.step = "send", !.nonce = nonces[s.user]]
          = [[s EXCEPT !.step = "send"] EXCEPT !.nonce = nonces[s.user]]
    OBVIOUS
  <2>3. [With(s, "send", s.seen, s.address) EXCEPT !.nonce = nonces[s.user]] = t
    BY DEF With
  <2>4. QED
    BY <2>1, <2>2, <2>3
<1>4. handler' = [handler EXCEPT ![h] = t]
  BY <1>1, <1>3 DEF SignNear, TypeOK
<1> HIDE DEF t
<1>5. Becomes(h, t)
  BY <1>2, <1>4, Put
<1>6. QED
  BY <1>5 DEF t

LEMMA SignNearEffect ==
  ASSUME TypeOK, NEW h \in Handlers, SignNear(h)
  PROVE  /\ handler' \in [Handlers -> Request]
         /\ \A g \in Handlers \ {h} : handler'[g] = handler[g]
         /\ handler'[h].op = handler[h].op /\ handler'[h].user = handler[h].user
         /\ handler'[h].step = "send" /\ handler'[h].seen = handler[h].seen
         /\ handler'[h].address = handler[h].address
         /\ handler'[h].nonce = nonces[handler[h].user]
<1> PICK s : s = handler[h]
  OBVIOUS
<1> PICK n : n = nonces[handler[h].user]
  OBVIOUS
<1>1. Becomes(h, [op |-> s.op, user |-> s.user, step |-> "send", seen |-> s.seen,
                  address |-> s.address, nonce |-> n])
  BY SignNearBecomes
<1>2. QED
  BY <1>1 DEF Becomes

\* It goes on with the circle it has got, or is refused.
LEMMA AfterStep ==
  ASSUME NEW op, NEW u, NEW c, NEW step, step = After(op, u, c)
  PROVE  /\ step \in {"idle", "deploy", "order", "activate", "check"}
         /\ step = "deploy" => op = "activate" /\ MayActivate(u, c)
         /\ step = "order" => op = "start" /\ MayStart(u, c) /\ OnBase
         /\ step = "activate" => op = "start" /\ MayStart(u, c) /\ ~OnBase
         /\ step = "check" => op = "contribute" /\ MayContribute(u, c)
  BY DEF After

LEMMA ContinueBecomes ==
  ASSUME TypeOK, NEW h \in Handlers, NEW c \in Circle \cup {NoCircle}, NEW overtaken,
         NEW step, step = After(handler[h].op, handler[h].user, c),
         Continue(h, c, overtaken)
  PROVE  IF step = "idle" THEN Becomes(h, Idle)
         ELSE Becomes(h, With(handler[h], step, c, handler[h].address))
<1>1. CASE step = "idle"
  BY <1>1, IdleRequest, Put DEF Continue
<1>2. CASE step # "idle"
  <2> DEFINE s == With(handler[h], step, c, handler[h].address)
  <2>1. handler[h] \in Request /\ step \in Steps
    BY AfterStep DEF TypeOK, Steps
  <2>2. s \in Request
    BY <2>1, WithRequest DEF Request
  <2>3. [handler[h] EXCEPT !.step = step, !.seen = c] = s
    BY <2>1, WithSeen
  <2>4. handler' = [handler EXCEPT ![h] = s]
    BY <1>2, <2>3 DEF Continue
  <2> HIDE DEF s
  <2>5. Becomes(h, s)
    BY <2>2, <2>4, Put
  <2>6. QED
    BY <1>2, <2>5 DEF s
<1>3. QED
  BY <1>1, <1>2

\* A request arrives.
LEMMA ReceiveBecomes ==
  ASSUME TypeOK, NEW h \in Handlers, NEW op \in Ops, NEW u \in Users, Receive(h, op, u)
  PROVE  LET s == [op |-> op, user |-> u,
                   step |-> IF op = "join" THEN "join" ELSE "lookup",
                   seen |-> NoCircle, address |-> 0, nonce |-> 0]
         IN  Becomes(h, s)
<1> DEFINE step == IF op = "join" THEN "join" ELSE "lookup"
           s == [op |-> op, user |-> u, step |-> step, seen |-> NoCircle, address |-> 0, nonce |-> 0]
<1>1. s \in Request
  BY DEF Request, Steps
<1>2. [Idle EXCEPT !.op = op, !.user = u, !.step = step] = s
  <2>1. [Idle EXCEPT !.op = op, !.user = u, !.step = step]
          = [[[Idle EXCEPT !.op = op] EXCEPT !.user = u] EXCEPT !.step = step]
    OBVIOUS
  <2>2. [Idle EXCEPT !.op = op] = [op |-> op, user |-> Creator, step |-> "idle",
                                   seen |-> NoCircle, address |-> 0, nonce |-> 0]
    BY DEF Idle
  <2>3. [[op |-> op, user |-> Creator, step |-> "idle", seen |-> NoCircle,
          address |-> 0, nonce |-> 0] EXCEPT !.user = u]
          = [op |-> op, user |-> u, step |-> "idle", seen |-> NoCircle, address |-> 0, nonce |-> 0]
    OBVIOUS
  <2>4. [[op |-> op, user |-> u, step |-> "idle", seen |-> NoCircle,
          address |-> 0, nonce |-> 0] EXCEPT !.step = step] = s
    OBVIOUS
  <2>5. QED
    BY <2>1, <2>2, <2>3, <2>4
<1>3. handler' = [handler EXCEPT ![h] = s]
  BY <1>2 DEF Receive
<1> HIDE DEF s
<1>4. Becomes(h, s)
  BY <1>1, <1>3, Put
<1>5. QED
  BY <1>4 DEF s

-----------------------------------------------------------------------------
(* Types                                                                   *)

\* What has been read of a circle.
LEMMA SeenType ==
  ASSUME NEW c \in Circle \cup {NoCircle}
  PROVE  /\ c.members \in Seq(Member) /\ Len(c.members) \in Nat
         /\ c.address \in {0} \cup Addresses /\ c.round \in Nat
         /\ c.totalRounds \in Nat
         /\ \A i \in 1..Len(c.members) : c.members[i].user \in Users
         /\ UsersOf(c) \subseteq Users
<1>1. CASE c \in Circle
  <2>1. /\ c.members \in Seq(Member) /\ c.address \in {0} \cup Addresses
        /\ c.round \in Nat /\ c.totalRounds \in Nat
    BY <1>1 DEF Circle
  <2>2. \A i \in 1..Len(c.members) : c.members[i] \in Member
    BY <2>1
  <2>3. \A i \in 1..Len(c.members) : c.members[i].user \in Users
    BY <2>2 DEF Member
  <2>4. QED
    BY <2>1, <2>3 DEF UsersOf
<1>2. CASE c = NoCircle
  BY <1>2 DEF NoCircle, UsersOf
<1>3. QED
  BY <1>1, <1>2

\* The changes of the document keep its type.
LEMMA CircleType ==
  ASSUME NEW c \in Circle
  PROVE  /\ \A n \in Nat : [c EXCEPT !.round = n] \in Circle
         /\ \A n \in Nat : [c EXCEPT !.totalRounds = n] \in Circle
         /\ \A a \in {0} \cup Addresses :
              [c EXCEPT !.address = a, !.status = "RECRUITING"] \in Circle
         /\ \A n \in Nat :
              [c EXCEPT !.status = "ACTIVE", !.round = 1, !.totalRounds = n] \in Circle
         /\ \A s \in Seq(Member) : [c EXCEPT !.members = s] \in Circle
<1>1. ASSUME NEW n \in Nat PROVE [c EXCEPT !.round = n] \in Circle
  BY DEF Circle
<1>2. ASSUME NEW n \in Nat PROVE [c EXCEPT !.totalRounds = n] \in Circle
  BY DEF Circle
<1>3. ASSUME NEW a \in {0} \cup Addresses
      PROVE  [c EXCEPT !.address = a, !.status = "RECRUITING"] \in Circle
  BY DEF Circle
<1>4. ASSUME NEW n \in Nat
      PROVE  [c EXCEPT !.status = "ACTIVE", !.round = 1, !.totalRounds = n] \in Circle
  BY DEF Circle
<1>5. ASSUME NEW s \in Seq(Member) PROVE [c EXCEPT !.members = s] \in Circle
  BY DEF Circle
<1>6. QED
  BY <1>1, <1>2, <1>3, <1>4, <1>5

\* The changes of a contract keep its type.
LEMMA ContractType ==
  ASSUME NEW c \in Contract
  PROVE  /\ \A u \in Users : [c EXCEPT !.members = @ \cup {u}] \in Contract
         /\ \A u \in Users : [c EXCEPT !.contributed = @ \cup {u}] \in Contract
         /\ \A order \in Seq(Users) : [c EXCEPT !.order = order] \in Contract
         /\ [c EXCEPT !.active = TRUE] \in Contract
         /\ [c EXCEPT !.deposits = @ + 1] \in Contract
<1>1. ASSUME NEW u \in Users PROVE [c EXCEPT !.members = @ \cup {u}] \in Contract
  BY DEF Contract
<1>2. ASSUME NEW u \in Users PROVE [c EXCEPT !.contributed = @ \cup {u}] \in Contract
  BY DEF Contract
<1>3. ASSUME NEW order \in Seq(Users) PROVE [c EXCEPT !.order = order] \in Contract
  BY DEF Contract
<1>4. [c EXCEPT !.active = TRUE] \in Contract
  BY DEF Contract
<1>5. [c EXCEPT !.deposits = @ + 1] \in Contract
  BY DEF Contract
<1>6. QED
  BY <1>1, <1>2, <1>3, <1>4, <1>5

\* The order that is sent has a place for each member.
LEMMA OrderLength ==
  ASSUME NEW m \in Seq(Member)
  PROVE  /\ Len(PayoutOrder(m)) = Len(m) /\ Len(m) \in Nat
         /\ \A S : (\A k \in 1..Len(m) : PayoutOrder(m)[k] \in S) => PayoutOrder(m) \in Seq(S)
<1> DEFINE f(k) == m[CHOOSE j \in 1..Len(m) : Place(m, j) = k].user
           n == Len(m)
<1>1. n \in Nat
  OBVIOUS
<1>2. PayoutOrder(m) = [k \in 1..n |-> f(k)]
  BY DEF PayoutOrder
<1> HIDE DEF f, n
<1>3. PayoutOrder(m) \in Seq({f(k) : k \in 1..n}) /\ Len(PayoutOrder(m)) = n
  BY <1>1, <1>2
<1>4. ASSUME NEW S, \A k \in 1..n : PayoutOrder(m)[k] \in S
      PROVE  PayoutOrder(m) \in Seq(S)
  BY <1>1, <1>2, <1>4
<1>5. QED
  BY <1>1, <1>3, <1>4 DEF n

\* Positions can be compared.
LEMMA Positions ==
  ASSUME NEW m \in Seq(Member), NEW i \in 1..Len(m)
  PROVE  m[i].position \in Int
<1>1. m[i] \in Member
  OBVIOUS
<1>2. 1..MaxMembers \subseteq Int
  BY MembersAssumption
<1>3. QED
  BY <1>1, <1>2 DEF Member

\* Members at higher positions come later in it.
LEMMA Places ==
  ASSUME NEW m \in Seq(Member), NEW j \in 1..Len(m)
  PROVE  /\ Place(m, j) \in 1..Len(m)
         /\ \A i \in 1..Len(m) : ~Ahead(m, j, i) => Place(m, i) < Place(m, j)
<1> DEFINE n == Len(m)
           S(i) == {k \in 1..n : Ahead(m, k, i)}
<1>1. n \in Nat /\ IsFiniteSet(1..n) /\ Cardinality(1..n) = n
  BY FS_Interval
<1>2. \A i \in 1..n : m[i].position \in Int
  BY Positions
<1>3. \A i \in 1..n : S(i) \in SUBSET (1..n) /\ i \in S(i)
  BY <1>1, <1>2 DEF Ahead
<1>4. \A i \in 1..n : Place(m, i) = Cardinality(S(i))
  BY DEF Place
<1>5. \A i, k \in 1..n : ~Ahead(m, k, i) => S(i) \subseteq S(k) /\ k \notin S(i)
  BY <1>1, <1>2 DEF Ahead
<1> HIDE DEF S
<1>6. \A i \in 1..n : IsFiniteSet(S(i)) /\ Cardinality(S(i)) \in 1..n
  <2> SUFFICES ASSUME NEW i \in 1..n
               PROVE  IsFiniteSet(S(i)) /\ Cardinality(S(i)) \in 1..n
    OBVIOUS
  <2>1. IsFiniteSet(S(i)) /\ Cardinality(S(i)) <= n /\ Cardinality(S(i)) \in Nat
    BY <1>1, <1>3, FS_Subset, FS_CardinalityType
  <2>2. Cardinality(S(i)) # 0
    BY <1>3, <2>1, FS_EmptySet
  <2>3. QED
    BY <1>1, <2>1, <2>2
<1>7. ASSUME NEW i \in 1..n, ~Ahead(m, j, i) PROVE Cardinality(S(i)) < Cardinality(S(j))
  <2>1. S(i) \in SUBSET S(j) /\ S(i) # S(j)
    BY <1>3, <1>5, <1>7
  <2>2. Cardinality(S(i)) <= Cardinality(S(j)) /\ Cardinality(S(i)) # Cardinality(S(j))
    BY <1>6, <2>1, FS_Subset
  <2>3. QED
    BY <1>6, <2>2
<1>8. QED
  BY <1>4, <1>6, <1>7

LEMMA PlaceOf ==
  ASSUME NEW m \in Seq(Member), NEW j \in 1..Len(m)
  PROVE  PayoutOrder(m)[Place(m, j)] = m[j].user
<1> DEFINE k == Place(m, j)
           c == CHOOSE i \in 1..Len(m) : Place(m, i) = k
<1>1. k \in 1..Len(m)
  BY Places
<1>2. c \in 1..Len(m) /\ Place(m, c) = k
  OBVIOUS
<1>3. c = j
  <2>1. \A i \in 1..Len(m) : i # j => ~Ahead(m, j, i) \/ ~Ahead(m, i, j)
    <3>1. /\ \A i \in 1..Len(m) : i \in Int /\ m[i].position \in Int
          /\ j \in Int /\ m[j].position \in Int
      BY Positions
    <3>2. QED
      BY <3>1 DEF Ahead
  <2>2. k \in Int
    BY <1>1
  <2> HIDE DEF c, k
  <2>3. Place(m, j) = k
    BY DEF k
  <2>4. ~(Place(m, c) < Place(m, j)) /\ ~(Place(m, j) < Place(m, c))
    BY <1>2, <2>2, <2>3
  <2>5. Ahead(m, j, c) /\ Ahead(m, c, j)
    BY <1>2, <2>4, Places
  <2>6. QED
    BY <1>2, <2>1, <2>5
<1>4. PayoutOrder(m)[k] = m[c].user
  BY <1>1 DEF PayoutOrder
<1>5. QED
  BY <1>3, <1>4

LEMMA OrderSorted ==
  ASSUME NEW m \in Seq(Member), NEW i \in 1..Len(m), NEW j \in 1..Len(m),
         m[i].position < m[j].position
  PROVE  \E k \in 1..Len(m) : /\ PayoutOrder(m)[k] = m[j].user
                              /\ \E l \in 1..(k - 1) : PayoutOrder(m)[l] = m[i].user
<1>1. m[i].position \in Int /\ m[j].position \in Int
  BY Positions
<1>2. ~Ahead(m, j, i)
  BY <1>1 DEF Ahead
<1>3. Place(m, i) \in 1..Len(m) /\ Place(m, j) \in 1..Len(m) /\ Place(m, i) < Place(m, j)
  BY <1>2, Places
<1>4. PayoutOrder(m)[Place(m, i)] = m[i].user /\ PayoutOrder(m)[Place(m, j)] = m[j].user
  BY PlaceOf
<1> DEFINE k == Place(m, j)
           l == Place(m, i)
<1> HIDE DEF k, l
<1>5. k \in 1..Len(m) /\ l \in 1..(k - 1)
  BY <1>3 DEF k, l
<1>6. QED
  BY <1>4, <1>5 DEF k, l

\* The members that were there when others are appended.
LEMMA Prefix ==
  ASSUME NEW m \in Seq(Member), NEW w \in Seq(Member), NEW n \in 0..Len(m),
         Len(m) <= Len(w), \A i \in 1..Len(m) : w[i] = m[i]
  PROVE  SubSeq(w, 1, n) = SubSeq(m, 1, n)
  OBVIOUS

LEMMA Whole ==
  ASSUME NEW m \in Seq(Member)
  PROVE  SubSeq(m, 1, Len(m)) = m
  OBVIOUS

\* A contract that changes is still one, and the others stay as they are.
LEMMA PutContract ==
  ASSUME TypeOK, NEW a \in {0} \cup Addresses, NEW c \in Contract,
         contract' = [contract EXCEPT ![a] = c]
  PROVE  /\ contract' \in [Addresses -> Contract]
         /\ \A b \in Addresses : contract'[b] = IF b = a THEN c ELSE contract[b]
  BY DEF TypeOK

LEMMA AddOnChainType ==
  ASSUME TypeOK, NEW a \in {0} \cup Addresses, NEW u \in Users, AddOnChain(a, u)
  PROVE  contract' \in [Addresses -> Contract]
<1>1. CASE a \notin Addresses
  BY <1>1 DEF AddOnChain, TypeOK
<1>2. CASE a \in Addresses /\ Accepts(a, u)
  <2> DEFINE c == [contract[a] EXCEPT !.members = @ \cup {u}]
  <2>1. c \in Contract
    BY <1>2, ContractType DEF TypeOK
  <2>2. contract' = [contract EXCEPT ![a] = c]
    BY <1>2 DEF AddOnChain
  <2> HIDE DEF c
  <2>3. QED
    BY <2>1, <2>2, PutContract
<1>3. CASE a \in Addresses /\ ~Accepts(a, u)
  <2>1. contract[a] \in Contract
    BY <1>3 DEF TypeOK
  <2>2. [contract[a] EXCEPT !.members = @] = contract[a]
    BY <2>1 DEF Contract
  <2>3. contract' = [contract EXCEPT ![a] = contract[a]]
    BY <1>3, <2>2 DEF AddOnChain
  <2>4. QED
    BY <2>1, <2>3 DEF TypeOK
<1>4. QED
  BY <1>1, <1>2, <1>3

\* Every step keeps the types.
LEMMA TypeStep ==
  ASSUME TypeOK, HandlersInv, Next
  PROVE  TypeOK'
<1>1. ASSUME NEW h \in Handlers, Serve(h)
      PROVE  TypeOK'
  <2> DEFINE s == handler[h]
  <2>0. s \in Request /\ s.seen \in Circle \cup {NoCircle} /\ s.user \in Users
    BY DEF TypeOK, Request
  <2>1. CASE CacheHit(h)
    BY <2>1, ContinueBecomes DEF CacheHit, Continue, Becomes, TypeOK, chainVars, budgets, Overlapping, Races
  <2>2. CASE CacheMiss(h)
    BY <2>2, MovesGoes DEF CacheMiss, Goes, Becomes, TypeOK, chainVars,
       budgets, Steps
  <2>3. CASE FindById(h)
    BY <2>3, FindByIdBecomes DEF FindById, Becomes, TypeOK, chainVars, budgets
  <2>4. CASE FillCache(h)
    BY <2>0, <2>4, ContinueBecomes DEF FillCache, Continue, Becomes, TypeOK, chainVars, budgets, Overlapping, Races
  <2>5. CASE Invalidate(h)
    BY <2>5, EndsIdle DEF Invalidate, Becomes, TypeOK, chainVars, budgets
  <2>6. CASE StepFails(h)
    BY <2>6, EndsIdle, BoundAssumption
       DEF StepFails, Becomes, TypeOK, chainVars, budgets
  <2>7. CASE Deploy(h)
    <3>1. deployed' \in 0..MaxDeploys /\ handler' \in [Handlers -> Request]
      BY <2>7, DeployBecomes DEF Becomes
    <3>2. QED
      BY <2>7, <3>1 DEF Deploy, TypeOK, budgets
  <2>8. CASE AddCreator(h)
    <3>1. handler' \in [Handlers -> Request]
      BY <2>8, MovesGoes DEF AddCreator, Goes, Becomes, Steps
    <3>2. contract' \in [Addresses -> Contract]
      BY <2>0, <2>8, AddOnChainType, UsersAssumption DEF AddCreator, Request
    <3>3. QED
      BY <2>8, <3>1, <3>2 DEF AddCreator, TypeOK, budgets
  <2>9. CASE SaveActivation(h)
    <3>1. handler' \in [Handlers -> Request]
      BY <2>9, MovesGoes DEF SaveActivation, Goes, Becomes, Steps
    <3>2. circle' \in Circle
      BY <2>0, <2>9, CircleType DEF SaveActivation, TypeOK, Request
    <3>3. QED
      BY <2>9, <3>1, <3>2 DEF SaveActivation, TypeOK, chainVars, budgets
  <2>10. CASE FindForJoin(h)
    BY <2>10, FindForJoinBecomes
       DEF FindForJoin, Becomes, TypeOK, chainVars, budgets
  <2>11. CASE PushMember(h)
    <3>1. handler' \in [Handlers -> Request]
      BY <2>11, MovesGoes DEF PushMember, Goes, Becomes, Steps
    <3>2. Len(s.seen.members) < MaxMembers /\ Len(s.seen.members) \in Nat
      BY <2>0, <2>11, SeenType DEF PushMember, At, HandlersInv, RequestInv, Served, MayJoin
    <3>3. [user |-> s.user, position |-> Len(s.seen.members) + 1] \in Member
      BY <2>0, <3>2, MembersAssumption DEF Member
    <3>4. circle' \in Circle
      <4> DEFINE m == [user |-> s.user, position |-> Len(s.seen.members) + 1]
      <4>1. Append(circle.members, m) \in Seq(Member)
        BY <3>3, SeenType DEF TypeOK
      <4>2. circle' = [circle EXCEPT !.members = Append(circle.members, m)]
        BY <2>11 DEF PushMember
      <4>3. QED
        BY <4>1, <4>2, CircleType DEF TypeOK
    <3>5. QED
      BY <2>11, <3>1, <3>4 DEF PushMember, TypeOK, chainVars, budgets, Races
  <2>12. CASE JoinOnChain(h)
    <3>1. handler' \in [Handlers -> Request]
      BY <2>12, MovesGoes DEF JoinOnChain, Goes, Becomes, Steps
    <3>2. contract' \in [Addresses -> Contract]
      BY <2>0, <2>12, SeenType, AddOnChainType DEF JoinOnChain, TypeOK
    <3>3. QED
      BY <2>12, <3>1, <3>2, BoundAssumption DEF JoinOnChain, TypeOK
  <2>13. CASE SetOrder(h)
    <3>1. handler' \in [Handlers -> Request]
      BY <2>13, MovesGoes, EndsIdle DEF SetOrder, Goes, Becomes, Steps
    <3>2. contract' \in [Addresses -> Contract]
      <4> DEFINE a == s.seen.address
                 order == PayoutOrder(s.seen.members)
      <4>1. a \in {0} \cup Addresses /\ s.seen.members \in Seq(Member)
        BY <2>0, SeenType
      <4>2. CASE a \in Addresses /\ TakesOrder(a, order)
        <5>0. order \in Seq(Users)
          <6>1. contract[a].members \subseteq Users
            BY <4>2 DEF TypeOK, Contract
          <6>2. \A k \in 1..Len(s.seen.members) : order[k] \in Users
            BY <4>1, <4>2, <6>1, OrderLength DEF TakesOrder
          <6>3. QED
            BY <4>1, <6>2, OrderLength
        <5>1. [contract[a] EXCEPT !.order = order] \in Contract
          BY <4>1, <4>2, <5>0, ContractType DEF TypeOK
        <5>2. contract' = [contract EXCEPT ![a] = [contract[a] EXCEPT !.order = order]]
          BY <2>13, <4>2 DEF SetOrder
        <5>3. QED
          BY <4>1, <5>1, <5>2, PutContract
      <4>3. CASE ~(a \in Addresses /\ TakesOrder(a, order))
        BY <2>13, <4>1, <4>3 DEF SetOrder, TypeOK
      <4>4. QED
        BY <4>2, <4>3
    <3>3. QED
      BY <2>13, <3>1, <3>2 DEF SetOrder, TypeOK, budgets
  <2>14. CASE BeginOnChain(h)
    <3>1. handler' \in [Handlers -> Request]
      BY <2>14, MovesGoes, EndsIdle DEF BeginOnChain, Goes, Becomes, Steps
    <3>2. contract' \in [Addresses -> Contract]
      <4> DEFINE a == s.seen.address
      <4>1. CASE a \in Addresses /\ Startable(a)
        <5>1. [contract[a] EXCEPT !.active = TRUE] \in Contract
          BY <4>1, ContractType DEF TypeOK
        <5>2. contract' = [contract EXCEPT ![a] = [contract[a] EXCEPT !.active = TRUE]]
          BY <2>14, <4>1 DEF BeginOnChain
        <5>3. QED
          BY <4>1, <5>1, <5>2, PutContract
      <4>2. CASE a \notin Addresses
        BY <2>14, <4>2 DEF BeginOnChain, TypeOK
      <4>3. CASE ~Startable(a)
        BY <2>14, <4>3 DEF BeginOnChain, TypeOK
      <4>4. QED
        BY <4>1, <4>2, <4>3
    <3>3. QED
      BY <2>14, <3>1, <3>2 DEF BeginOnChain, TypeOK, budgets
  <2>15. CASE SaveStart(h)
    <3>1. handler' \in [Handlers -> Request]
      BY <2>15, MovesGoes DEF SaveStart, Goes, Becomes, Steps
    <3>2. circle' \in Circle
      BY <2>0, <2>15, CircleType, SeenType DEF SaveStart, TypeOK
    <3>3. QED
      BY <2>15, <3>1, <3>2 DEF SaveStart, TypeOK, chainVars, budgets, Races
  <2>16. CASE CheckContribution(h)
    BY <2>16, MovesGoes, EndsIdle DEF CheckContribution, Goes, Becomes, TypeOK, chainVars, budgets, Steps
  <2>17. CASE PayEth(h)
    <3>1. handler' \in [Handlers -> Request]
      BY <2>17, MovesGoes DEF PayEth, Goes, Becomes, Steps
    <3>2. contract' \in [Addresses -> Contract]
      BY <2>17, ContractType DEF PayEth, TypeOK
    <3>3. QED
      BY <2>0, <2>17, <3>1, <3>2 DEF PayEth, Pays, TypeOK, budgets
  <2>18. CASE PayToken(h)
    <3>1. handler' \in [Handlers -> Request]
      BY <2>18, MovesGoes, EndsIdle DEF PayToken, Goes, Becomes, Steps
    <3>2. contract' \in [Addresses -> Contract]
      <4> DEFINE a == s.seen.address
      <4>1. a \in {0} \cup Addresses
        BY <2>0, SeenType
      <4>2. CASE a \in Addresses /\ TakesContribution(a, s.user)
        <5>1. [contract[a] EXCEPT !.contributed = @ \cup {s.user}] \in Contract
          BY <2>0, <4>2, ContractType DEF TypeOK
        <5>2. contract' = [contract EXCEPT ![a] =
                             [contract[a] EXCEPT !.contributed = @ \cup {s.user}]]
          BY <2>18, <4>2 DEF PayToken
        <5>3. QED
          BY <4>1, <5>1, <5>2, PutContract
      <4>3. CASE ~(a \in Addresses /\ TakesContribution(a, s.user))
        BY <2>18, <4>1, <4>3 DEF PayToken, TypeOK
      <4>4. QED
        BY <4>2, <4>3
    <3>3. paid' \in [Users -> Nat]
      <4>1. CASE paid' = [paid EXCEPT ![s.user] = @ + 1]
        BY <2>0, <4>1 DEF TypeOK
      <4>2. QED
        BY <2>18, <4>1 DEF PayToken, Pays, TypeOK
    <3>4. UNCHANGED <<currency, circle, cache, deployed, nonces, records, races, failures,
                      requests>>
      BY <2>18 DEF PayToken, budgets
    <3>5. QED
      BY <3>1, <3>2, <3>3, <3>4 DEF TypeOK
  <2>19. CASE SignNear(h)
    <3>1. handler' \in [Handlers -> Request]
      BY <2>19, SignNearEffect
    <3>2. UNCHANGED <<currency, circle, cache, deployed, contract, paid, nonces, records,
                      races, failures, requests>>
      BY <2>19 DEF SignNear, chainVars, budgets
    <3>3. QED
      BY <3>1, <3>2 DEF TypeOK
  <2>20. CASE SendNear(h)
    <3>1. handler' \in [Handlers -> Request]
      BY <2>20, MovesGoes, EndsIdle DEF SendNear, Goes, Becomes, Steps
    <3>2. paid' \in [Users -> Nat]
      <4>1. CASE paid' = [paid EXCEPT ![s.user] = @ + 1]
        BY <2>0, <4>1 DEF TypeOK
      <4>2. QED
        BY <2>20, <4>1 DEF SendNear, Pays, TypeOK
    <3>3. nonces' \in [Users -> Nat]
      <4>1. CASE nonces' = [nonces EXCEPT ![s.user] = @ + 1]
        BY <2>0, <4>1 DEF TypeOK
      <4>2. QED
        BY <2>20, <4>1 DEF SendNear, TypeOK
    <3>4. failures' \in 0..MaxFailures
      BY <2>20, BoundAssumption DEF SendNear, TypeOK
    <3>5. QED
      BY <2>20, <3>1, <3>2, <3>3, <3>4 DEF SendNear, TypeOK
  <2>21. CASE RecordContribution(h)
    <3>1. handler' \in [Handlers -> Request]
      BY <2>21, MovesGoes DEF RecordContribution, Goes, Becomes, Steps
    <3>2. s.seen.round \in Nat
      BY <2>0, SeenType
    <3>3. records' \in [Users -> Seq(Nat)]
      BY <2>0, <2>21, <3>2 DEF RecordContribution, TypeOK
    <3>4. QED
      BY <2>21, <3>1, <3>3 DEF RecordContribution, TypeOK, chainVars, budgets
  <2>22. QED
    BY <1>1, <2>1, <2>2, <2>3, <2>4, <2>5, <2>6, <2>7, <2>8, <2>9, <2>10, <2>11, <2>12,
       <2>13, <2>14, <2>15, <2>16, <2>17, <2>18, <2>19, <2>20, <2>21 DEF Serve
<1>2. ASSUME NEW h \in Handlers, NEW op \in Ops, NEW u \in Users, Receive(h, op, u)
      PROVE  TypeOK'
  <2>1. handler' \in [Handlers -> Request]
    BY <1>2, ReceiveBecomes DEF Becomes
  <2>2. QED
    BY <1>2, <2>1, BoundAssumption DEF Receive, TypeOK, chainVars
<1>3. CASE CacheExpires
  BY <1>3 DEF CacheExpires, TypeOK, chainVars, budgets
<1>4. CASE ScheduleRounds
  <2>1. circle' \in Circle
    BY <1>4, CircleType, SeenType DEF ScheduleRounds, TypeOK
  <2>2. QED
    BY <1>4, <2>1 DEF ScheduleRounds, TypeOK, chainVars, budgets
<1>5. CASE AdvanceRound
  <2>1. circle.round + 1 \in Nat
    BY SeenType DEF TypeOK
  <2>2. circle' \in Circle
    BY <1>5, <2>1, CircleType DEF AdvanceRound, TypeOK
  <2>3. QED
    BY <1>5, <2>2 DEF AdvanceRound, TypeOK, chainVars, budgets
<1>6. QED
  BY <1>1, <1>2, <1>3, <1>4, <1>5 DEF Next

-----------------------------------------------------------------------------
(* What no step takes back                                                 *)

CircleGrows ==
  /\ Len(circle.members) <= Len(circle'.members)
  /\ \A i \in 1..Len(circle.members) : circle'.members[i] = circle.members[i]
  /\ circle.status # "PENDING" => circle'.status # "PENDING"

\* A contract that runs keeps its members and their order, and an order that
\* was set counts the members.
ContractGrows(a) ==
  /\ contract[a].members \subseteq contract'[a].members
  /\ contract[a].active => /\ contract'[a].active
                           /\ contract'[a].members = contract[a].members
                           /\ contract'[a].order = contract[a].order
  /\ \/ contract'[a].order = contract[a].order
     \/ Len(contract'[a].order) = Cardinality(contract'[a].members)

Grows == /\ CircleGrows /\ \A a \in Addresses : ContractGrows(a)
         /\ deployed <= deployed' /\ failures <= failures'
         /\ races \subseteq races' /\ UNCHANGED currency

\* The four fields that matter, when a call changes one.
LEMMA AddOnChainEffect ==
  ASSUME TypeOK, NEW a \in {0} \cup Addresses, NEW u \in Users, AddOnChain(a, u),
         NEW b \in Addresses
  PROVE  /\ contract'[b].members = IF b = a /\ Accepts(a, u)
                                   THEN contract[b].members \cup {u}
                                   ELSE contract[b].members
         /\ contract'[b].active = contract[b].active
         /\ contract'[b].order = contract[b].order
         /\ contract'[b].contributed = contract[b].contributed
         /\ contract'[b].deposits = contract[b].deposits
  BY DEF AddOnChain, TypeOK, Contract

LEMMA SetOrderEffect ==
  ASSUME TypeOK, NEW h \in Handlers, SetOrder(h), NEW b \in Addresses
  PROVE  LET a == handler[h].seen.address
             order == PayoutOrder(handler[h].seen.members)
         IN  /\ contract'[b].order = IF b = a /\ TakesOrder(a, order) THEN order
                                     ELSE contract[b].order
             /\ contract'[b].active = contract[b].active
             /\ contract'[b].members = contract[b].members
             /\ contract'[b].contributed = contract[b].contributed
             /\ contract'[b].deposits = contract[b].deposits
<1> DEFINE a == handler[h].seen.address
<1>1. contract[b] \in Contract /\ contract \in [Addresses -> Contract]
  BY DEF TypeOK
<1>2. CASE TakesOrder(handler[h].seen.address, PayoutOrder(handler[h].seen.members))
  <2> DEFINE order == PayoutOrder(handler[h].seen.members)
             c == [contract[a] EXCEPT !.order = order]
  <2>1. contract' = [contract EXCEPT ![a] = c]
    BY <1>2 DEF SetOrder
  <2>2. CASE b = a
    <3>1. contract'[b] = c
      BY <1>1, <2>1, <2>2
    <3> HIDE DEF order
    <3>2. QED
      BY <1>1, <1>2, <2>2, <3>1 DEF Contract, order
  <2>3. CASE b # a
    BY <1>1, <2>1, <2>3
  <2>4. QED
    BY <2>2, <2>3
<1>3. CASE ~TakesOrder(handler[h].seen.address, PayoutOrder(handler[h].seen.members))
  BY <1>1, <1>3 DEF SetOrder
<1>4. QED
  BY <1>2, <1>3

LEMMA BeginEffect ==
  ASSUME TypeOK, NEW h \in Handlers, BeginOnChain(h), NEW b \in Addresses
  PROVE  LET a == handler[h].seen.address
         IN  /\ (contract'[b].active <=> contract[b].active \/ (b = a /\ Startable(a)))
             /\ contract'[b].order = contract[b].order
             /\ contract'[b].members = contract[b].members
             /\ contract'[b].contributed = contract[b].contributed
             /\ contract'[b].deposits = contract[b].deposits
<1> DEFINE a == handler[h].seen.address
<1>1. contract[b] \in Contract /\ contract \in [Addresses -> Contract]
  BY DEF TypeOK
<1>2. CASE Startable(handler[h].seen.address)
  <2> HIDE DEF a
  <2>1. contract' = [contract EXCEPT ![a].active = TRUE]
    BY <1>2 DEF BeginOnChain, a
  <2>2. CASE b = a
    <3>1. contract'[b] = [contract[b] EXCEPT !.active = TRUE]
      BY <1>1, <2>1, <2>2
    <3>2. QED
      BY <1>1, <1>2, <2>2, <3>1 DEF Contract, a
  <2>3. CASE b # a
    BY <1>1, <2>1, <2>3 DEF a
  <2>4. QED
    BY <2>2, <2>3
<1>3. CASE ~Startable(handler[h].seen.address)
  BY <1>1, <1>3 DEF BeginOnChain
<1>4. QED
  BY <1>2, <1>3

LEMMA PayEthEffect ==
  ASSUME TypeOK, NEW h \in Handlers, PayEth(h), NEW b \in Addresses
  PROVE  /\ contract'[b].deposits = IF b = handler[h].seen.address
                                    THEN contract[b].deposits + 1
                                    ELSE contract[b].deposits
         /\ contract'[b].active = contract[b].active
         /\ contract'[b].order = contract[b].order
         /\ contract'[b].members = contract[b].members
         /\ contract'[b].contributed = contract[b].contributed
  BY DEF PayEth, TypeOK, Contract

LEMMA PayTokenEffect ==
  ASSUME TypeOK, NEW h \in Handlers, PayToken(h), NEW b \in Addresses
  PROVE  LET a == handler[h].seen.address
             u == handler[h].user
         IN  /\ contract'[b].contributed = IF b = a /\ TakesContribution(a, u)
                                           THEN contract[b].contributed \cup {u}
                                           ELSE contract[b].contributed
             /\ contract'[b].active = contract[b].active
             /\ contract'[b].order = contract[b].order
             /\ contract'[b].members = contract[b].members
             /\ contract'[b].deposits = contract[b].deposits
<1> DEFINE a == handler[h].seen.address
<1>1. contract[b] \in Contract /\ contract \in [Addresses -> Contract]
  BY DEF TypeOK
<1>2. CASE TakesContribution(handler[h].seen.address, handler[h].user)
  <2> DEFINE c == [contract[a] EXCEPT !.contributed = @ \cup {handler[h].user}]
  <2>1. contract' = [contract EXCEPT ![a] = c]
    BY <1>2 DEF PayToken
  <2>2. CASE b = a
    <3>1. contract'[b] = c
      BY <1>1, <2>1, <2>2
    <3>2. QED
      BY <1>1, <1>2, <2>2, <3>1 DEF Contract
  <2>3. CASE b # a
    BY <1>1, <2>1, <2>3
  <2>4. QED
    BY <2>2, <2>3
<1>3. CASE ~TakesContribution(handler[h].seen.address, handler[h].user)
  BY <1>1, <1>3 DEF PayToken
<1>4. QED
  BY <1>2, <1>3

\* The document: joins append a member, nothing else touches the members.
LEMMA PushEffect ==
  ASSUME TypeOK, NEW h \in Handlers, PushMember(h)
  PROVE  LET s == handler[h]
             n == Len(circle.members) + 1
         IN  /\ Len(circle'.members) = n
             /\ \A i \in 1..(n - 1) : circle'.members[i] = circle.members[i]
             /\ circle'.members[n] = [user |-> s.user, position |-> Len(s.seen.members) + 1]
             /\ circle'.status = circle.status /\ circle'.address = circle.address
             /\ circle'.round = circle.round /\ circle'.totalRounds = circle.totalRounds
<1> DEFINE m == [user |-> handler[h].user, position |-> Len(handler[h].seen.members) + 1]
<1>1. circle \in Circle /\ circle.members \in Seq(Member)
  BY SeenType DEF TypeOK
<1>2. circle' = [circle EXCEPT !.members = Append(circle.members, m)]
  BY DEF PushMember
<1> HIDE DEF m
<1>3. /\ circle'.members = Append(circle.members, m)
      /\ circle'.status = circle.status /\ circle'.address = circle.address
      /\ circle'.round = circle.round /\ circle'.totalRounds = circle.totalRounds
  BY <1>1, <1>2 DEF Circle
<1>4. QED
  BY <1>1, <1>3 DEF m

\* Members are appended by a join, and the status leaves PENDING for good.
LEMMA MembersKept ==
  ASSUME TypeOK, Next, \A h \in Handlers : ~PushMember(h)
  PROVE  circle'.members = circle.members
<1>1. circle \in Circle
  BY DEF TypeOK
<1>2. CASE \E h \in Handlers : SaveActivation(h) \/ SaveStart(h)
  BY <1>1, <1>2 DEF SaveActivation, SaveStart, Circle
<1>3. CASE ScheduleRounds \/ AdvanceRound
  BY <1>1, <1>3 DEF ScheduleRounds, AdvanceRound, Circle
<1>4. CASE UNCHANGED circle
  BY <1>4
<1>5. QED
  BY <1>2, <1>3, <1>4 DEF Next, Serve, Receive, CacheHit, CacheMiss, FindById, FillCache,
     CacheExpires, Invalidate, StepFails, Deploy, AddCreator, FindForJoin, JoinOnChain,
     SetOrder, BeginOnChain, CheckContribution, PayEth, PayToken, SignNear, SendNear,
     RecordContribution

LEMMA StatusKept ==
  ASSUME TypeOK, Next
  PROVE  \/ circle'.status = circle.status
         \/ circle'.status # "PENDING" /\ \E h \in Handlers : SaveActivation(h) \/ SaveStart(h)
<1>1. circle \in Circle
  BY DEF TypeOK
<1>2. CASE \E h \in Handlers : SaveActivation(h) \/ SaveStart(h)
  BY <1>1, <1>2 DEF SaveActivation, SaveStart, Circle
<1>3. CASE ScheduleRounds \/ AdvanceRound
  BY <1>1, <1>3 DEF ScheduleRounds, AdvanceRound, Circle
<1>4. CASE \E h \in Handlers : PushMember(h)
  BY <1>1, <1>4 DEF PushMember, Circle
<1>5. CASE UNCHANGED circle
  BY <1>5
<1>6. QED
  BY <1>2, <1>3, <1>4, <1>5 DEF Next, Serve, Receive, CacheHit, CacheMiss, FindById,
     FillCache, CacheExpires, Invalidate, StepFails, Deploy, AddCreator, FindForJoin,
     JoinOnChain, SetOrder, BeginOnChain, CheckContribution, PayEth, PayToken, SignNear, SendNear,
     RecordContribution

LEMMA CircleGrowsStep ==
  ASSUME TypeOK, Next
  PROVE  CircleGrows
<1>1. circle.members \in Seq(Member)
  BY SeenType DEF TypeOK
<1>2. CASE \A h \in Handlers : ~PushMember(h)
  BY <1>1, <1>2, MembersKept, StatusKept DEF CircleGrows
<1>3. ASSUME NEW h \in Handlers, PushMember(h)
      PROVE  CircleGrows
  <2> DEFINE n == Len(circle.members) + 1
  <2>1. /\ Len(circle'.members) = n /\ circle'.status = circle.status
        /\ \A i \in 1..(n - 1) : circle'.members[i] = circle.members[i]
    BY <1>3, PushEffect
  <2>2. QED
    BY <1>1, <2>1 DEF CircleGrows
<1>4. QED
  BY <1>2, <1>3

\* The contracts: which steps call them.
LEMMA ContractsKept ==
  ASSUME Next
  PROVE  \/ UNCHANGED contract
         \/ \E h \in Handlers : \/ AddCreator(h) \/ JoinOnChain(h) \/ SetOrder(h)
                                \/ BeginOnChain(h) \/ PayEth(h) \/ PayToken(h)
  BY DEF Next, Serve, Receive, CacheHit, CacheMiss, FindById, FillCache, CacheExpires,
     Invalidate, StepFails, Deploy, SaveActivation, FindForJoin, PushMember, SaveStart,
     ScheduleRounds, AdvanceRound, CheckContribution, SignNear, SendNear, RecordContribution, chainVars

\* A contract that runs is not changed by any call but a payment.
LEMMA AddOnChainGrows ==
  ASSUME TypeOK, NEW a \in {0} \cup Addresses, NEW u \in Users, AddOnChain(a, u),
         NEW b \in Addresses
  PROVE  ContractGrows(b)
  BY AddOnChainEffect DEF ContractGrows, Accepts

LEMMA ContractGrowsStep ==
  ASSUME TypeOK, Next, NEW a \in Addresses
  PROVE  ContractGrows(a)
<1>1. CASE UNCHANGED contract
  BY <1>1 DEF ContractGrows
<1>2. ASSUME NEW h \in Handlers, AddCreator(h) \/ JoinOnChain(h)
      PROVE  ContractGrows(a)
  <2>1. handler[h] \in Request /\ handler[h].user \in Users /\ handler[h].seen.address \in {0} \cup Addresses
        /\ handler[h].address \in {0} \cup Addresses
    BY SeenType DEF TypeOK, Request
  <2>2. CASE UNCHANGED contract
    BY <2>2 DEF ContractGrows
  <2>3. CASE AddOnChain(handler[h].address, Creator)
    BY <2>1, <2>3, AddOnChainGrows, UsersAssumption
  <2>4. CASE AddOnChain(handler[h].seen.address, handler[h].user)
    BY <2>1, <2>4, AddOnChainGrows
  <2>5. QED
    BY <1>2, <2>2, <2>3, <2>4 DEF AddCreator, JoinOnChain
<1>3. ASSUME NEW h \in Handlers, SetOrder(h)
      PROVE  ContractGrows(a)
  BY <1>3, SetOrderEffect DEF ContractGrows, TakesOrder
<1>4. ASSUME NEW h \in Handlers, BeginOnChain(h)
      PROVE  ContractGrows(a)
  BY <1>4, BeginEffect DEF ContractGrows
<1>5. ASSUME NEW h \in Handlers, PayEth(h)
      PROVE  ContractGrows(a)
  BY <1>5, PayEthEffect DEF ContractGrows
<1>6. ASSUME NEW h \in Handlers, PayToken(h)
      PROVE  ContractGrows(a)
  BY <1>6, PayTokenEffect DEF ContractGrows
<1>7. QED
  BY <1>1, <1>2, <1>3, <1>4, <1>5, <1>6, ContractsKept

\* No step takes back what is in Grows.
LEMMA GrowsStep ==
  ASSUME TypeOK, ViewsInv, Next
  PROVE  Grows
<1>1. deployed <= deployed'
  <2>1. ASSUME NEW h \in Handlers, Serve(h), ~Deploy(h)
        PROVE  UNCHANGED deployed
    BY <2>1 DEF Serve, CacheHit, CacheMiss, FindById, FillCache, Invalidate, StepFails,
       AddCreator, SaveActivation, FindForJoin, PushMember, JoinOnChain, SetOrder,
       BeginOnChain, SaveStart, CheckContribution, PayEth, PayToken, SignNear, SendNear,
       RecordContribution, chainVars
  <2>2. (\A h \in Handlers : ~Serve(h)) => UNCHANGED deployed
    BY DEF Next, Receive, CacheExpires, ScheduleRounds, AdvanceRound, chainVars
  <2>3. deployed \in Nat /\ (~OnBase => deployed <= 1)
    BY DEF TypeOK, ViewsInv
  <2>4. (\E h \in Handlers : Deploy(h)) => deployed' = IF OnBase THEN deployed + 1 ELSE 1
    BY DEF Deploy
  <2>5. UNCHANGED deployed \/ \E h \in Handlers : Deploy(h)
    BY <2>1, <2>2
  <2>6. QED
    BY <2>3, <2>4, <2>5
<1>2. failures <= failures'
  <2>1. ASSUME NEW h \in Handlers, Serve(h)
        PROVE  UNCHANGED failures \/ failures' = failures + 1
    <3>1. CASE SendNear(h) \/ JoinOnChain(h) \/ StepFails(h)
      BY <3>1 DEF SendNear, JoinOnChain, StepFails
    <3>2. QED
      BY <2>1, <3>1 DEF Serve, CacheHit, CacheMiss, FindById, FillCache, Invalidate, Deploy,
         AddCreator, SaveActivation, FindForJoin, PushMember, SetOrder, BeginOnChain,
         SaveStart, CheckContribution, PayEth, PayToken, SignNear, RecordContribution,
         budgets
  <2>2. (\A h \in Handlers : ~Serve(h)) => UNCHANGED failures
    BY DEF Next, Receive, CacheExpires, ScheduleRounds, AdvanceRound, budgets
  <2>3. UNCHANGED failures \/ failures' = failures + 1
    BY <2>1, <2>2
  <2>4. QED
    BY <2>3, BoundAssumption DEF TypeOK
<1>3. races \subseteq races' /\ UNCHANGED currency
  <2>1. ASSUME NEW h \in Handlers, Serve(h)
        PROVE  races \subseteq races' /\ UNCHANGED currency
    <3>1. CASE CacheHit(h) \/ FillCache(h) \/ PushMember(h) \/ SaveStart(h)
      BY <3>1 DEF CacheHit, FillCache, Continue, PushMember, SaveStart
    <3>2. CASE SendNear(h)
      BY <3>2 DEF SendNear
    <3>3. QED
      BY <2>1, <3>1, <3>2 DEF Serve, CacheMiss, FindById, Invalidate, StepFails, Deploy,
         AddCreator, SaveActivation, FindForJoin, JoinOnChain, SetOrder, BeginOnChain,
         CheckContribution, PayEth, PayToken, SignNear, RecordContribution
  <2>2. (\A h \in Handlers : ~Serve(h)) => races \subseteq races' /\ UNCHANGED currency
    BY DEF Next, Receive, CacheExpires, ScheduleRounds, AdvanceRound
  <2>3. QED
    BY <2>1, <2>2
<1>4. QED
  BY <1>1, <1>2, <1>3, CircleGrowsStep, ContractGrowsStep DEF Grows

-----------------------------------------------------------------------------
(* Requests                                                                *)

\* What was once read of the circle stays true of it.
LEMMA EarlierKept ==
  ASSUME TypeOK, TypeOK', Grows, NEW c \in Circle \cup {NoCircle}, Earlier(c)
  PROVE  Earlier(c)'
<1>1. /\ Len(c.members) \in Nat /\ Len(circle.members) \in Nat
      /\ Len(circle'.members) \in Nat /\ deployed \in Nat /\ deployed' \in Nat
      /\ c.address \in {0} \cup Addresses
  BY SeenType DEF TypeOK
<1>2. QED
  BY <1>1 DEF Earlier, Grows, CircleGrows, Addresses

\* The document is how it is, and no circle was ever read.
LEMMA EarlierCircle ==
  ASSUME TypeOK, ViewsInv
  PROVE  Earlier(circle) /\ Earlier(NoCircle)
<1>1. Len(circle.members) \in Nat /\ deployed \in Nat
  BY SeenType DEF TypeOK
<1>2. QED
  BY <1>1 DEF Earlier, ViewsInv, NoCircle

\* Nobody leaves the circle.
LEMMA UsersKept ==
  ASSUME TypeOK, TypeOK', CircleGrows
  PROVE  UsersOf(circle) \subseteq UsersOf(circle)'
<1>1. Len(circle.members) \in Nat /\ Len(circle'.members) \in Nat
  BY SeenType DEF TypeOK
<1>2. QED
  BY <1>1 DEF UsersOf, CircleGrows

\* A request that does not move.
LEMMA CoveredKept ==
  ASSUME TypeOK, TypeOK', Grows, NEW s \in Request, Covered(s), Served(s)
  PROVE  Covered(s)'
<1> DEFINE a == s.seen.address
           n == Len(s.seen.members)
<1>1. SUFFICES ASSUME OnBase, s.step \in {"begin", "activate"}
               PROVE  Covered(s)'
  BY DEF Covered, Grows, OnBase
<1>2. n \in Nat /\ a \in Addresses
  BY <1>1, SeenType DEF Served, Request
<1>3. /\ contract[a].members \subseteq Users /\ contract'[a].members \subseteq Users
      /\ contract[a].order \in Seq(Users) /\ contract'[a].order \in Seq(Users)
  BY <1>2 DEF TypeOK, Contract
<1>4. /\ Cardinality(contract[a].members) \in Nat /\ Cardinality(contract'[a].members) \in Nat
      /\ Cardinality(contract[a].members) <= Cardinality(contract'[a].members)
  BY <1>2, <1>3, FS_Subset, FS_CardinalityType, UsersAssumption DEF Grows, ContractGrows
<1>5. ContractGrows(a)
  BY <1>2 DEF Grows
<1>6. CASE s.step = "begin"
  <2>1. /\ Cardinality(contract[a].members) >= n /\ Len(contract[a].order) >= n
    BY <1>1, <1>6 DEF Covered
  <2>2. Cardinality(contract'[a].members) >= n /\ Len(contract'[a].order) >= n
    BY <1>2, <1>3, <1>4, <1>5, <2>1 DEF ContractGrows
  <2>3. QED
    BY <1>6, <2>2 DEF Covered
<1>7. CASE s.step = "activate"
  <2>1. contract[a].active /\ Len(contract[a].order) >= n
    BY <1>1, <1>7 DEF Covered
  <2>2. contract'[a].active /\ Len(contract'[a].order) >= n
    BY <1>5, <2>1 DEF ContractGrows
  <2>3. QED
    BY <1>7, <2>2 DEF Covered
<1>8. QED
  BY <1>1, <1>6, <1>7

LEMMA ServedKept ==
  ASSUME TypeOK, TypeOK', Grows, NEW s \in Request, Served(s)
  PROVE  Served(s)'
<1>1. UsersOf(circle) \subseteq UsersOf(circle)' /\ OnBase' = OnBase
  BY UsersKept DEF Grows, OnBase
<1>2. MayJoin(s.user, s.seen)' = MayJoin(s.user, s.seen)
  BY DEF MayJoin, UsersOf
<1>3. s.step \in StepsOf(s.op)
  BY DEF Served
<1>4. QED
  BY <1>1, <1>2, <1>3 DEF Served

LEMMA AddressKept ==
  ASSUME TypeOK, TypeOK', Grows, NEW h \in Handlers, RequestInv(handler[h])
  PROVE  handler[h].address <= deployed'
<1>1. deployed \in Nat /\ deployed' \in Nat
  BY DEF TypeOK
<1>2. handler[h].address \in Nat
  <2>1. handler[h] \in Request
    BY DEF TypeOK
  <2>2. handler[h].address \in {0} \cup 1..MaxDeploys
    BY <2>1 DEF Request, Addresses
  <2>3. QED
    BY <2>2
<1>3. QED
  BY <1>1, <1>2 DEF RequestInv, Grows

LEMMA RequestKept ==
  ASSUME TypeOK, TypeOK', Grows, NEW g \in Handlers, RequestInv(handler[g]),
         handler'[g] = handler[g]
  PROVE  RequestInv(handler[g])'
<1> DEFINE s == handler[g]
<1>1. s \in Request /\ s.seen \in Circle \cup {NoCircle} /\ s.address \in {0} \cup Addresses
  BY DEF TypeOK, Request
<1>2. s.address <= deployed'
  BY AddressKept
<1>3. QED
  BY <1>1, <1>2, CoveredKept, ServedKept, EarlierKept, SMTT(30) DEF RequestInv, Served, Covered, Earlier

\* A request that ends.
LEMMA RequestEnds ==
  ASSUME TypeOK, TypeOK', ViewsInv, Grows, NEW h \in Handlers, Becomes(h, Idle)
  PROVE  RequestInv(handler[h])'
<1>1. Earlier(NoCircle)'
  BY EarlierCircle, EarlierKept
<1>2. deployed' \in Nat
  BY DEF TypeOK
<1>3. QED
  BY <1>1, <1>2 DEF Becomes, Idle, RequestInv, Served, StepsOf, Reading, Covered, Earlier

\* A request that goes on.
LEMMA RequestGoes ==
  ASSUME TypeOK, TypeOK', Grows, NEW h \in Handlers, RequestInv(handler[h]),
         NEW step, Goes(h, step), Served(handler[h])', Covered(handler[h])'
  PROVE  RequestInv(handler[h])'
<1> DEFINE s == handler[h]
<1>1. s \in Request /\ s.seen \in Circle \cup {NoCircle} /\ s.address \in {0} \cup Addresses
  BY DEF TypeOK, Request
<1>2. handler'[h].seen = s.seen /\ handler'[h].address = s.address
  BY DEF Goes, Becomes, With
<1>3. Earlier(handler[h].seen)'
  BY <1>1, <1>2, EarlierKept DEF RequestInv, Earlier
<1>4. (handler[h].address <= deployed)'
  BY <1>2, AddressKept
<1>5. QED
  BY <1>3, <1>4 DEF RequestInv

\* Steps that nothing is required of.
LEMMA RequestMoves ==
  ASSUME TypeOK, TypeOK', Grows, NEW h \in Handlers, RequestInv(handler[h]),
         NEW step, Goes(h, step), step \in StepsOf(handler[h].op),
         step \notin {"addCreator", "save", "push", "addMember", "order", "begin",
                      "activate", "check", "pay", "send"}
  PROVE  RequestInv(handler[h])'
<1>1. /\ handler'[h].op = handler[h].op /\ handler'[h].user = handler[h].user
      /\ handler'[h].step = step
  BY DEF Goes, Becomes, With
<1>2. Served(handler[h])'
  BY <1>1 DEF RequestInv, Served, StepsOf, Reading
<1>3. Covered(handler[h])'
  BY <1>1 DEF Covered
<1>4. QED
  BY <1>2, <1>3, RequestGoes

\* A request that goes on with a circle from the cache or the database.
LEMMA RequestContinues ==
  ASSUME TypeOK, TypeOK', Grows, ViewsInv, NEW h \in Handlers, RequestInv(handler[h]),
         NEW c \in Circle \cup {NoCircle}, Earlier(c), NEW overtaken,
         Continue(h, c, overtaken)
  PROVE  RequestInv(handler[h])'
<1> DEFINE s == handler[h]
<1>1. PICK step : step = After(s.op, s.user, c)
  OBVIOUS
<1>2. CASE step = "idle"
  BY <1>1, <1>2, ContinueBecomes, RequestEnds
<1>3. CASE step # "idle"
  <2>1. Becomes(h, With(s, step, c, s.address))
    BY <1>1, <1>3, ContinueBecomes
  <2>2. /\ handler'[h].op = s.op /\ handler'[h].user = s.user /\ handler'[h].step = step
        /\ handler'[h].seen = c /\ handler'[h].address = s.address
    BY <2>1 DEF Becomes, With
  <2>3. s.address <= deployed' /\ Earlier(c)'
    BY AddressKept, EarlierKept
  <2>4. Served(handler[h])'
    BY <1>1, <1>3, <2>2, AfterStep DEF RequestInv, Served, StepsOf, Reading, MayStart,
       MayContribute
  <2>5. Covered(handler[h])'
    BY <1>1, <2>2, AfterStep DEF Covered, OnBase, Grows
  <2>6. QED
    BY <2>2, <2>3, <2>4, <2>5 DEF RequestInv, Earlier
<1>4. QED
  BY <1>2, <1>3

\* A step of a request moves its own handler only.
LEMMA ServeOne ==
  ASSUME TypeOK, NEW h \in Handlers, Serve(h)
  PROVE  \A g \in Handlers \ {h} : handler'[g] = handler[g]
<1>1. CASE CacheHit(h) \/ FillCache(h)
  BY <1>1, ContinueBecomes DEF CacheHit, FillCache, Becomes, TypeOK, Request
<1>2. CASE FindById(h) \/ FindForJoin(h) \/ Deploy(h) \/ SignNear(h)
  BY <1>2, FindByIdBecomes, FindForJoinBecomes, DeployBecomes, SignNearBecomes DEF Becomes
<1>3. CASE Ends(h)
  BY <1>3, EndsIdle DEF Becomes
<1>4. CASE \E step : Moves(h, step)
  BY <1>4 DEF Moves, TypeOK
<1>5. QED
  BY <1>1, <1>2, <1>3, <1>4 DEF Serve, CacheMiss, Invalidate, StepFails, AddCreator,
     SaveActivation, PushMember, JoinOnChain, SetOrder, BeginOnChain, SaveStart,
     CheckContribution, PayEth, PayToken, SignNear, SendNear, RecordContribution

\* Each step of a request keeps what it relies on.
LEMMA ServeRequest ==
  ASSUME TypeOK, TypeOK', Grows, ViewsInv, HandlersInv, NEW h \in Handlers, Serve(h)
  PROVE  RequestInv(handler[h])'
<1> DEFINE s == handler[h]
<1>1. RequestInv(s) /\ Served(s) /\ s.step \in StepsOf(s.op)
  BY DEF HandlersInv, RequestInv, Served
<1>2. /\ s \in Request /\ s.seen \in Circle \cup {NoCircle} /\ s.user \in Users
      /\ s.address \in {0} \cup Addresses /\ s.op \in Ops
  BY DEF TypeOK, Request
<1>3. CASE CacheHit(h)
  BY <1>1, <1>3, RequestContinues DEF CacheHit, ViewsInv, TypeOK
<1>4. CASE FillCache(h)
  BY <1>1, <1>2, <1>4, RequestContinues DEF FillCache, RequestInv
<1>5. CASE Invalidate(h) \/ StepFails(h)
  BY <1>5, EndsIdle, RequestEnds DEF Invalidate, StepFails
<1>6. CASE CacheMiss(h)
  <2>1. Goes(h, "read") /\ s.step = "lookup"
    BY <1>6, MovesGoes DEF CacheMiss, Steps, At
  <2>2. "read" \in StepsOf(s.op)
    BY <1>1, <1>2, <2>1 DEF StepsOf, Reading, Ops
  <2>3. QED
    BY <1>1, <2>1, <2>2, RequestMoves
<1>7. CASE FindById(h)
  <2>1. Becomes(h, With(s, "fill", circle, s.address)) /\ s.step = "read"
    BY <1>7, FindByIdBecomes DEF FindById, At
  <2>2. /\ handler'[h].op = s.op /\ handler'[h].user = s.user /\ handler'[h].step = "fill"
        /\ handler'[h].seen = circle /\ handler'[h].address = s.address
    BY <2>1 DEF Becomes, With
  <2>3. (handler[h].address <= deployed)'
    BY <1>1, <2>2, AddressKept
  <2>4. Earlier(handler[h].seen)'
    BY <2>2, EarlierCircle, EarlierKept DEF TypeOK, Earlier
  <2>5. Served(handler[h])'
    BY <1>1, <1>2, <2>1, <2>2 DEF Served, StepsOf, Reading, Ops
  <2>6. Covered(handler[h])'
    BY <2>2 DEF Covered
  <2>7. QED
    BY <2>3, <2>4, <2>5, <2>6 DEF RequestInv
<1>8. CASE FindForJoin(h)
  <2>1. CASE ~MayJoin(s.user, circle)
    BY <1>8, <2>1, FindForJoinBecomes, RequestEnds
  <2>2. CASE MayJoin(s.user, circle)
    <3>1. Becomes(h, With(s, "push", circle, s.address)) /\ s.step = "join"
      BY <1>8, <2>2, FindForJoinBecomes DEF FindForJoin, At
    <3>2. /\ handler'[h].op = s.op /\ handler'[h].user = s.user
          /\ handler'[h].step = "push" /\ handler'[h].seen = circle
          /\ handler'[h].address = s.address
      BY <3>1 DEF Becomes, With
    <3>3. (handler[h].address <= deployed)'
      BY <1>1, <3>2, AddressKept
    <3>4. Earlier(handler[h].seen)'
      BY <3>2, EarlierCircle, EarlierKept DEF TypeOK, Earlier
    <3>5. Served(handler[h])'
      BY <1>1, <1>2, <2>2, <3>1, <3>2 DEF Served, StepsOf, Reading, Ops, MayJoin, UsersOf
    <3>6. Covered(handler[h])'
      BY <3>2 DEF Covered
    <3>7. QED
      BY <3>3, <3>4, <3>5, <3>6 DEF RequestInv
  <2>3. QED
    BY <2>1, <2>2
<1>9. CASE Deploy(h)
  <2>1. /\ Becomes(h, With(s, IF OnBase THEN "addCreator" ELSE "save", s.seen, deployed'))
        /\ s.step = "deploy" /\ deployed' \in 1..MaxDeploys
    BY <1>9, DeployBecomes DEF Deploy, At
  <2>2. /\ handler'[h].op = s.op /\ handler'[h].user = s.user
        /\ handler'[h].step \in {"addCreator", "save"} /\ handler'[h].seen = s.seen
        /\ handler'[h].address = deployed'
    BY <2>1 DEF Becomes, With
  <2>3. Earlier(handler[h].seen)'
    BY <1>1, <1>2, <2>2, EarlierKept DEF RequestInv, Earlier
  <2>4. Served(handler[h])'
    BY <1>1, <1>2, <2>1, <2>2 DEF Served, StepsOf, Reading, Ops
  <2>5. Covered(handler[h])'
    BY <2>2 DEF Covered
  <2>6. (handler[h].address <= deployed)'
    BY <2>1, <2>2
  <2>7. QED
    BY <2>3, <2>4, <2>5, <2>6 DEF RequestInv
<1>10. CASE AddCreator(h)
  <2>1. Goes(h, "save") /\ s.step = "addCreator"
    BY <1>10, MovesGoes DEF AddCreator, Steps, At
  <2>2. /\ handler'[h].op = s.op /\ handler'[h].user = s.user
        /\ handler'[h].step = "save" /\ handler'[h].address = s.address
    BY <2>1 DEF Goes, Becomes, With
  <2>3. Served(handler[h])'
    BY <1>1, <1>2, <2>1, <2>2 DEF Served, StepsOf, Reading, Ops
  <2>4. Covered(handler[h])'
    BY <2>2 DEF Covered
  <2>5. QED
    BY <1>1, <2>1, <2>3, <2>4, RequestGoes
<1>11. CASE SaveActivation(h) \/ JoinOnChain(h) \/ SaveStart(h) \/ RecordContribution(h)
  <2>1. Goes(h, "invalidate") /\ s.step \in {"save", "addMember", "activate", "record"}
    BY <1>11, MovesGoes
       DEF SaveActivation, JoinOnChain, SaveStart, RecordContribution, Steps, At
  <2>2. "invalidate" \in StepsOf(s.op)
    BY <1>1, <1>2, <2>1 DEF StepsOf, Reading, Ops
  <2>3. QED
    BY <1>1, <2>1, <2>2, RequestMoves
<1>12. CASE PushMember(h)
  <2>1. s.step = "push"
    BY <1>12 DEF PushMember, At
  <2>2. CASE Moves(h, "invalidate")
    <3>1. Goes(h, "invalidate") /\ "invalidate" \in StepsOf(s.op)
      BY <1>1, <1>2, <2>1, <2>2, MovesGoes DEF StepsOf, Reading, Ops, Steps
    <3>2. QED
      BY <1>1, <3>1, RequestMoves
  <2>3. CASE Moves(h, "addMember") /\ s.seen.address # 0
    <3>1. Goes(h, "addMember")
      BY <2>3, MovesGoes DEF Steps
    <3>2. /\ handler'[h].op = s.op /\ handler'[h].user = s.user
          /\ handler'[h].step = "addMember" /\ handler'[h].seen = s.seen
      BY <3>1 DEF Goes, Becomes, With
    <3>3. /\ Len(circle.members) \in Nat
          /\ Len(circle'.members) = Len(circle.members) + 1
          /\ circle'.members[Len(circle.members) + 1].user = s.user
      <4>1. circle'.members[Len(circle.members) + 1]
              = [user |-> s.user, position |-> Len(s.seen.members) + 1]
        BY <1>12, PushEffect
      <4>2. QED
        BY <1>12, <4>1, PushEffect, SeenType DEF TypeOK
    <3>4. s.user \in UsersOf(circle')
      BY <3>3 DEF UsersOf
    <3>5. Served(handler[h])'
      BY <1>1, <1>2, <2>1, <2>3, <3>2, <3>4 DEF Served, StepsOf, Reading, Ops
    <3>6. Covered(handler[h])'
      BY <3>2 DEF Covered
    <3>7. QED
      BY <1>1, <3>1, <3>5, <3>6, RequestGoes
  <2>4. QED
    BY <1>12, <2>2, <2>3 DEF PushMember
<1>13. CASE SetOrder(h)
  <2> DEFINE a == s.seen.address
             order == PayoutOrder(s.seen.members)
  <2>1. s.step = "order" /\ s.seen.status = "RECRUITING" /\ a \in Addresses
    BY <1>1, <1>2, <1>13, SeenType DEF SetOrder, At, Served
  <2>2. CASE Ends(h)
    BY <2>2, EndsIdle, RequestEnds
  <2>3. CASE Moves(h, "begin") /\ TakesOrder(a, order)
    <3>1. Goes(h, "begin")
      BY <2>3, MovesGoes DEF Steps
    <3>2. /\ handler'[h].op = s.op /\ handler'[h].user = s.user
          /\ handler'[h].step = "begin" /\ handler'[h].seen = s.seen
      BY <3>1 DEF Goes, Becomes, With
    <3>3. contract'[a].order = order /\ contract'[a].members = contract[a].members
      BY <1>13, <2>1, <2>3, SetOrderEffect
    <3>4. /\ Len(order) = Len(s.seen.members) /\ Len(s.seen.members) \in Nat
          /\ Cardinality(contract[a].members) = Len(order)
      BY <1>2, <2>3, OrderLength, SeenType DEF TakesOrder
    <3>5. Served(handler[h])'
      BY <1>1, <1>2, <2>1, <3>2 DEF Served, StepsOf, Reading, Ops
    <3> HIDE DEF order
    <3>6. Covered(handler[h])'
      BY <3>2, <3>3, <3>4 DEF Covered
    <3>7. QED
      BY <1>1, <3>1, <3>5, <3>6, RequestGoes
  <2>4. QED
    BY <1>13, <2>2, <2>3 DEF SetOrder
<1>14. CASE BeginOnChain(h)
  <2> DEFINE a == s.seen.address
  <2>1. s.step = "begin" /\ s.seen.status = "RECRUITING" /\ a \in Addresses
    BY <1>1, <1>2, <1>14, SeenType DEF BeginOnChain, At, Served
  <2>2. CASE Ends(h)
    BY <2>2, EndsIdle, RequestEnds
  <2>3. CASE Moves(h, "activate") /\ Startable(a)
    <3>1. Goes(h, "activate")
      BY <2>3, MovesGoes DEF Steps
    <3>2. /\ handler'[h].op = s.op /\ handler'[h].user = s.user
          /\ handler'[h].step = "activate" /\ handler'[h].seen = s.seen
      BY <3>1 DEF Goes, Becomes, With
    <3>3. contract'[a].order = contract[a].order /\ contract'[a].active
      BY <1>14, <2>1, <2>3, BeginEffect
    <3>4. Served(handler[h])'
      BY <1>1, <1>2, <2>1, <3>2 DEF Served, StepsOf, Reading, Ops
    <3>5. OnBase => Len(contract[a].order) >= Len(s.seen.members)
      BY <1>1, <2>1 DEF RequestInv, Covered
    <3>6. Covered(handler[h])'
      BY <3>2, <3>3, <3>5 DEF Covered, OnBase, Grows
    <3>7. QED
      BY <1>1, <3>1, <3>4, <3>6, RequestGoes
  <2>4. QED
    BY <1>14, <2>2, <2>3 DEF BeginOnChain
<1>15. CASE CheckContribution(h)
  <2>1. s.step = "check"
    BY <1>15 DEF CheckContribution, At
  <2>2. CASE Ends(h)
    BY <2>2, EndsIdle, RequestEnds
  <2>3. CASE Moves(h, "pay")
    <3>1. Goes(h, "pay")
      BY <2>3, MovesGoes DEF Steps
    <3>2. /\ handler'[h].op = s.op /\ handler'[h].user = s.user
          /\ handler'[h].step = "pay" /\ handler'[h].seen = s.seen
      BY <3>1 DEF Goes, Becomes, With
    <3>3. Served(handler[h])'
      BY <1>1, <1>2, <2>1, <3>2 DEF Served, StepsOf, Reading, Ops
    <3>4. Covered(handler[h])'
      BY <3>2 DEF Covered
    <3>5. QED
      BY <1>1, <3>1, <3>3, <3>4, RequestGoes
  <2>4. QED
    BY <1>15, <2>2, <2>3 DEF CheckContribution
<1>16. CASE PayEth(h) \/ PayToken(h) \/ SendNear(h)
  <2>1. s.step \in {"pay", "send"}
    BY <1>16 DEF PayEth, PayToken, SendNear, At
  <2>2. "record" \in StepsOf(s.op)
    BY <1>1, <1>2, <2>1 DEF StepsOf, Reading, Ops
  <2>3. CASE Ends(h)
    BY <2>3, EndsIdle, RequestEnds
  <2>4. CASE Moves(h, "record")
    <3>1. Goes(h, "record")
      BY <2>4, MovesGoes DEF Steps
    <3>2. QED
      BY <1>1, <2>2, <3>1, RequestMoves
  <2>5. QED
    BY <1>16, <2>3, <2>4 DEF PayEth, PayToken, SendNear
<1>17. CASE SignNear(h)
  <2>1. /\ handler'[h].op = s.op /\ handler'[h].user = s.user
        /\ handler'[h].step = "send" /\ handler'[h].seen = s.seen
        /\ handler'[h].address = s.address
    BY <1>17, SignNearEffect
  <2>2. s.step = "pay" /\ ~OnBase'
    BY <1>17 DEF SignNear, At, OnBase
  <2>3. Served(handler[h])'
    BY <1>1, <1>2, <2>1, <2>2 DEF Served, StepsOf, Reading, Ops
  <2>4. Covered(handler[h])'
    BY <2>1 DEF Covered
  <2>5. Earlier(handler[h].seen)'
    BY <1>1, <1>2, <2>1, EarlierKept DEF RequestInv, Earlier
  <2>6. (handler[h].address <= deployed)'
    BY <1>1, <2>1, AddressKept
  <2>7. QED
    BY <2>3, <2>4, <2>5, <2>6 DEF RequestInv
<1>18. QED
  BY <1>3, <1>4, <1>5, <1>6, <1>7, <1>8, <1>9, <1>10, <1>11, <1>12, <1>13, <1>14, <1>15,
     <1>16, <1>17 DEF Serve

\* No step takes from any request what it relies on.
LEMMA HandlersStep ==
  ASSUME TypeOK, TypeOK', Grows, ViewsInv, HandlersInv, Next
  PROVE  HandlersInv'
<1>1. ASSUME NEW h \in Handlers, Serve(h)
      PROVE  HandlersInv'
  BY <1>1, ServeOne, ServeRequest, RequestKept DEF HandlersInv
<1>2. ASSUME NEW h \in Handlers, NEW op \in Ops, NEW u \in Users, Receive(h, op, u)
      PROVE  HandlersInv'
  <2>1. /\ handler'[h].op = op /\ handler'[h].user = u /\ handler'[h].seen = NoCircle
        /\ handler'[h].step = (IF op = "join" THEN "join" ELSE "lookup")
        /\ handler'[h].address = 0
        /\ \A g \in Handlers \ {h} : handler'[g] = handler[g]
    <3> DEFINE s == [op |-> op, user |-> u,
                     step |-> IF op = "join" THEN "join" ELSE "lookup",
                     seen |-> NoCircle, address |-> 0, nonce |-> 0]
    <3>1. Becomes(h, s)
      BY <1>2, ReceiveBecomes
    <3>2. QED
      BY <3>1 DEF Becomes
  <2>2. Served(handler[h])'
    BY <1>2, <2>1 DEF Receive, Served, StepsOf, Reading, Ops
  <2>3. Covered(handler[h])'
    BY <2>1 DEF Covered
  <2>4. Earlier(handler[h].seen)' /\ (handler[h].address <= deployed)'
    <3>1. Earlier(NoCircle)'
      BY EarlierCircle, EarlierKept
    <3>2. 0 <= deployed'
      BY DEF TypeOK
    <3>3. QED
      BY <2>1, <3>1, <3>2 DEF Earlier
  <2>5. RequestInv(handler[h])'
    BY <2>2, <2>3, <2>4 DEF RequestInv
  <2>6. QED
    BY <2>1, <2>5, RequestKept DEF HandlersInv
<1>3. CASE CacheExpires \/ ScheduleRounds \/ AdvanceRound
  <2>1. UNCHANGED handler
    BY <1>3 DEF CacheExpires, ScheduleRounds, AdvanceRound
  <2>2. QED
    BY <2>1, RequestKept DEF HandlersInv
<1>4. QED
  BY <1>1, <1>2, <1>3 DEF Next

-----------------------------------------------------------------------------
(* The document, its copy and its members                                  *)

\* Where the cache, the address and the number of contracts come from.
LEMMA CacheKept ==
  ASSUME Next
  PROVE  \/ cache' = cache \/ cache' = NoCircle
         \/ \E h \in Handlers : FillCache(h) /\ cache' = handler[h].seen
<1>1. ASSUME NEW h \in Handlers, Serve(h)
      PROVE  \/ cache' \in {cache, NoCircle}
             \/ FillCache(h) /\ cache' = handler[h].seen
  <2>1. CASE FillCache(h)
    BY <2>1 DEF FillCache
  <2>2. CASE Invalidate(h)
    BY <2>2 DEF Invalidate
  <2>3. CASE CacheHit(h) \/ CacheMiss(h) \/ FindById(h) \/ StepFails(h)
    BY <2>3 DEF CacheHit, CacheMiss, FindById, StepFails
  <2>4. CASE \/ Deploy(h) \/ AddCreator(h) \/ SaveActivation(h)
             \/ FindForJoin(h) \/ PushMember(h) \/ JoinOnChain(h)
    BY <2>4 DEF Deploy, AddCreator, SaveActivation, FindForJoin, PushMember, JoinOnChain
  <2>5. CASE SetOrder(h) \/ BeginOnChain(h) \/ SaveStart(h)
    BY <2>5 DEF SetOrder, BeginOnChain, SaveStart
  <2>6. CASE \/ CheckContribution(h) \/ PayEth(h) \/ PayToken(h)
             \/ SignNear(h) \/ SendNear(h) \/ RecordContribution(h)
    BY <2>6 DEF CheckContribution, PayEth, PayToken, SignNear, SendNear,
       RecordContribution
  <2>7. QED
    BY <1>1, <2>1, <2>2, <2>3, <2>4, <2>5, <2>6 DEF Serve
<1>2. CASE \E h \in Handlers, op \in Ops, u \in Users : Receive(h, op, u)
  BY <1>2 DEF Receive
<1>3. CASE CacheExpires \/ ScheduleRounds \/ AdvanceRound
  BY <1>3 DEF CacheExpires, ScheduleRounds, AdvanceRound
<1>4. QED
  BY <1>1, <1>2, <1>3 DEF Next

LEMMA AddressStep ==
  ASSUME TypeOK, Next
  PROVE  \/ circle'.address = circle.address
         \/ \E h \in Handlers : SaveActivation(h) /\ circle'.address = handler[h].address
<1>1. circle \in Circle
  BY DEF TypeOK
<1>2. CASE \E h \in Handlers : SaveActivation(h)
  BY <1>1, <1>2 DEF SaveActivation, Circle
<1>3. CASE \E h \in Handlers : SaveStart(h) \/ PushMember(h)
  BY <1>1, <1>3 DEF SaveStart, PushMember, Circle
<1>4. CASE ScheduleRounds \/ AdvanceRound
  BY <1>1, <1>4 DEF ScheduleRounds, AdvanceRound, Circle
<1>5. CASE UNCHANGED circle
  BY <1>5
<1>6. QED
  BY <1>2, <1>3, <1>4, <1>5 DEF Next, Serve, Receive, CacheHit, CacheMiss, FindById,
     FillCache, CacheExpires, Invalidate, StepFails, Deploy, AddCreator, FindForJoin,
     JoinOnChain, SetOrder, BeginOnChain, CheckContribution, PayEth, PayToken, SignNear, SendNear,
     RecordContribution

LEMMA DeployedStep ==
  ASSUME Next
  PROVE  \/ deployed' = deployed
         \/ deployed' = (IF OnBase THEN deployed + 1 ELSE 1) /\ \E h \in Handlers : Deploy(h)
  BY ZenonT(40) DEF Next, Serve, Receive, CacheHit, CacheMiss, FindById, FillCache, CacheExpires,
     Invalidate, StepFails, Deploy, AddCreator, SaveActivation, FindForJoin, PushMember,
     JoinOnChain, SetOrder, BeginOnChain, SaveStart, ScheduleRounds, AdvanceRound,
     CheckContribution, PayEth, PayToken, SignNear, SendNear, RecordContribution,
     chainVars

\* Every step keeps what is known of the document and of its copy.
LEMMA ViewsStep ==
  ASSUME TypeOK, TypeOK', Grows, ViewsInv, HandlersInv, Next
  PROVE  ViewsInv'
<1>1. circle'.members # <<>> /\ circle'.members[1].user = Creator
  <2>1. circle.members \in Seq(Member) /\ circle'.members \in Seq(Member)
    BY SeenType DEF TypeOK
  <2>2. QED
    BY <2>1 DEF ViewsInv, Grows, CircleGrows
<1>2. circle'.address <= deployed'
  <2>1. circle.address \in Nat /\ deployed \in Nat /\ deployed' \in Nat /\ deployed <= deployed'
    BY SeenType DEF TypeOK, Addresses, Grows
  <2>2. CASE circle'.address = circle.address
    BY <2>1, <2>2 DEF ViewsInv
  <2>3. CASE \E h \in Handlers : circle'.address = handler[h].address
    BY <2>3, AddressKept DEF HandlersInv
  <2>4. QED
    BY <2>2, <2>3, AddressStep
<1>3. ~OnBase' => deployed' <= 1
  BY DeployedStep DEF ViewsInv, Grows, OnBase
<1>4. Earlier(cache)'
  <2>1. CASE cache' = cache
    BY <2>1, EarlierKept DEF TypeOK, ViewsInv, Earlier
  <2>2. CASE cache' = NoCircle
    BY <2>2, EarlierCircle, EarlierKept DEF TypeOK, Earlier
  <2>3. ASSUME NEW h \in Handlers, cache' = handler[h].seen
        PROVE  Earlier(cache)'
    <3>1. Earlier(handler[h].seen) /\ handler[h].seen \in Circle \cup {NoCircle}
      BY DEF TypeOK, Request, HandlersInv, RequestInv
    <3>2. QED
      BY <2>3, <3>1, EarlierKept DEF Earlier
  <2>4. QED
    BY <2>1, <2>2, <2>3, CacheKept
<1>5. QED
  BY <1>1, <1>2, <1>3, <1>4 DEF ViewsInv

\* Joins that were not overtaken keep members distinct and in their positions.
LEMMA JoinsStep ==
  ASSUME TypeOK, TypeOK', Grows, HandlersInv, JoinsInv, Next
  PROVE  JoinsInv'
<1>1. CASE circle'.members = circle.members
  BY <1>1 DEF JoinsInv, Grows
<1>2. ASSUME NEW h \in Handlers, PushMember(h), "join" \notin races'
      PROVE  JoinsInv'
  <2> DEFINE s == handler[h]
             n == Len(circle.members)
  <2>1. /\ Len(circle'.members) = n + 1 /\ n \in Nat
        /\ \A i \in 1..n : circle'.members[i] = circle.members[i]
        /\ circle'.members[n + 1] = [user |-> s.user, position |-> Len(s.seen.members) + 1]
    BY <1>2, PushEffect, SeenType DEF TypeOK
  <2>2. s.seen.members = circle.members
    BY <1>2 DEF PushMember
  <2>3. n < MaxMembers /\ s.user \notin UsersOf(s.seen)
    BY <1>2, <2>2 DEF PushMember, At, HandlersInv, RequestInv, Served, MayJoin
  <2>4. \A i \in 1..n : circle.members[i].user # s.user
    BY <2>2, <2>3 DEF UsersOf
  <2>5. /\ \A i \in 1..n : circle.members[i].position = i
        /\ \A i, j \in 1..n : circle.members[i].user = circle.members[j].user => i = j
    BY <1>2 DEF JoinsInv, Grows
  <2>6. n + 1 <= MaxMembers
    BY <2>1, <2>3, MembersAssumption
  <2>7. circle'.members[n + 1].user = s.user /\ circle'.members[n + 1].position = n + 1
    BY <2>1, <2>2
  <2>8. \A i \in 1..(n + 1) : circle'.members[i].position = i
    BY <2>1, <2>5, <2>7, SMTT(30)
  <2>9. ASSUME NEW i \in 1..(n + 1), NEW j \in 1..(n + 1),
               circle'.members[i].user = circle'.members[j].user
        PROVE  i = j
    <3>1. CASE i \in 1..n /\ j \in 1..n
      BY <2>1, <2>5, <2>9, <3>1
    <3>2. CASE i = n + 1 /\ j \in 1..n
      BY <2>1, <2>4, <2>7, <2>9, <3>2
    <3>3. CASE i \in 1..n /\ j = n + 1
      BY <2>1, <2>4, <2>7, <2>9, <3>3
    <3>4. QED
      BY <2>1, <3>1, <3>2, <3>3
  <2>10. QED
    BY <2>1, <2>6, <2>8, <2>9 DEF JoinsInv
<1>3. CASE "join" \in races'
  BY <1>3 DEF JoinsInv
<1>4. QED
  BY <1>1, <1>2, <1>3, MembersKept

-----------------------------------------------------------------------------
(* The contracts                                                           *)

\* A call to a contract finds its address in the request, and it was deployed.
Calls(h) == \/ AddCreator(h) \/ JoinOnChain(h) \/ SetOrder(h)
            \/ BeginOnChain(h) \/ PayEth(h) \/ PayToken(h)

Deployed(a) == a \in Addresses /\ a <= deployed

\* The calls go to contracts that were deployed.
LEMMA CallAddresses ==
  ASSUME TypeOK, HandlersInv, NEW h \in Handlers
  PROVE  /\ AddCreator(h) => Deployed(handler[h].address)
         /\ JoinOnChain(h) \/ SetOrder(h) \/ BeginOnChain(h) \/ PayEth(h) \/ PayToken(h)
              => Deployed(handler[h].seen.address)
<1> DEFINE s == handler[h]
<1>1. /\ s.seen \in Circle \cup {NoCircle} /\ s.user \in Users
      /\ s.address \in {0} \cup Addresses /\ s.seen.address \in {0} \cup Addresses
  BY SeenType DEF TypeOK, Request
<1>2. Served(s) /\ s.address <= deployed /\ s.seen.address <= deployed
  BY DEF HandlersInv, RequestInv, Earlier
<1>3. QED
  BY <1>1, <1>2 DEF Served, Deployed, AddCreator, JoinOnChain, SetOrder, BeginOnChain,
     PayEth, PayToken, At

LEMMA UndeployedKept ==
  ASSUME TypeOK, HandlersInv, Next, NEW a \in Addresses, ~Deployed(a)
  PROVE  contract'[a] = contract[a]
<1>1. CASE UNCHANGED contract
  BY <1>1
<1>2. ASSUME NEW h \in Handlers, Calls(h)
      PROVE  contract'[a] = contract[a]
  <2>1. \E b : Deployed(b) /\ \A c \in Addresses \ {b} : contract'[c] = contract[c]
    BY <1>2, CallAddresses DEF Calls, AddCreator, JoinOnChain, SetOrder, BeginOnChain,
       PayEth, PayToken, AddOnChain, TypeOK
  <2>2. QED
    BY <2>1
<1>3. QED
  BY <1>1, <1>2, ContractsKept DEF Calls

\* The invariant of one contract that the calls do not lead to.
ContractInv(a) ==
  LET c == contract[a] IN
  /\ c.members \subseteq UsersOf(circle) /\ c.contributed \subseteq c.members
  /\ Len(c.order) <= Len(circle.members)
  /\ c.order = PayoutOrder(SubSeq(circle.members, 1, Len(c.order)))
  /\ c.active => /\ Len(c.order) = Cardinality(c.members)
                 /\ circle.status # "PENDING"

\* Nothing the invariant of a contract depends on is taken back by the circle.
LEMMA ContractFrame ==
  ASSUME TypeOK, TypeOK', CircleGrows, NEW a \in Addresses, ContractInv(a),
         /\ contract'[a].members = contract[a].members
         /\ contract'[a].order = contract[a].order
         /\ contract'[a].active = contract[a].active
         /\ contract'[a].contributed = contract[a].contributed
  PROVE  ContractInv(a)'
<1> DEFINE n == Len(contract[a].order)
<1>1. /\ circle.members \in Seq(Member) /\ circle'.members \in Seq(Member)
      /\ contract[a].order \in Seq(Users)
  BY SeenType DEF TypeOK, Contract
<1>2. UsersOf(circle) \subseteq UsersOf(circle)'
  BY UsersKept
<1>3. n \in 0..Len(circle.members) /\ n <= Len(circle'.members)
  BY <1>1 DEF ContractInv, CircleGrows
<1>4. SubSeq(circle'.members, 1, n) = SubSeq(circle.members, 1, n)
  BY <1>1, <1>3, Prefix DEF CircleGrows
<1>5. contract[a].order = PayoutOrder(SubSeq(circle'.members, 1, n))
  BY <1>4 DEF ContractInv
<1>6. QED
  BY <1>2, <1>3, <1>5 DEF ContractInv, CircleGrows

\* A contract takes members of the circle only.
LEMMA AddOnChainContract ==
  ASSUME TypeOK, TypeOK', UNCHANGED circle, NEW a \in {0} \cup Addresses,
         NEW u \in UsersOf(circle), AddOnChain(a, u), NEW b \in Addresses, ContractInv(b)
  PROVE  ContractInv(b)'
<1>1. u \in Users
  BY SeenType DEF TypeOK
<1>2. /\ contract'[b].members = IF b = a /\ Accepts(a, u)
                                 THEN contract[b].members \cup {u}
                                 ELSE contract[b].members
      /\ contract'[b].active = contract[b].active
      /\ contract'[b].order = contract[b].order
      /\ contract'[b].contributed = contract[b].contributed
  BY <1>1, AddOnChainEffect
<1>3. CASE b = a /\ Accepts(a, u)
  <2>1. ~contract[b].active /\ ~contract'[b].active
    BY <1>2, <1>3 DEF Accepts
  <2>2. contract'[b].members \subseteq UsersOf(circle)'
    BY <1>2, <1>3 DEF ContractInv, UsersOf
  <2>3. QED
    BY <1>2, <1>3, <2>1, <2>2 DEF ContractInv
<1>4. CASE ~(b = a /\ Accepts(a, u))
  BY <1>2, <1>4 DEF ContractInv, UsersOf
<1>5. QED
  BY <1>3, <1>4

\* Each call keeps the invariant of a contract.
LEMMA ContractStep ==
  ASSUME TypeOK, TypeOK', Grows, ViewsInv, HandlersInv, NEW a \in Addresses,
         ContractInv(a), Next
  PROVE  ContractInv(a)'
<1>1. CASE UNCHANGED contract
  BY <1>1, ContractFrame DEF Grows
<1>2. ASSUME NEW h \in Handlers, Calls(h)
      PROVE  ContractInv(a)'
  <2> DEFINE s == handler[h]
  <2>1. /\ s.seen \in Circle \cup {NoCircle} /\ s.user \in Users
        /\ s.address \in {0} \cup Addresses /\ s.seen.address \in {0} \cup Addresses
    BY SeenType DEF TypeOK, Request
  <2>2. UNCHANGED circle /\ Served(s) /\ Earlier(s.seen)
    BY <1>2 DEF Calls, AddCreator, JoinOnChain, SetOrder, BeginOnChain, PayEth, PayToken,
       HandlersInv, RequestInv
  <2>3. CASE AddCreator(h)
    <3>1. Creator \in UsersOf(circle)
      <4>1. Len(circle.members) \in Nat /\ circle.members \in Seq(Member)
        BY SeenType DEF TypeOK
      <4>2. 1 \in 1..Len(circle.members)
        BY <4>1 DEF ViewsInv
      <4>3. QED
        BY <4>2 DEF ViewsInv, UsersOf
    <3>2. QED
      BY <2>1, <2>2, <2>3, <3>1, AddOnChainContract DEF AddCreator
  <2>4. CASE JoinOnChain(h)
    <3>1. s.user \in UsersOf(circle)
      BY <2>2, <2>4 DEF JoinOnChain, At, Served
    <3>2. CASE UNCHANGED contract
      BY <3>2, ContractFrame DEF Grows
    <3>3. CASE AddOnChain(s.seen.address, s.user)
      BY <2>1, <2>2, <3>1, <3>3, AddOnChainContract
    <3>4. QED
      BY <2>4, <3>2, <3>3 DEF JoinOnChain
  <2>5. CASE SetOrder(h)
    <3> DEFINE order == PayoutOrder(s.seen.members)
    <3>1. CASE a = s.seen.address /\ TakesOrder(a, order)
      <4>1. /\ contract'[a].order = order /\ contract'[a].members = contract[a].members
            /\ contract'[a].contributed = contract[a].contributed
            /\ contract'[a].active = contract[a].active /\ ~contract[a].active
        BY <2>5, <3>1, SetOrderEffect DEF TakesOrder
      <4>2. /\ s.seen.members \in Seq(Member) /\ circle.members \in Seq(Member)
            /\ Len(order) = Len(s.seen.members)
        BY <2>1, SeenType, OrderLength DEF TypeOK
      <4>3. /\ Len(order) <= Len(circle.members)
            /\ SubSeq(circle.members, 1, Len(order)) = s.seen.members
        <5>1. Len(s.seen.members) \in 0..Len(s.seen.members)
          BY <4>2
        <5>2. QED
          BY <2>2, <4>2, <5>1, Prefix, Whole DEF Earlier
      <4>4. order = PayoutOrder(SubSeq(circle'.members, 1, Len(order)))
        BY <2>2, <4>3
      <4> HIDE DEF order
      <4>5. QED
        BY <2>2, <4>1, <4>3, <4>4 DEF ContractInv, UsersOf
    <3>2. CASE ~(a = s.seen.address /\ TakesOrder(a, order))
      <4>1. /\ contract'[a].order = contract[a].order
            /\ contract'[a].members = contract[a].members
            /\ contract'[a].contributed = contract[a].contributed
            /\ contract'[a].active = contract[a].active
        BY <2>5, <3>2, SetOrderEffect
      <4>2. QED
        BY <4>1, ContractFrame DEF Grows
    <3>3. QED
      BY <3>1, <3>2
  <2>6. CASE BeginOnChain(h)
    <3>1. /\ contract'[a].active <=> contract[a].active
                                      \/ (a = s.seen.address /\ Startable(a))
          /\ contract'[a].order = contract[a].order
          /\ contract'[a].members = contract[a].members
          /\ contract'[a].contributed = contract[a].contributed
      BY <2>6, BeginEffect
    <3>2. s.seen.status = "RECRUITING"
      BY <2>2, <2>6 DEF BeginOnChain, At, Served
    <3>3. circle.status # "PENDING"
      BY <2>2, <3>2 DEF Earlier
    <3>4. QED
      BY <2>2, <3>1, <3>3 DEF ContractInv, Startable, UsersOf
  <2>7. CASE PayEth(h)
    BY <2>7, PayEthEffect, ContractFrame DEF Grows
  <2>8. CASE PayToken(h)
    <3>1. /\ contract'[a].contributed = IF a = s.seen.address /\ TakesContribution(a, s.user)
                                        THEN contract[a].contributed \cup {s.user}
                                        ELSE contract[a].contributed
          /\ contract'[a].active = contract[a].active
          /\ contract'[a].order = contract[a].order
          /\ contract'[a].members = contract[a].members
      BY <2>8, PayTokenEffect
    <3>2. QED
      BY <2>2, <3>1 DEF ContractInv, TakesContribution, UsersOf
  <2>9. QED
    BY <1>2, <2>3, <2>4, <2>5, <2>6, <2>7, <2>8 DEF Calls
<1>3. QED
  BY <1>1, <1>2, ContractsKept DEF Calls

LEMMA ContractsStep ==
  ASSUME TypeOK, TypeOK', Grows, ViewsInv, HandlersInv, ContractsInv, Next
  PROVE  ContractsInv'
<1>1. \A a \in Addresses : ContractInv(a) /\ (a > deployed => contract[a] = NoContract)
  BY DEF ContractsInv, ContractInv
<1>2. ASSUME NEW a \in Addresses
      PROVE  ContractInv(a)' /\ (a > deployed' => contract'[a] = NoContract)
  <2>1. a > deployed' => contract'[a] = NoContract
    BY <1>1, UndeployedKept DEF Deployed, Grows, TypeOK, Addresses
  <2>2. QED
    BY <1>1, <2>1, ContractStep
<1>3. QED
  BY <1>2 DEF ContractsInv, ContractInv

-----------------------------------------------------------------------------
(* Activations                                                             *)

\* A request that goes on is for the same operation of the same user.
LEMMA SameOp ==
  ASSUME TypeOK, NEW h \in Handlers, Serve(h)
  PROVE  \/ handler'[h] = Idle
         \/ handler'[h].op = handler[h].op /\ handler'[h].user = handler[h].user
<1>1. handler[h] \in Request /\ handler[h].seen \in Circle \cup {NoCircle}
  BY DEF TypeOK, Request
<1> DEFINE s == handler[h]
<1>a. ASSUME NEW step, NEW seen, NEW address, Becomes(h, With(s, step, seen, address))
      PROVE  handler'[h].op = s.op /\ handler'[h].user = s.user
  BY <1>a DEF Becomes, With
<1>b. ASSUME NEW c \in Circle \cup {NoCircle}, NEW overtaken, Continue(h, c, overtaken)
      PROVE  \/ handler'[h] = Idle
             \/ handler'[h].op = s.op /\ handler'[h].user = s.user
  <2>1. \/ Becomes(h, Idle)
        \/ Becomes(h, With(s, After(s.op, s.user, c), c, s.address))
    BY <1>b, ContinueBecomes
  <2>2. QED
    BY <1>a, <2>1 DEF Becomes
<1>2. CASE CacheHit(h) \/ FillCache(h)
  BY <1>1, <1>2, <1>b DEF CacheHit, FillCache, TypeOK
<1>3. CASE FindById(h) \/ FindForJoin(h) \/ Deploy(h)
  <2>1. \/ Becomes(h, Idle)
        \/ Becomes(h, With(s, "fill", circle, s.address))
        \/ Becomes(h, With(s, "push", circle, s.address))
        \/ Becomes(h, With(s, IF OnBase THEN "addCreator" ELSE "save", s.seen, deployed'))
    BY <1>3, FindByIdBecomes, FindForJoinBecomes, DeployBecomes
  <2>2. QED
    BY <1>a, <2>1 DEF Becomes
<1>4. CASE Ends(h)
  BY <1>4, EndsIdle DEF Becomes
<1>5. ASSUME NEW step \in Steps, Moves(h, step)
      PROVE  handler'[h].op = s.op /\ handler'[h].user = s.user
  BY <1>5, <1>a, MovesGoes DEF Goes
<1>6. CASE SignNear(h)
  BY <1>6, SignNearEffect
<1>7. QED
  BY <1>2, <1>3, <1>4, <1>5, <1>6 DEF Serve, CacheMiss, Invalidate, StepFails, AddCreator,
     SaveActivation, PushMember, JoinOnChain, SetOrder, BeginOnChain, SaveStart,
     CheckContribution, PayEth, PayToken, SendNear, RecordContribution, Steps

\* An operation that is counted when it overlaps was alone, or the overlap is
\* written down.
LEMMA AdmittedAlone ==
  ASSUME TypeOK, NEW h \in Handlers, NEW c, NEW overtaken, Continue(h, c, overtaken),
         NEW op \in {"activate", "contribute"}, handler[h].op = op, op \notin races',
         After(handler[h].op, handler[h].user, c) # "idle",
         NEW g \in Handlers \ {h}, handler[g].op = op, handler[g].user = handler[h].user
  PROVE  ~Admitted(g)
<1>1. Overlapping(h) \subseteq races'
  BY DEF Continue
<1>2. op \notin Overlapping(h)
  BY <1>1
<1>3. QED
  BY <1>2 DEF Overlapping

\* One contract more than failing calls, however many calls fail.
LEMMA MoreFailures ==
  ASSUME NEW d \in Nat, NEW f \in Nat, NEW g \in Nat, f <= g, d <= 1 + f
  PROVE  d <= 1 + g
  OBVIOUS

\* Steps in which no activation takes part.
LEMMA ActivationsFrame ==
  ASSUME ActivationsInv, Grows, UNCHANGED deployed,
         circle'.status = "PENDING" <=> circle.status = "PENDING",
         races' \cap {"activate", "fill"} = {} /\ cache'.status = "PENDING"
           => "PENDING" \in {circle.status, cache.status},
         failures \in Nat, failures' \in Nat, deployed \in Nat,
         \A g \in Handlers : \/ handler'[g] = handler[g]
                             \/ ~Activating(g) /\ ~Activating(g)'
  PROVE  ActivationsInv'
<1> DEFINE Quiet == races \cap {"activate", "fill"} = {}
<1>1. \A g \in Handlers : /\ Activating(g)' <=> Activating(g)
                          /\ Activating(g) => handler'[g] = handler[g]
  BY DEF Activating, Admitted
<1>2. failures <= failures' /\ (Quiet' => Quiet)
  BY DEF Grows
<1>3. ASSUME NEW h \in Handlers, Activating(h)', At(h, "invalidate")'
      PROVE  circle'.status # "PENDING"
  BY <1>1, <1>3 DEF ActivationsInv, At
<1>4. ASSUME Quiet'
      PROVE  /\ deployed' <= 1 + failures'
             /\ \A g, h \in Handlers : Activating(g)' /\ Activating(h)' => g = h
             /\ \A h \in Handlers : Activating(h)' /\ At(h, "deploy")' => deployed' <= failures'
  <2>1. Quiet
    BY <1>2, <1>4
  <2>2. deployed' <= 1 + failures'
    <3>1. deployed <= 1 + failures
      BY <2>1 DEF ActivationsInv
    <3>2. failures <= failures' /\ deployed' = deployed
      BY DEF Grows
    <3>3. QED
      BY <3>1, <3>2, MoreFailures
  <2>3. \A g, h \in Handlers : Activating(g)' /\ Activating(h)' => g = h
    BY <1>1, <2>1 DEF ActivationsInv
  <2>4. ASSUME NEW h \in Handlers, Activating(h)', At(h, "deploy")'
        PROVE  deployed' <= failures'
    <3>1. Activating(h) /\ At(h, "deploy")
      BY <1>1, <2>4 DEF At
    <3>2. QED
      BY <1>2, <2>1, <3>1 DEF ActivationsInv
  <2>5. QED
    BY <2>2, <2>3, <2>4
<1>5. ASSUME Quiet', "PENDING" \in {circle'.status, cache'.status}
      PROVE  deployed' <= failures' \/ \E h \in Handlers : HasDeployed(h)'
  <2>1. "PENDING" \in {circle.status, cache.status}
    BY <1>5
  <2>2. deployed <= failures \/ \E h \in Handlers : HasDeployed(h)
    BY <1>2, <1>5, <2>1 DEF ActivationsInv
  <2>3. QED
    BY <1>1, <1>2, <2>2 DEF HasDeployed, At
<1>6. ASSUME Quiet', circle'.status # "PENDING", failures' = 0
      PROVE  /\ \A h \in Handlers : Activating(h)' => At(h, "invalidate")'
             /\ cache'.status = "PENDING" =>
                  \E h \in Handlers : Activating(h)' /\ At(h, "invalidate")'
  <2>1. failures = 0 /\ Quiet
    BY <1>2, <1>6
  <2>2. QED
    BY <1>1, <1>6, <2>1 DEF ActivationsInv, At
<1>7. QED
  BY <1>3, <1>4, <1>5, <1>6 DEF ActivationsInv

\* A request that is counted is admitted when it goes on with a circle.
LEMMA NotAdmitted ==
  ASSUME TypeOK, HandlersInv, NEW h \in Handlers, Serve(h),
         ~CacheHit(h), ~FillCache(h), NEW op \in {"activate", "contribute"},
         ~(handler[h].op = op /\ Admitted(h))
  PROVE  ~(handler'[h].op = op /\ Admitted(h)')
<1> DEFINE s == handler[h]
<1>1. CASE handler'[h] = Idle
  BY <1>1 DEF Idle
<1>2. CASE handler'[h].op = s.op /\ s.op = op /\ s.step \in Reading
  <2>1. CacheMiss(h) \/ FindById(h) \/ Invalidate(h) \/ StepFails(h)
    BY <1>2 DEF Serve, Reading, At, Deploy, AddCreator, SaveActivation, FindForJoin,
       PushMember, JoinOnChain, SetOrder, BeginOnChain, SaveStart, CheckContribution,
       PayEth, PayToken, SignNear, SendNear, RecordContribution
  <2>2. CASE CacheMiss(h)
    <3>1. Goes(h, "read")
      BY <2>2, MovesGoes DEF CacheMiss, Steps
    <3>2. QED
      BY <3>1 DEF Goes, Becomes, With, Admitted
  <2>3. CASE FindById(h)
    <3>1. Becomes(h, With(s, "fill", circle, s.address))
      BY <2>3, FindByIdBecomes
    <3>2. QED
      BY <3>1 DEF Becomes, With, Admitted
  <2>4. CASE Invalidate(h) \/ StepFails(h)
    BY <2>4, EndsIdle DEF Invalidate, StepFails, Becomes, Idle
  <2>5. QED
    BY <2>1, <2>2, <2>3, <2>4
<1>3. s.op = op => s.step \in Reading
  BY DEF HandlersInv, RequestInv, Served, StepsOf, Admitted, Reading
<1>4. QED
  BY <1>1, <1>2, <1>3, SameOp

LEMMA NotActivating ==
  ASSUME TypeOK, HandlersInv, NEW h \in Handlers, Serve(h),
         ~CacheHit(h), ~FillCache(h), ~Activating(h)
  PROVE  ~Activating(h)'
  BY NotAdmitted DEF Activating

\* An activation is deployed, or about to be, saved, or ended.
LEMMA ActivatingSteps ==
  ASSUME HandlersInv, NEW h \in Handlers, Activating(h), Serve(h)
  PROVE  /\ handler[h].step \in {"deploy", "addCreator", "save", "invalidate"}
         /\ \/ Deploy(h) \/ AddCreator(h) \/ SaveActivation(h)
            \/ Invalidate(h) \/ StepFails(h)
<1>1. handler[h].step \in {"deploy", "addCreator", "save", "invalidate"}
  BY DEF HandlersInv, RequestInv, Served, StepsOf, Activating, Admitted, Reading
<1>2. QED
  BY <1>1 DEF Serve, At, CacheHit, CacheMiss, FindById, FillCache, FindForJoin,
     PushMember, JoinOnChain, SetOrder, BeginOnChain, SaveStart, CheckContribution,
     PayEth, PayToken, SignNear, SendNear, RecordContribution

\* An activation goes on: the first invariants of one that is alone.
LEMMA DeployActivations ==
  ASSUME TypeOK, TypeOK', HandlersInv, ActivationsInv, NEW h \in Handlers, Activating(h),
         Deploy(h) \/ AddCreator(h)
  PROVE  ActivationsInv'
<1> DEFINE Quiet == races \cap {"activate", "fill"} = {}
<1>1. /\ deployed \in Nat /\ deployed' \in Nat /\ failures \in Nat
  BY DEF TypeOK
<1>2. UNCHANGED <<circle, cache, races, failures>>
  BY DEF Deploy, AddCreator, budgets
<1>3. /\ \A g \in Handlers \ {h} : handler'[g] = handler[g]
      /\ handler'[h].op = "activate" /\ handler'[h].step \in {"addCreator", "save"}
  <2>1. CASE Deploy(h)
    <3>1. Becomes(h, With(handler[h], IF OnBase THEN "addCreator" ELSE "save",
                          handler[h].seen, deployed'))
      BY <2>1, DeployBecomes
    <3>2. QED
      BY <3>1 DEF Becomes, With, Activating
  <2>2. CASE AddCreator(h)
    <3>1. Goes(h, "save")
      BY <2>2, MovesGoes DEF AddCreator, Steps
    <3>2. QED
      BY <3>1 DEF Goes, Becomes, With, Activating
  <2>3. QED
    BY <2>1, <2>2
<1>4. HasDeployed(h)' /\ ~At(h, "invalidate")' /\ ~At(h, "deploy")' /\ ~At(h, "invalidate")
  BY <1>3 DEF HasDeployed, Activating, Admitted, At, Deploy, AddCreator
<1>5. ASSUME NEW g \in Handlers
      PROVE  /\ Activating(g)' <=> Activating(g)
             /\ g # h => At(g, "deploy")' = At(g, "deploy")
             /\ At(g, "invalidate")' = At(g, "invalidate")
  BY <1>3, <1>4 DEF Activating, Admitted, HasDeployed, At
<1>6. ASSUME NEW g \in Handlers, Activating(g)', At(g, "invalidate")'
      PROVE  circle'.status # "PENDING"
  BY <1>2, <1>5, <1>6 DEF ActivationsInv
<1>7. ASSUME Quiet'
      PROVE  /\ deployed' <= 1 + failures'
             /\ \A f, g \in Handlers : Activating(f)' /\ Activating(g)' => f = g
             /\ \A g \in Handlers : ~(Activating(g)' /\ At(g, "deploy")')
             /\ circle'.status # "PENDING" => failures' # 0
  <2>1. Quiet
    BY <1>2, <1>7
  <2>4. \A f, g \in Handlers : Activating(f)' /\ Activating(g)' => f = g
    BY <1>5, <2>1 DEF ActivationsInv
  <2>5. \A g \in Handlers : ~(Activating(g)' /\ At(g, "deploy")')
    BY <1>4, <1>5, <2>4
  <2>6. circle.status # "PENDING" => failures # 0
    BY <1>4, <2>1 DEF ActivationsInv
  <2>7. deployed' <= 1 + failures
    <3>1. CASE Deploy(h)
      <4>1. deployed <= failures
        BY <2>1, <3>1 DEF ActivationsInv, Deploy
      <4>2. deployed' = deployed + 1 \/ deployed' = 1
        BY <3>1 DEF Deploy
      <4>3. QED
        BY <1>1, <4>1, <4>2
    <3>2. CASE AddCreator(h)
      BY <2>1, <3>2 DEF ActivationsInv, AddCreator
    <3>3. QED
      BY <3>1, <3>2
  <2>8. QED
    BY <1>2, <2>4, <2>5, <2>6, <2>7
<1>8. QED
  BY <1>4, <1>6, <1>7 DEF ActivationsInv

\* The activation is saved, and ends.
LEMMA SaveActivations ==
  ASSUME TypeOK, TypeOK', HandlersInv, ActivationsInv, NEW h \in Handlers,
         SaveActivation(h)
  PROVE  ActivationsInv'
<1> DEFINE Quiet == races \cap {"activate", "fill"} = {}
<1>1. UNCHANGED <<cache, deployed, races, failures>> /\ circle'.status = "RECRUITING"
  BY DEF SaveActivation, budgets, chainVars, TypeOK, Circle
<1>2. Goes(h, "invalidate") /\ handler[h].step = "save"
  BY MovesGoes DEF SaveActivation, Steps, At
<1>3. handler[h].op = "activate"
  BY <1>2 DEF HandlersInv, RequestInv, Served, StepsOf, Reading, TypeOK, Request, Ops
<1>4. /\ \A g \in Handlers \ {h} : handler'[g] = handler[g]
      /\ handler'[h].op = "activate" /\ handler'[h].step = "invalidate"
  BY <1>2, <1>3 DEF Goes, Becomes, With
<1>5. Activating(h) /\ Activating(h)' /\ HasDeployed(h)' /\ At(h, "invalidate")'
  BY <1>2, <1>3, <1>4 DEF HasDeployed, Activating, Admitted, At
<1>6. \A g \in Handlers : Activating(g)' <=> Activating(g)
  BY <1>4, <1>5 DEF Activating, Admitted
<1>7. ASSUME Quiet'
      PROVE  /\ deployed' <= 1 + failures'
             /\ \A f, g \in Handlers : Activating(f)' /\ Activating(g)' => f = g
  BY <1>1, <1>6, <1>7 DEF ActivationsInv
<1>8. ASSUME Quiet', NEW g \in Handlers, Activating(g)'
      PROVE  At(g, "invalidate")' /\ ~At(g, "deploy")'
  BY <1>5, <1>7, <1>8 DEF At
<1>9. QED
  BY <1>1, <1>5, <1>7, <1>8 DEF ActivationsInv

LEMMA EndActivations ==
  ASSUME TypeOK, TypeOK', HandlersInv, ActivationsInv, NEW h \in Handlers,
         Activating(h), Invalidate(h) \/ StepFails(h)
  PROVE  ActivationsInv'
<1> DEFINE Quiet == races \cap {"activate", "fill"} = {}
<1>1. /\ UNCHANGED <<circle, deployed, races>> /\ deployed \in Nat /\ failures \in Nat
      /\ \/ failures' = failures + 1 /\ cache' = cache
         \/ failures' = failures /\ cache' = NoCircle /\ At(h, "invalidate")
  BY DEF Invalidate, StepFails, chainVars, budgets, TypeOK
<1>2. Becomes(h, Idle)
  BY EndsIdle DEF Invalidate, StepFails
<1>3. /\ ~Activating(h)'
      /\ \A g \in Handlers \ {h} : handler'[g] = handler[g]
  BY <1>2 DEF Becomes, Idle, Activating
<1>4. \A g \in Handlers : Activating(g)' => Activating(g) /\ g # h /\ handler'[g] = handler[g]
  BY <1>3 DEF Activating, Admitted
<1>5. ASSUME NEW g \in Handlers, Activating(g)', At(g, "invalidate")'
      PROVE  circle'.status # "PENDING"
  BY <1>1, <1>4, <1>5 DEF ActivationsInv, At
<1>6. ASSUME Quiet'
      PROVE  \A g \in Handlers : ~Activating(g)'
  BY <1>1, <1>4, <1>6 DEF ActivationsInv
<1>7. ASSUME Quiet'
      PROVE  deployed' <= 1 + failures' /\ deployed <= 1 + failures
  BY <1>1, <1>7 DEF ActivationsInv
<1>8. CASE failures' = failures + 1
  <2>1. Quiet' => deployed' <= failures'
    BY <1>1, <1>7, <1>8
  <2>2. failures' # 0
    BY <1>1, <1>8
  <2>3. QED
    BY <1>5, <1>6, <1>7, <2>1, <2>2 DEF ActivationsInv
<1>9. CASE cache' = NoCircle /\ At(h, "invalidate")
  <2>1. circle'.status # "PENDING" /\ cache'.status # "PENDING"
    BY <1>1, <1>9 DEF ActivationsInv, NoCircle
  <2>2. QED
    BY <1>5, <1>6, <1>7, <2>1 DEF ActivationsInv
<1>10. QED
  BY <1>1, <1>8, <1>9

\* A request that goes on with the copy, or with the circle it has read.
LEMMA ContinueActivations ==
  ASSUME TypeOK, TypeOK', Grows, HandlersInv, ActivationsInv, NEW h \in Handlers,
         NEW c \in Circle \cup {NoCircle}, NEW overtaken, Continue(h, c, overtaken),
         UNCHANGED <<circle, deployed, failures>>, ~Activating(h),
         \/ c = cache /\ UNCHANGED cache
         \/ cache' = c /\ (races' \cap {"activate", "fill"} = {} => c = circle)
  PROVE  ActivationsInv'
<1> DEFINE s == handler[h]
           Quiet == races \cap {"activate", "fill"} = {}
<1>1. PICK step : step = After(s.op, s.user, c)
  OBVIOUS
<1>2. IF step = "idle" THEN Becomes(h, Idle) ELSE Becomes(h, With(s, step, c, s.address))
  BY <1>1, ContinueBecomes
<1>3. \A g \in Handlers \ {h} : handler'[g] = handler[g]
  BY <1>2 DEF Becomes
<1>4. Quiet' => /\ Quiet
                /\ cache'.status = cache.status \/ cache'.status = circle.status
  BY DEF Grows
<1>5. /\ failures \in Nat /\ failures' \in Nat /\ deployed \in Nat
  BY DEF TypeOK
<1>6. CASE ~Activating(h)'
  <2>1. Quiet' /\ cache'.status = "PENDING" => "PENDING" \in {circle.status, cache.status}
    BY <1>4
  <2>2. QED
    BY <1>3, <1>5, <1>6, <2>1, ActivationsFrame
<1>7. CASE Activating(h)'
  <2>1. step # "idle"
    BY <1>2, <1>7 DEF Becomes, Idle, Activating
  <2>2. handler'[h].op = s.op /\ handler'[h].step = step
    BY <1>2, <2>1 DEF Becomes, With
  <2>3. s.op = "activate" /\ step = "deploy" /\ c.status = "PENDING"
    BY <1>1, <1>7, <2>1, <2>2, AfterStep DEF Activating, MayActivate
  <2>4. s.user = Creator /\ \A g \in Handlers : Activating(g) => handler[g].user = Creator
    BY <2>3 DEF HandlersInv, RequestInv, Served, Activating
  <2>5. ASSUME Quiet'
        PROVE  \A g \in Handlers : ~Activating(g)
    <3>1. ASSUME NEW g \in Handlers \ {h}, Activating(g)
          PROVE  FALSE
      <4>1. "activate" \notin races'
        BY <2>5
      <4>2. handler[g].op = "activate" /\ handler[g].user = s.user /\ Admitted(g)
        BY <2>4, <3>1 DEF Activating
      <4>3. QED
        BY <1>1, <2>1, <2>3, <4>1, <4>2, AdmittedAlone
    <3>2. QED
      BY <3>1
  <2>6. ASSUME Quiet'
        PROVE  "PENDING" \in {circle.status, cache.status}
    BY <1>4, <2>3, <2>6
  <2>7. ASSUME Quiet'
        PROVE  deployed <= failures
    <3>1. deployed <= failures \/ \E g \in Handlers : HasDeployed(g)
      BY <1>4, <2>6, <2>7 DEF ActivationsInv
    <3>2. QED
      BY <2>5, <2>7, <3>1 DEF HasDeployed
  <2>8. \A g \in Handlers \ {h} : Activating(g)' <=> Activating(g)
    BY <1>3 DEF Activating, Admitted
  <2>9. ~At(h, "invalidate")' /\ At(h, "deploy")'
    BY <2>2, <2>3 DEF At
  <2>10. ASSUME NEW g \in Handlers, Activating(g)', At(g, "invalidate")'
         PROVE  circle'.status # "PENDING"
    BY <1>3, <2>8, <2>9, <2>10 DEF ActivationsInv, At
  <2>11. ASSUME Quiet'
         PROVE  \A f, g \in Handlers : Activating(f)' /\ Activating(g)' => f = g
    BY <2>5, <2>8, <2>11
  <2>12. Quiet' => deployed' <= failures' /\ deployed' <= 1 + failures'
    BY <1>5, <2>7
  <2>13. ASSUME Quiet', circle'.status # "PENDING"
         PROVE  failures' # 0
    BY <1>4, <2>3, <2>5, <2>13 DEF ActivationsInv
  <2>14. QED
    BY <2>10, <2>11, <2>12, <2>13 DEF ActivationsInv
<1>8. QED
  BY <1>6, <1>7

\* Only a request that activates deploys and writes that the circle recruits.
LEMMA OnlyActivations ==
  ASSUME TypeOK, HandlersInv, NEW h \in Handlers, Deploy(h) \/ SaveActivation(h)
  PROVE  Activating(h)
<1>1. handler[h].step \in {"deploy", "save"} /\ handler[h].op \in Ops
  BY DEF Deploy, SaveActivation, At, TypeOK, Request
<1>2. handler[h].op = "activate"
  BY <1>1 DEF HandlersInv, RequestInv, Served, StepsOf, Reading, Ops
<1>3. QED
  BY <1>1, <1>2 DEF Activating, Admitted

\* A start finds a circle that is not PENDING.
LEMMA StartKeepsStatus ==
  ASSUME TypeOK, HandlersInv, NEW h \in Handlers, SaveStart(h)
  PROVE  circle.status # "PENDING" /\ circle'.status = "ACTIVE"
<1>1. handler[h].seen.status = "RECRUITING"
  BY DEF SaveStart, At, HandlersInv, RequestInv, Served
<1>2. QED
  BY <1>1 DEF HandlersInv, RequestInv, Earlier, SaveStart, TypeOK, Circle

\* Every step keeps what is known of activations.
LEMMA ActivationsStep ==
  ASSUME TypeOK, TypeOK', Grows, HandlersInv, ActivationsInv, Next
  PROVE  ActivationsInv'
<1>1. failures \in Nat /\ failures' \in Nat /\ deployed \in Nat
  BY DEF TypeOK
<1>2. ASSUME NEW h \in Handlers, Serve(h)
      PROVE  ActivationsInv'
  <2>1. CASE CacheHit(h)
    <3>1. ~Activating(h)
      BY <2>1 DEF CacheHit, At, Activating, Admitted
    <3>2. QED
      BY <2>1, <3>1, ContinueActivations DEF CacheHit, TypeOK, chainVars, budgets
  <2>2. CASE FillCache(h)
    <3> DEFINE seen == handler[h].seen
               overtaken == IF seen # circle THEN {"fill"} ELSE {}
    <3>1. ~Activating(h)
      BY <2>2 DEF FillCache, At, Activating, Admitted
    <3>2. Continue(h, seen, overtaken) /\ cache' = seen
      BY <2>2 DEF FillCache
    <3>3. seen # circle => "fill" \in races'
      BY <3>2 DEF Continue
    <3>4. seen \in Circle \cup {NoCircle} /\ UNCHANGED <<circle, deployed, failures>>
      BY <2>2 DEF FillCache, TypeOK, Request, chainVars, budgets
    <3> HIDE DEF overtaken
    <3>5. QED
      BY <3>1, <3>2, <3>3, <3>4, ContinueActivations
  <2>3. CASE Activating(h)
    BY <1>2, <2>3, ActivatingSteps, DeployActivations, SaveActivations, EndActivations
  <2>4. CASE ~Activating(h) /\ ~CacheHit(h) /\ ~FillCache(h)
    <3>1. ~Deploy(h) /\ ~SaveActivation(h)
      BY <2>4, OnlyActivations
    <3>2. UNCHANGED deployed /\ (cache' = cache \/ cache' = NoCircle)
      BY <1>2, <2>4, <3>1 DEF Serve, CacheMiss, FindById, Invalidate, StepFails,
         AddCreator, FindForJoin, PushMember, JoinOnChain, SetOrder, BeginOnChain,
         SaveStart, CheckContribution, PayEth, PayToken, SignNear, SendNear, RecordContribution, chainVars
    <3>3. circle'.status = "PENDING" <=> circle.status = "PENDING"
      <4>1. CASE SaveStart(h)
        BY <4>1, StartKeepsStatus
      <4>2. CASE PushMember(h)
        BY <4>2, PushEffect
      <4>3. CASE UNCHANGED circle
        BY <4>3
      <4>4. QED
        BY <1>2, <2>4, <3>1, <4>1, <4>2, <4>3 DEF Serve, CacheMiss, FindById, Invalidate,
           StepFails, AddCreator, FindForJoin, JoinOnChain, SetOrder, BeginOnChain,
           CheckContribution, PayEth, PayToken, SignNear, SendNear, RecordContribution
    <3>4. \A g \in Handlers : \/ handler'[g] = handler[g]
                              \/ ~Activating(g) /\ ~Activating(g)'
      BY <1>2, <2>4, ServeOne, NotActivating
    <3>5. cache'.status = "PENDING" => cache.status = "PENDING"
      BY <3>2 DEF NoCircle
    <3>6. QED
      BY <1>1, <3>2, <3>3, <3>4, <3>5, ActivationsFrame
  <2>5. QED
    BY <2>1, <2>2, <2>3, <2>4
<1>3. ASSUME NEW h \in Handlers, NEW op \in Ops, NEW u \in Users, Receive(h, op, u)
      PROVE  ActivationsInv'
  <2> DEFINE s == [op |-> op, user |-> u,
                   step |-> IF op = "join" THEN "join" ELSE "lookup",
                   seen |-> NoCircle, address |-> 0, nonce |-> 0]
  <2>1. Becomes(h, s)
    BY <1>3, ReceiveBecomes
  <2>2. ~Activating(h) /\ ~Activating(h)'
    BY <1>3, <2>1 DEF Receive, At, Becomes, Activating, Admitted
  <2>3. UNCHANGED <<circle, cache, deployed>>
    BY <1>3 DEF Receive, chainVars
  <2>4. QED
    BY <1>1, <2>1, <2>2, <2>3, ActivationsFrame DEF Becomes
<1>4. CASE CacheExpires
  BY <1>1, <1>4, ActivationsFrame DEF CacheExpires, chainVars, NoCircle
<1>5. CASE ScheduleRounds \/ AdvanceRound
  <2>1. circle'.status = circle.status /\ UNCHANGED <<cache, deployed, handler>>
    BY <1>5 DEF ScheduleRounds, AdvanceRound, TypeOK, Circle, chainVars
  <2>2. QED
    BY <1>1, <2>1, ActivationsFrame
<1>6. QED
  BY <1>2, <1>3, <1>4, <1>5 DEF Next

-----------------------------------------------------------------------------
(* The start                                                               *)

Undisturbed == races \cap {"start", "late"} = {}

\* The three parts of StartsTogether.
Alike == circle.status = "ACTIVE" /\ Undisturbed => SameCircle
Running ==
  circle.round # 0 =>
    \E a \in Addresses :
      contract[a].active /\ (Undisturbed => Len(contract[a].order) = circle.totalRounds)
Announced(a) ==
  contract[a].active =>
    \/ circle.status = "ACTIVE"
    \/ \E h \in Handlers : At(h, "activate") /\ handler[h].seen.address = a
    \/ failures > 0
    \/ races \cap {"activate", "fill"} # {}

\* There are at most as many users as members.
LEMMA UsersCount ==
  ASSUME NEW c \in Circle \cup {NoCircle}
  PROVE  /\ IsFiniteSet(UsersOf(c))
         /\ Cardinality(UsersOf(c)) \in Nat
         /\ Cardinality(UsersOf(c)) <= Len(c.members)
         /\ (\A i, j \in 1..Len(c.members) : c.members[i].user = c.members[j].user => i = j)
              => Cardinality(UsersOf(c)) = Len(c.members)
<1> DEFINE n == Len(c.members)
           S == 1..n
           T == UsersOf(c)
           f == [i \in S |-> c.members[i].user]
<1>1. n \in Nat
  BY SeenType
<1>2. IsFiniteSet(S) /\ Cardinality(S) = n
  BY <1>1, FS_Interval
<1>3. T = {c.members[i].user : i \in S}
  BY DEF UsersOf
<1>4. f \in Surjection(S, T)
  BY <1>3 DEF Surjection
<1>5. (\A i, j \in S : c.members[i].user = c.members[j].user => i = j)
        => f \in Injection(S, T)
  BY <1>4 DEF Injection, Surjection, IsInjective
<1> HIDE DEF n, S, T, f
<1>6. /\ IsFiniteSet(T) /\ Cardinality(T) <= Cardinality(S)
      /\ (Cardinality(T) = Cardinality(S) <=> f \in Injection(S, T))
  BY <1>2, <1>4, FS_Surjection
<1>7. Cardinality(T) \in Nat
  BY <1>6, FS_CardinalityType
<1>8. QED
  BY <1>2, <1>5, <1>6, <1>7 DEF T, S, n

\* Members at higher positions come later in the order.
Sorted(m, order) ==
  \A i, j \in 1..Len(m) : m[i].position < m[j].position =>
    \E k \in 1..Len(m) : /\ order[k] = m[j].user
                         /\ \E l \in 1..(k - 1) : order[l] = m[i].user

\* A contract that was started for the circle as it is now has its members.
LEMMA StartedAlike ==
  ASSUME TypeOK, HandlersInv, ContractsInv, NEW h \in Handlers, SaveStart(h), OnBase,
         handler[h].seen = circle
  PROVE  LET c == contract[circle.address] IN
         /\ circle.address \in Addresses
         /\ c.active /\ c.members = UsersOf(circle)
         /\ Len(c.order) = Len(circle.members)
         /\ Sorted(circle.members, c.order)
<1> DEFINE a == circle.address
           c == contract[a]
<1>1. /\ circle \in Circle /\ Len(circle.members) \in Nat /\ a \in {0} \cup Addresses
  BY SeenType DEF TypeOK
<1>2. a # 0 /\ c.active /\ Len(c.order) >= Len(circle.members)
  BY DEF SaveStart, At, HandlersInv, RequestInv, Served, Covered
<1>3. a \in Addresses /\ c \in Contract
  BY <1>1, <1>2 DEF TypeOK
<1>4. /\ c.members \subseteq UsersOf(circle)
      /\ Len(c.order) <= Len(circle.members) /\ Len(c.order) = Cardinality(c.members)
      /\ c.order = PayoutOrder(SubSeq(circle.members, 1, Len(c.order)))
  BY <1>2, <1>3 DEF ContractsInv
<1>5. c.order \in Seq(Users) /\ Len(c.order) \in Nat
  BY <1>3 DEF Contract
<1>6. Len(c.order) = Len(circle.members)
  BY <1>1, <1>2, <1>4, <1>5
<1> DEFINE S == UsersOf(circle)
           T == c.members
<1>7. IsFiniteSet(S) /\ Cardinality(S) \in Nat /\ Cardinality(S) <= Len(circle.members)
  BY <1>1, UsersCount
<1>8. T \in SUBSET S
  BY <1>4
<1>9. Cardinality(T) = Len(circle.members)
  BY <1>4, <1>6
<1> HIDE DEF S, T
<1>10. T = S
  <2>1. Cardinality(T) <= Cardinality(S) /\ (Cardinality(S) = Cardinality(T) => S = T)
    BY <1>7, <1>8, FS_Subset
  <2>2. QED
    BY <1>1, <1>7, <1>9, <2>1
<1>11. SubSeq(circle.members, 1, Len(circle.members)) = circle.members
  BY <1>1, SeenType, Whole
<1>12. Sorted(circle.members, PayoutOrder(circle.members))
  <2>1. circle.members \in Seq(Member)
    BY <1>1, SeenType
  <2>2. QED
    BY <2>1, OrderSorted DEF Sorted
<1>13. QED
  BY <1>2, <1>3, <1>4, <1>6, <1>10, <1>11, <1>12 DEF S, T

\* The three parts are kept.
LEMMA AlikeStep ==
  ASSUME TypeOK, TypeOK', Grows, HandlersInv, ContractsInv, OnBase, Alike, Next
  PROVE  Alike'
<1> SUFFICES ASSUME circle'.status = "ACTIVE", Undisturbed'
             PROVE  SameCircle'
  BY DEF Alike
<1>1. circle \in Circle /\ Undisturbed
  BY DEF TypeOK, Grows, Undisturbed
<1>2. ASSUME NEW h \in Handlers, SaveStart(h)
      PROVE  SameCircle'
  <2>1. handler[h].seen = circle
    BY <1>2 DEF SaveStart, Undisturbed
  <2>2. /\ circle'.members = circle.members /\ circle'.address = circle.address
        /\ circle'.totalRounds = Len(circle.members) /\ UNCHANGED contract
    BY <1>1, <1>2, <2>1 DEF SaveStart, Circle, chainVars
  <2> DEFINE c == contract[circle.address]
  <2>3. /\ circle.address \in Addresses /\ c.active /\ c.members = UsersOf(circle)
        /\ Len(c.order) = Len(circle.members) /\ Sorted(circle.members, c.order)
    BY <1>2, <2>1, StartedAlike
  <2>4. UsersOf(circle)' = UsersOf(circle)
    BY <2>2 DEF UsersOf
  <2>5. circle'.address # 0
    BY <2>2, <2>3 DEF Addresses
  <2> HIDE DEF c
  <2>6. contract'[circle'.address] = c
    BY <2>2 DEF c
  <2>7. QED
    BY <2>2, <2>3, <2>4, <2>5, <2>6 DEF SameCircle, Sorted
<1>3. CASE \A h \in Handlers : ~SaveStart(h)
  <2>1. circle.status = "ACTIVE"
    <3>1. \A h \in Handlers : ~SaveActivation(h)
      BY <1>1 DEF SaveActivation, Circle
    <3>2. QED
      BY <1>3, <3>1, StatusKept
  <2>2. SameCircle
    BY <1>1, <2>1 DEF Alike
  <2>3. \A h \in Handlers : ~PushMember(h)
    <3> SUFFICES ASSUME NEW h \in Handlers, PushMember(h)
                 PROVE  FALSE
      OBVIOUS
    <3>1. handler[h].seen.status = "RECRUITING"
      BY DEF PushMember, At, HandlersInv, RequestInv, Served, MayJoin
    <3>2. QED
      BY <2>1, <3>1 DEF PushMember, Undisturbed
  <2>4. circle'.members = circle.members
    BY <2>3, MembersKept
  <2>5. circle'.address = circle.address
    <3>1. \A h \in Handlers : ~SaveActivation(h)
      BY <1>1 DEF SaveActivation, Circle
    <3>2. QED
      BY <3>1, AddressStep
  <2>6. circle'.totalRounds = circle.totalRounds \/ circle'.totalRounds = Len(circle.members)
    <3>1. CASE ScheduleRounds
      BY <1>1, <3>1 DEF ScheduleRounds, Circle
    <3>2. CASE ~ScheduleRounds
      <4>1. \A h \in Handlers : ~SaveActivation(h)
        BY <1>1 DEF SaveActivation, Circle
      <4>2. ~AdvanceRound
        BY DEF AdvanceRound
      <4>3. UNCHANGED circle
        BY <1>3, <2>3, <3>2, <4>1, <4>2 DEF Next, Serve, Receive, CacheHit, CacheMiss,
           FindById, FillCache, CacheExpires, Invalidate, StepFails, Deploy, AddCreator,
           FindForJoin, JoinOnChain, SetOrder, BeginOnChain, CheckContribution, PayEth,
           PayToken, SignNear, SendNear, RecordContribution
      <4>4. QED
        BY <4>3
    <3>3. QED
      BY <3>1, <3>2
  <2> DEFINE a == circle.address
             c == contract[a]
  <2>7. /\ circle.totalRounds = Len(circle.members)
        /\ c.active /\ c.members = UsersOf(circle)
        /\ Len(c.order) = Len(circle.members) /\ Sorted(circle.members, c.order)
    BY <2>2 DEF SameCircle, Sorted
  <2>8. contract'[a].active /\ contract'[a].members = c.members /\ contract'[a].order = c.order
    <3>1. a \in Addresses
      BY <1>1, <2>2 DEF SameCircle, Circle
    <3>2. QED
      BY <2>7, <3>1 DEF Grows, ContractGrows
  <2>9. UsersOf(circle)' = UsersOf(circle) /\ circle'.address # 0
    BY <2>2, <2>4, <2>5 DEF UsersOf, SameCircle
  <2>10. QED
    BY <2>4, <2>5, <2>6, <2>7, <2>8, <2>9 DEF SameCircle, Sorted
<1>4. QED
  BY <1>2, <1>3

\* The contract that runs goes on running, with the order it has.
LEMMA RunningKept ==
  ASSUME TypeOK, Grows, Running, circle'.round # 0 => circle.round # 0,
         Undisturbed => circle'.totalRounds = circle.totalRounds
  PROVE  Running'
<1> SUFFICES ASSUME circle'.round # 0
             PROVE  \E a \in Addresses :
                      /\ contract'[a].active
                      /\ Undisturbed' => Len(contract'[a].order) = circle'.totalRounds
  BY DEF Running
<1>1. PICK a \in Addresses :
        contract[a].active /\ (Undisturbed => Len(contract[a].order) = circle.totalRounds)
  BY DEF Running
<1>2. contract'[a].active /\ contract'[a].order = contract[a].order
  BY <1>1 DEF Grows, ContractGrows
<1>3. Undisturbed' => Undisturbed
  BY DEF Undisturbed, Grows
<1>4. QED
  BY <1>1, <1>2, <1>3

\* A document that was started has a contract that runs.
LEMMA RunningStep ==
  ASSUME TypeOK, TypeOK', Grows, HandlersInv, ContractsInv, OnBase, Alike, Running, Next
  PROVE  Running'
<1>1. circle \in Circle
  BY DEF TypeOK
<1>2. ASSUME NEW h \in Handlers, SaveStart(h)
      PROVE  Running'
  <2> DEFINE seen == handler[h].seen
             a == seen.address
  <2>1. a \in Addresses /\ contract[a].active
    <3>1. seen \in Circle \cup {NoCircle}
      BY DEF TypeOK, Request
    <3>2. a \in {0} \cup Addresses
      BY <3>1, SeenType
    <3>3. QED
      BY <1>2, <3>2 DEF SaveStart, At, HandlersInv, RequestInv, Served, Covered
  <2>2. circle'.totalRounds = Len(seen.members) /\ contract' = contract
    BY <1>1, <1>2 DEF SaveStart, Circle, chainVars
  <2>3. Undisturbed' => Len(contract[a].order) = Len(seen.members)
    <3> SUFFICES ASSUME Undisturbed' PROVE Len(contract[a].order) = Len(seen.members)
      OBVIOUS
    <3>1. seen = circle
      BY <1>2 DEF SaveStart, Undisturbed
    <3>2. QED
      BY <1>2, <3>1, StartedAlike
  <2>4. QED
    BY <2>1, <2>2, <2>3 DEF Running
<1>3. CASE ScheduleRounds
  <2>1. /\ circle.status = "ACTIVE" /\ circle'.round = circle.round
        /\ circle'.totalRounds = Len(circle.members)
    BY <1>1, <1>3 DEF ScheduleRounds, Circle
  <2>2. QED
    BY <2>1, RunningKept DEF Alike, SameCircle
<1>4. CASE (\A h \in Handlers : ~SaveStart(h)) /\ ~ScheduleRounds
  <2>1. circle'.round = circle.round /\ circle'.totalRounds = circle.totalRounds
    <3>1. CASE \E h \in Handlers : SaveActivation(h)
      BY <1>1, <3>1 DEF SaveActivation, Circle
    <3>2. CASE \E h \in Handlers : PushMember(h)
      BY <3>2, PushEffect
    <3>3. CASE UNCHANGED circle
      BY <3>3
    <3>4. QED
      BY <1>4, <3>1, <3>2, <3>3 DEF Next, Serve, Receive, CacheHit, CacheMiss, FindById,
         FillCache, CacheExpires, Invalidate, StepFails, Deploy, AddCreator, FindForJoin,
         JoinOnChain, SetOrder, BeginOnChain, CheckContribution, PayEth, PayToken, SignNear, SendNear,
         RecordContribution, AdvanceRound
  <2>2. QED
    BY <2>1, RunningKept
<1>5. QED
  BY <1>2, <1>3, <1>4

\* The request that is about to write that the circle runs stays until it does, or
\* fails.
LEMMA StarterStays ==
  ASSUME TypeOK, NEW h \in Handlers, At(h, "activate"), Next
  PROVE  \/ handler'[h] = handler[h]
         \/ circle'.status = "ACTIVE"
         \/ failures' > 0
<1>1. ASSUME NEW g \in Handlers, Serve(g), g # h
      PROVE  handler'[h] = handler[h]
  BY <1>1, ServeOne
<1>2. CASE Serve(h)
  <2>1. SaveStart(h) \/ StepFails(h)
    BY <1>2 DEF At, Serve, CacheHit, CacheMiss, FindById, FillCache, Invalidate, Deploy,
       AddCreator, SaveActivation, FindForJoin, PushMember, JoinOnChain, SetOrder,
       BeginOnChain, CheckContribution, PayEth, PayToken, SignNear, SendNear, RecordContribution
  <2>2. SaveStart(h) => circle'.status = "ACTIVE"
    BY DEF SaveStart, TypeOK, Circle
  <2>3. StepFails(h) => failures' > 0
    BY BoundAssumption DEF StepFails, TypeOK
  <2>4. QED
    BY <2>1, <2>2, <2>3
<1>3. ASSUME NEW g \in Handlers, NEW op \in Ops, NEW u \in Users, Receive(g, op, u)
      PROVE  handler'[h] = handler[h]
  BY <1>3 DEF Receive, At, TypeOK
<1>4. CASE CacheExpires \/ ScheduleRounds \/ AdvanceRound
  BY <1>4 DEF CacheExpires, ScheduleRounds, AdvanceRound
<1>5. QED
  BY <1>1, <1>2, <1>3, <1>4 DEF Next

\* A contract that runs has its document, or its request is about to write it.
LEMMA AnnouncedStep ==
  ASSUME TypeOK, TypeOK', Grows, HandlersInv, ContractsInv, ActivationsInv, Next,
         NEW a \in Addresses, Announced(a)
  PROVE  Announced(a)'
<1> SUFFICES ASSUME contract'[a].active, ~(failures' > 0),
                    races' \cap {"activate", "fill"} = {}, circle'.status # "ACTIVE"
             PROVE  \E h \in Handlers : At(h, "activate")' /\ handler'[h].seen.address = a
  BY DEF Announced
<1>1. failures = 0 /\ races \cap {"activate", "fill"} = {}
  BY DEF Grows, TypeOK
<1>2. CASE contract[a].active
  <2>1. circle.status # "PENDING"
    BY <1>2 DEF ContractsInv
  <2>2. \A h \in Handlers : ~SaveActivation(h)
    <3> SUFFICES ASSUME NEW h \in Handlers, SaveActivation(h)
                 PROVE  FALSE
      OBVIOUS
    <3>1. Activating(h)
      BY OnlyActivations
    <3>2. QED
      BY <1>1, <2>1, <3>1 DEF ActivationsInv, SaveActivation, At
  <2>3. circle.status # "ACTIVE"
    BY <2>2, StatusKept, StartKeepsStatus
  <2>4. PICK h \in Handlers : At(h, "activate") /\ handler[h].seen.address = a
    BY <1>1, <1>2, <2>3 DEF Announced
  <2>5. handler'[h] = handler[h]
    BY <2>4, StarterStays
  <2>6. QED
    BY <2>4, <2>5 DEF At
<1>3. CASE ~contract[a].active
  <2>1. PICK h \in Handlers : BeginOnChain(h) /\ handler[h].seen.address = a /\ Startable(a)
    <3>1. ~UNCHANGED contract
      BY <1>3
    <3>2. PICK h \in Handlers : Calls(h)
      BY <3>1, ContractsKept DEF Calls
    <3>3. /\ handler[h].user \in Users /\ handler[h].address \in {0} \cup Addresses
          /\ handler[h].seen.address \in {0} \cup Addresses
      BY SeenType DEF TypeOK, Request
    <3>4. ~AddCreator(h)
      BY <1>3, <3>3, AddOnChainEffect, UsersAssumption DEF AddCreator
    <3>5. ~JoinOnChain(h)
      BY <1>3, <3>1, <3>3, AddOnChainEffect DEF JoinOnChain
    <3>6. ~SetOrder(h)
      BY <1>3, SetOrderEffect
    <3>7. ~PayEth(h) /\ ~PayToken(h)
      BY <1>3, PayEthEffect, PayTokenEffect
    <3>8. BeginOnChain(h)
      BY <3>2, <3>4, <3>5, <3>6, <3>7 DEF Calls
    <3>9. QED
      BY <1>3, <3>8, BeginEffect
  <2>2. Moves(h, "activate")
    BY <2>1 DEF BeginOnChain
  <2>3. Goes(h, "activate")
    BY <2>2, MovesGoes DEF Steps
  <2>4. QED
    BY <2>1, <2>3 DEF Goes, Becomes, With, At
<1>4. QED
  BY <1>2, <1>3

\* Every step keeps StartsTogether.
LEMMA StartsStep ==
  ASSUME TypeOK, TypeOK', Grows, HandlersInv, ContractsInv, ActivationsInv,
         StartsTogether, Next
  PROVE  StartsTogether'
<1> SUFFICES ASSUME OnBase'
             PROVE  StartsTogether'
  BY DEF StartsTogether
<1>1. OnBase
  BY DEF OnBase, Grows
<1>2. Alike /\ Running /\ \A a \in Addresses : Announced(a)
  BY <1>1 DEF StartsTogether, Alike, Running, Announced, Undisturbed
<1>3. Alike' /\ Running'
  BY <1>1, <1>2, AlikeStep, RunningStep
<1>4. \A a \in Addresses : Announced(a)'
  BY <1>2, AnnouncedStep
<1>5. QED
  BY <1>3, <1>4 DEF StartsTogether, Alike, Running, Announced, Undisturbed

-----------------------------------------------------------------------------
(* The money                                                               *)

\* Which steps lead to a payment and to its record.
LEMMA MoneySteps ==
  ASSUME TypeOK, NEW h \in Handlers, Serve(h)
  PROVE  /\ At(h, "pay")' => CheckContribution(h)
         /\ At(h, "send")' => SignNear(h)
         /\ At(h, "record")' => PayEth(h) \/ PayToken(h) \/ SendNear(h)
<1> DEFINE s == handler[h]
<1>1. s \in Request /\ s.seen \in Circle \cup {NoCircle} /\ cache \in Circle \cup {NoCircle}
  BY DEF TypeOK, Request
<1>2. ASSUME NEW step, NEW seen, NEW address, Becomes(h, With(s, step, seen, address))
      PROVE  handler'[h].step = step
  BY <1>2 DEF Becomes, With
<1>3. ASSUME NEW c \in Circle \cup {NoCircle}, NEW overtaken, Continue(h, c, overtaken)
      PROVE  ~At(h, "pay")' /\ ~At(h, "send")' /\ ~At(h, "record")'
  <2>1. PICK step : step = After(s.op, s.user, c)
    OBVIOUS
  <2>2. Becomes(h, Idle) \/ Becomes(h, With(s, step, c, s.address))
    BY <1>3, <2>1, ContinueBecomes
  <2>3. handler'[h].step = "idle" \/ handler'[h].step = step
    BY <1>2, <2>2 DEF Becomes, Idle
  <2>4. QED
    BY <2>1, <2>3, AfterStep DEF At
<1>4. CASE CacheHit(h) \/ FillCache(h)
  BY <1>1, <1>3, <1>4 DEF CacheHit, FillCache
<1>5. CASE FindById(h) \/ FindForJoin(h) \/ Deploy(h)
  <2>1. \/ Becomes(h, Idle)
        \/ Becomes(h, With(s, "fill", circle, s.address))
        \/ Becomes(h, With(s, "push", circle, s.address))
        \/ Becomes(h, With(s, IF OnBase THEN "addCreator" ELSE "save", s.seen, deployed'))
    BY <1>5, FindByIdBecomes, FindForJoinBecomes, DeployBecomes
  <2>2. handler'[h].step \in {"idle", "fill", "push", "addCreator", "save"}
    BY <1>2, <2>1 DEF Becomes, Idle
  <2>3. QED
    BY <2>2 DEF At
<1>6. CASE Ends(h)
  BY <1>6, EndsIdle DEF Becomes, Idle, At
<1>7. ASSUME NEW step \in Steps, Moves(h, step)
      PROVE  handler'[h].step = step
  BY <1>2, <1>7, MovesGoes DEF Goes
<1>8. CASE \/ Moves(h, "read") \/ Moves(h, "save") \/ Moves(h, "addMember")
           \/ Moves(h, "begin") \/ Moves(h, "activate") \/ Moves(h, "invalidate")
  <2>1. handler'[h].step \in {"read", "save", "addMember", "begin", "activate",
                              "invalidate"}
    BY <1>7, <1>8 DEF Steps
  <2>2. QED
    BY <2>1 DEF At
<1>9. CASE CheckContribution(h) /\ Moves(h, "pay")
  BY <1>7, <1>9 DEF Steps, At
<1>10. CASE PayEth(h) \/ PayToken(h) \/ SendNear(h)
  <2>1. Moves(h, "record") \/ Ends(h)
    BY <1>10 DEF PayEth, PayToken, SendNear
  <2>2. QED
    BY <1>6, <1>7, <1>10, <2>1 DEF Steps, At
<1>11. CASE SignNear(h)
  BY <1>11, SignNearEffect DEF At
<1>12. QED
  BY <1>4, <1>5, <1>6, <1>8, <1>9, <1>10, <1>11 DEF Serve, CacheMiss, Invalidate, StepFails,
     AddCreator, SaveActivation, PushMember, JoinOnChain, SetOrder, BeginOnChain,
     SaveStart, CheckContribution, RecordContribution

\* The requests of a user that are about to record a payment, when one handler moves.
LEMMA PayingCount ==
  ASSUME NEW u
  PROVE  IsFiniteSet(Paying(u)) /\ Cardinality(Paying(u)) \in Nat
<1>1. Paying(u) \subseteq Handlers
  BY DEF Paying
<1>2. IsFiniteSet(Paying(u))
  BY <1>1, BoundAssumption, FS_Subset
<1>3. QED
  BY <1>2, FS_CardinalityType

LEMMA PayingMoves ==
  ASSUME NEW h \in Handlers, NEW u, \A g \in Handlers \ {h} : handler'[g] = handler[g]
  PROVE  LET n == Cardinality(Paying(u)) IN
         /\ (h \in Paying(u) <=> h \in Paying(u)') => Cardinality(Paying(u))' = n
         /\ h \in Paying(u) /\ h \notin Paying(u)' => Cardinality(Paying(u))' = n - 1
         /\ h \notin Paying(u) /\ h \in Paying(u)' => Cardinality(Paying(u))' = n + 1
<1> DEFINE S == Paying(u)
           T == Paying(u)'
<1>1. IsFiniteSet(S) /\ Cardinality(S) \in Nat
  BY PayingCount
<1>2. \A g \in Handlers \ {h} : g \in S <=> g \in T
  BY DEF Paying, At
<1>3. S \subseteq Handlers /\ T \subseteq Handlers
  BY DEF Paying
<1>4. (h \in S <=> h \in T) => T = S
  BY <1>2, <1>3
<1>5. h \in S /\ h \notin T => T = S \ {h}
  BY <1>2, <1>3
<1>6. h \notin S /\ h \in T => T = S \cup {h}
  BY <1>2, <1>3
<1>7. Cardinality(Paying(u))' = Cardinality(T)
  OBVIOUS
<1> HIDE DEF S, T
<1>8. Cardinality(S \ {h}) = IF h \in S THEN Cardinality(S) - 1 ELSE Cardinality(S)
  BY <1>1, FS_RemoveElement
<1>9. Cardinality(S \cup {h}) = IF h \in S THEN Cardinality(S) ELSE Cardinality(S) + 1
  BY <1>1, FS_AddElement
<1>10. QED
  BY <1>1, <1>4, <1>5, <1>6, <1>7, <1>8, <1>9 DEF S, T

\* The books stay balanced when nothing happens, a transfer is made, one fails on
\* chain, one is recorded, or its request fails before that.
LEMMA Balanced ==
  ASSUME NEW r \in Nat, NEW n \in Nat, NEW p \in Nat, NEW f \in Nat,
         NEW r2 \in Nat, NEW n2 \in Nat, NEW p2 \in Nat, NEW f2 \in Nat, NEW base,
         r + n <= p + (IF base THEN 0 ELSE f), f <= f2,
         \/ r2 = r /\ n2 = n /\ p2 = p
         \/ r2 = r /\ n2 = n + 1 /\ p2 = p + 1
         \/ r2 = r /\ n2 = n + 1 /\ p2 = p /\ f2 = f + 1 /\ ~base
         \/ r2 = r + 1 /\ n2 = n - 1 /\ p2 = p
         \/ r2 = r /\ n2 = n - 1 /\ p2 = p /\ f2 = f + 1
  PROVE  r2 + n2 <= p2 + (IF base THEN 0 ELSE f2)
  OBVIOUS

\* No transfer is lost by that, or when one is recorded by two requests.
LEMMA NothingLost ==
  ASSUME NEW r \in Nat, NEW n \in Nat, NEW p \in Nat, NEW f \in Nat,
         NEW r2 \in Nat, NEW n2 \in Nat, NEW p2 \in Nat, NEW f2 \in Nat,
         p <= r + f + n, f <= f2,
         \/ r2 = r /\ n2 = n /\ p2 = p
         \/ r2 = r /\ n2 = n + 1 /\ p2 \in {p, p + 1}
         \/ r2 = r + 1 /\ n2 = n - 1 /\ p2 = p
         \/ r2 = r /\ n2 = n - 1 /\ p2 = p /\ f2 = f + 1
  PROVE  p2 <= r2 + f2 + n2
  OBVIOUS

\* What a step does to the books of user u.
Books(u) ==
  LET r == Len(records[u])
      n == Cardinality(Paying(u))
      p == paid[u]
  IN \/ Len(records'[u]) = r /\ Cardinality(Paying(u))' = n /\ paid'[u] = p
     \/ Len(records'[u]) = r /\ Cardinality(Paying(u))' = n + 1 /\ paid'[u] = p + 1
     \/ Len(records'[u]) = r /\ Cardinality(Paying(u))' = n + 1 /\ paid'[u] = p
        /\ failures' = failures + 1 /\ ~OnBase
     \/ Len(records'[u]) = r + 1 /\ Cardinality(Paying(u))' = n - 1 /\ paid'[u] = p
     \/ Len(records'[u]) = r /\ Cardinality(Paying(u))' = n - 1 /\ paid'[u] = p
        /\ failures' = failures + 1
     \/ Len(records'[u]) = r /\ Cardinality(Paying(u))' = n + 1 /\ paid'[u] = p
        /\ ~OnBase /\ "contribute" \in races

\* A payment is about to be recorded, by this request and nobody else's.
LEMMA PayBooks ==
  ASSUME TypeOK, NEW h \in Handlers, NEW u \in Users, At(h, "pay") \/ At(h, "send"),
         UNCHANGED records, Moves(h, "record"),
         \/ Pays(handler[h].user)
         \/ UNCHANGED paid /\ failures' = failures + 1 /\ ~OnBase
         \/ UNCHANGED paid /\ ~OnBase /\ "contribute" \in races
  PROVE  Books(u)
<1>1. Goes(h, "record")
  BY MovesGoes DEF Steps
<1>2. h \notin Paying(u) /\ (h \in Paying(u)' <=> handler[h].user = u)
  BY <1>1 DEF Paying, At, Goes, Becomes, With
<1>3. /\ handler[h].user # u => Cardinality(Paying(u))' = Cardinality(Paying(u))
      /\ handler[h].user = u => Cardinality(Paying(u))' = Cardinality(Paying(u)) + 1
  BY <1>1, <1>2, PayingMoves DEF Goes, Becomes
<1>4. Pays(handler[h].user) =>
        paid'[u] = IF handler[h].user = u THEN paid[u] + 1 ELSE paid[u]
  BY DEF Pays, TypeOK
<1>5. QED
  BY <1>3, <1>4 DEF Books

\* The payment is recorded.
LEMMA RecordBooks ==
  ASSUME TypeOK, NEW h \in Handlers, NEW u \in Users, RecordContribution(h)
  PROVE  Books(u)
<1> DEFINE s == handler[h]
<1>1. Goes(h, "invalidate")
  BY MovesGoes DEF RecordContribution, Steps
<1>2. (h \in Paying(u) <=> s.user = u) /\ h \notin Paying(u)'
  BY <1>1 DEF Paying, RecordContribution, At, Goes, Becomes, With
<1>3. /\ s.user # u => Cardinality(Paying(u))' = Cardinality(Paying(u))
      /\ s.user = u => Cardinality(Paying(u))' = Cardinality(Paying(u)) - 1
  BY <1>1, <1>2, PayingMoves DEF Goes, Becomes
<1>4. s.seen \in Circle \cup {NoCircle} /\ s.user \in Users
  BY DEF TypeOK, Request
<1>5. s.seen.round \in Nat
  BY <1>4, SeenType
<1>6. records'[u] = IF s.user = u THEN Append(records[u], s.seen.round) ELSE records[u]
  BY <1>4 DEF RecordContribution, TypeOK
<1>7. records[u] \in Seq(Nat)
  BY DEF TypeOK
<1>8. Len(records'[u]) = IF s.user = u THEN Len(records[u]) + 1 ELSE Len(records[u])
  BY <1>5, <1>6, <1>7
<1>9. UNCHANGED paid
  BY DEF RecordContribution, chainVars
<1>10. QED
  BY <1>3, <1>8, <1>9 DEF Books

\* The other steps of a request: it may fail before it has recorded its payment.
LEMMA OtherBooks ==
  ASSUME TypeOK, NEW h \in Handlers, NEW u \in Users, Serve(h),
         ~RecordContribution(h), UNCHANGED paid,
         ~PayEth(h), PayToken(h) \/ SendNear(h) => Ends(h)
  PROVE  Books(u)
<1>1. UNCHANGED records
  BY DEF Serve, CacheHit, CacheMiss, FindById, FillCache, Invalidate, StepFails, Deploy,
     AddCreator, SaveActivation, FindForJoin, PushMember, JoinOnChain, SetOrder,
     BeginOnChain, SaveStart, CheckContribution, PayToken, SignNear, SendNear
<1>2. \A g \in Handlers \ {h} : handler'[g] = handler[g]
  BY ServeOne
<1>3. h \notin Paying(u)'
  <2>1. CASE PayToken(h) \/ SendNear(h)
    BY <2>1, EndsIdle DEF Paying, At, Becomes, Idle
  <2>2. CASE ~PayToken(h) /\ ~SendNear(h)
    BY <2>2, MoneySteps DEF Paying, At
  <2>3. QED
    BY <2>1, <2>2
<1>4. h \in Paying(u) => StepFails(h)
  BY DEF Paying, At, Serve, CacheHit, CacheMiss, FindById, FillCache, Invalidate, Deploy,
     AddCreator, SaveActivation, FindForJoin, PushMember, JoinOnChain, SetOrder,
     BeginOnChain, SaveStart, CheckContribution, PayToken, SignNear, SendNear
<1>5. h \in Paying(u) => /\ failures' = failures + 1
                         /\ Cardinality(Paying(u))' = Cardinality(Paying(u)) - 1
  BY <1>2, <1>3, <1>4, PayingMoves DEF StepFails
<1>6. h \notin Paying(u) => Cardinality(Paying(u))' = Cardinality(Paying(u))
  BY <1>2, <1>3, PayingMoves
<1>7. QED
  BY <1>1, <1>5, <1>6 DEF Books

\* Every step changes the books of a user in one of these ways.
LEMMA BooksStep ==
  ASSUME TypeOK, HandlersInv, RoundsInv, Next, NEW u \in Users
  PROVE  Books(u)
<1>1. ASSUME NEW h \in Handlers, Serve(h)
      PROVE  Books(u)
  <2>1. CASE PayEth(h)
    BY <2>1, PayBooks DEF PayEth
  <2>2. CASE SendNear(h) /\ Moves(h, "record")
    <3>1. At(h, "send") /\ UNCHANGED records /\ ~OnBase
      BY <2>2 DEF SendNear, HandlersInv, RequestInv, Served, At
    <3>2. \/ Pays(handler[h].user)
          \/ UNCHANGED paid /\ failures' = failures + 1 /\ ~OnBase
          \/ UNCHANGED paid /\ ~OnBase /\ "contribute" \in races
      BY <2>2, <3>1 DEF SendNear, RoundsInv
    <3>3. QED
      BY <2>2, <3>1, <3>2, PayBooks
  <2>3. CASE PayToken(h) /\ Moves(h, "record") /\ Pays(handler[h].user)
    BY <2>3, PayBooks DEF PayToken
  <2>4. CASE RecordContribution(h)
    BY <2>4, RecordBooks
  <2>5. CASE /\ ~PayEth(h) /\ ~RecordContribution(h)
             /\ ~(SendNear(h) /\ Moves(h, "record"))
             /\ ~(PayToken(h) /\ Moves(h, "record") /\ Pays(handler[h].user))
    <3>1. PayToken(h) \/ SendNear(h) => Ends(h) /\ UNCHANGED paid
      BY <2>5 DEF PayToken, SendNear
    <3>2. UNCHANGED paid
      BY <1>1, <2>5, <3>1 DEF Serve, CacheHit, CacheMiss, FindById, FillCache, Invalidate,
         StepFails, Deploy, AddCreator, SaveActivation, FindForJoin, PushMember,
         JoinOnChain, SetOrder, BeginOnChain, SaveStart, CheckContribution, SignNear,
         chainVars
    <3>3. QED
      BY <1>1, <2>5, <3>1, <3>2, OtherBooks
  <2>6. QED
    BY <2>1, <2>2, <2>3, <2>4, <2>5
<1>2. ASSUME NEW h \in Handlers, NEW op \in Ops, NEW v \in Users, Receive(h, op, v)
      PROVE  Books(u)
  <2> DEFINE s == [op |-> op, user |-> v,
                   step |-> IF op = "join" THEN "join" ELSE "lookup",
                   seen |-> NoCircle, address |-> 0, nonce |-> 0]
  <2>1. Becomes(h, s)
    BY <1>2, ReceiveBecomes
  <2>2. h \notin Paying(u) /\ h \notin Paying(u)'
    BY <1>2, <2>1 DEF Receive, Paying, At, Becomes
  <2>3. Cardinality(Paying(u))' = Cardinality(Paying(u))
    BY <2>1, <2>2, PayingMoves DEF Becomes
  <2>4. UNCHANGED <<paid, records>>
    BY <1>2 DEF Receive, chainVars
  <2>5. QED
    BY <2>3, <2>4 DEF Books
<1>3. CASE CacheExpires \/ ScheduleRounds \/ AdvanceRound
  <2>1. UNCHANGED <<handler, paid, records>>
    BY <1>3 DEF CacheExpires, ScheduleRounds, AdvanceRound, chainVars
  <2>2. Paying(u)' = Paying(u)
    BY <2>1 DEF Paying, At
  <2>3. QED
    BY <2>1, <2>2 DEF Books
<1>4. QED
  BY <1>1, <1>2, <1>3 DEF Next

\* Every step keeps MoneyAccounted.
LEMMA MoneyStep ==
  ASSUME TypeOK, TypeOK', Grows, HandlersInv, RoundsInv, MoneyAccounted, Next
  PROVE  MoneyAccounted'
<1> DEFINE Serial == OnBase \/ "contribute" \notin races'
<1> SUFFICES ASSUME NEW u \in Users
             PROVE  /\ Serial => Len(records'[u]) + Cardinality(Paying(u))'
                                   <= paid'[u] + (IF OnBase THEN 0 ELSE failures')
                    /\ paid'[u] <= Len(records'[u]) + failures' + Cardinality(Paying(u))'
  <2>1. OnBase' = OnBase
    BY DEF OnBase, Grows
  <2>2. QED
    BY <2>1 DEF MoneyAccounted
<1> DEFINE r == Len(records[u])
           r2 == Len(records'[u])
           n == Cardinality(Paying(u))
           n2 == Cardinality(Paying(u))'
           p == paid[u]
           p2 == paid'[u]
           f2 == failures'
<1>1. /\ r \in Nat /\ r2 \in Nat /\ p \in Nat /\ p2 \in Nat
      /\ failures \in Nat /\ f2 \in Nat /\ failures <= f2
  BY BoundAssumption DEF TypeOK, Grows
<1>2. n \in Nat
  BY PayingCount
<1>3. n2 \in Nat
  <2> DEFINE T == Paying(u)'
  <2>1. T \subseteq Handlers
    BY DEF Paying
  <2> HIDE DEF T
  <2>2. IsFiniteSet(T)
    BY <2>1, BoundAssumption, FS_Subset
  <2>3. Cardinality(T) \in Nat
    BY <2>2, FS_CardinalityType
  <2>4. QED
    BY <2>3 DEF T
<1>4. /\ Serial => "contribute" \notin races \/ OnBase
      /\ Serial => r + n <= p + (IF OnBase THEN 0 ELSE failures)
      /\ p <= r + failures + n
  BY DEF MoneyAccounted, Grows
<1>5. \/ r2 = r /\ n2 = n /\ p2 = p
      \/ r2 = r /\ n2 = n + 1 /\ p2 = p + 1
      \/ r2 = r /\ n2 = n + 1 /\ p2 = p /\ f2 = failures + 1 /\ ~OnBase
      \/ r2 = r + 1 /\ n2 = n - 1 /\ p2 = p
      \/ r2 = r /\ n2 = n - 1 /\ p2 = p /\ f2 = failures + 1
      \/ r2 = r /\ n2 = n + 1 /\ p2 = p /\ ~OnBase /\ "contribute" \in races
  BY BooksStep DEF Books
<1> HIDE DEF r, r2, n, n2, p, p2, f2, Serial
<1>6. ASSUME Serial
      PROVE  r2 + n2 <= p2 + (IF OnBase THEN 0 ELSE f2)
  <2>1. \/ r2 = r /\ n2 = n /\ p2 = p
        \/ r2 = r /\ n2 = n + 1 /\ p2 = p + 1
        \/ r2 = r /\ n2 = n + 1 /\ p2 = p /\ f2 = failures + 1 /\ ~OnBase
        \/ r2 = r + 1 /\ n2 = n - 1 /\ p2 = p
        \/ r2 = r /\ n2 = n - 1 /\ p2 = p /\ f2 = failures + 1
    BY <1>4, <1>5, <1>6
  <2>2. r + n <= p + (IF OnBase THEN 0 ELSE failures)
    BY <1>4, <1>6
  <2>3. QED
    BY <1>1, <1>2, <1>3, <2>1, <2>2, Balanced
<1>7. p2 <= r2 + f2 + n2
  <2>1. \/ r2 = r /\ n2 = n /\ p2 = p
        \/ r2 = r /\ n2 = n + 1 /\ p2 \in {p, p + 1}
        \/ r2 = r + 1 /\ n2 = n - 1 /\ p2 = p
        \/ r2 = r /\ n2 = n - 1 /\ p2 = p /\ f2 = failures + 1
    BY <1>5
  <2>2. QED
    BY <1>1, <1>2, <1>3, <1>4, <2>1, NothingLost
<1>8. QED
  BY <1>6, <1>7 DEF r, r2, n, n2, p, p2, f2

-----------------------------------------------------------------------------
(* Rounds, tokens and deposits                                             *)

\* Two contributions of a user overlap, or only one is admitted.
OneContributes ==
  \A g, h \in Handlers :
    Contributing(g) /\ Contributing(h) /\ handler[g].user = handler[h].user => g = h

LEMMA ContinueContributes ==
  ASSUME TypeOK, NEW h \in Handlers, NEW c \in Circle \cup {NoCircle}, NEW overtaken,
         Continue(h, c, overtaken), "contribute" \notin races', Contributing(h)',
         NEW g \in Handlers \ {h}, Contributing(g), handler[g].user = handler'[h].user
  PROVE  FALSE
<1> DEFINE s == handler[h]
<1>1. PICK step : step = After(s.op, s.user, c)
  OBVIOUS
<1>2. IF step = "idle" THEN Becomes(h, Idle) ELSE Becomes(h, With(s, step, c, s.address))
  BY <1>1, ContinueBecomes
<1>3. step # "idle"
  BY <1>2 DEF Becomes, Idle, Contributing
<1>4. handler'[h].op = s.op /\ handler'[h].user = s.user
  BY <1>2, <1>3 DEF Becomes, With
<1>5. ~Admitted(g)
  BY <1>1, <1>3, <1>4, AdmittedAlone DEF Contributing
<1>6. QED
  BY <1>5 DEF Contributing

LEMMA OneContributesStep ==
  ASSUME TypeOK, HandlersInv, OneContributes, Next, "contribute" \notin races'
  PROVE  OneContributes'
<1>1. ASSUME NEW h \in Handlers, \A g \in Handlers \ {h} : handler'[g] = handler[g],
             Contributing(h)' => \A g \in Handlers \ {h} :
               ~(Contributing(g) /\ handler[g].user = handler'[h].user)
      PROVE  OneContributes'
  <2>1. \A g \in Handlers \ {h} : Contributing(g)' <=> Contributing(g)
    BY <1>1 DEF Contributing, Admitted
  <2>2. QED
    BY <1>1, <2>1 DEF OneContributes
<1>2. ASSUME NEW h \in Handlers, Serve(h)
      PROVE  OneContributes'
  <2>1. \A g \in Handlers \ {h} : handler'[g] = handler[g]
    BY <1>2, ServeOne
  <2>2. ASSUME Contributing(h)', NEW g \in Handlers \ {h},
               Contributing(g), handler[g].user = handler'[h].user
        PROVE  FALSE
    <3>1. CASE Contributing(h)
      <4>1. handler'[h].user = handler[h].user
        BY <1>2, <2>2, SameOp DEF Contributing, Idle
      <4>2. QED
        BY <2>2, <3>1, <4>1 DEF OneContributes
    <3>2. CASE CacheHit(h)
      BY <2>2, <3>2, ContinueContributes DEF CacheHit, TypeOK
    <3>3. CASE FillCache(h)
      <4> DEFINE overtaken == IF handler[h].seen # circle THEN {"fill"} ELSE {}
                 seen == handler[h].seen
      <4>1. Continue(h, seen, overtaken) /\ seen \in Circle \cup {NoCircle}
        BY <3>3 DEF FillCache, TypeOK, Request
      <4> HIDE DEF overtaken, seen
      <4>2. QED
        BY <2>2, <4>1, ContinueContributes
    <3>4. CASE ~Contributing(h) /\ ~CacheHit(h) /\ ~FillCache(h)
      BY <1>2, <2>2, <3>4, NotAdmitted DEF Contributing
    <3>5. QED
      BY <3>1, <3>2, <3>3, <3>4
  <2>3. QED
    BY <1>1, <2>1, <2>2
<1>3. ASSUME NEW h \in Handlers, NEW op \in Ops, NEW u \in Users, Receive(h, op, u)
      PROVE  OneContributes'
  <2> DEFINE s == [op |-> op, user |-> u,
                   step |-> IF op = "join" THEN "join" ELSE "lookup",
                   seen |-> NoCircle, address |-> 0, nonce |-> 0]
  <2>1. Becomes(h, s)
    BY <1>3, ReceiveBecomes
  <2>2. ~Contributing(h)'
    BY <2>1 DEF Becomes, Contributing, Admitted
  <2>3. QED
    BY <1>1, <2>1, <2>2 DEF Becomes
<1>4. CASE CacheExpires \/ ScheduleRounds \/ AdvanceRound
  <2>1. UNCHANGED handler
    BY <1>4 DEF CacheExpires, ScheduleRounds, AdvanceRound
  <2>2. QED
    BY <2>1 DEF OneContributes, Contributing, Admitted
<1>5. QED
  BY <1>2, <1>3, <1>4 DEF Next

\* A contribution that has passed the check of its round.
PastCheck(h) == handler[h].step \in {"pay", "send", "record"}

\* Only a contribution checks, pays and records.
LEMMA Contributes ==
  ASSUME TypeOK, HandlersInv, NEW h \in Handlers,
         At(h, "check") \/ PastCheck(h)
  PROVE  Contributing(h)
  BY DEF At, PastCheck, HandlersInv, RequestInv, Served, StepsOf, Reading, Contributing, Admitted,
     TypeOK, Request, Ops

\* Only RecordContribution records.
LEMMA RecordsKept ==
  ASSUME Next
  PROVE  UNCHANGED records \/ \E h \in Handlers : RecordContribution(h)
  BY DEF Next, Serve, Receive, CacheHit, CacheMiss, FindById, FillCache, CacheExpires,
     Invalidate, StepFails, Deploy, AddCreator, SaveActivation, FindForJoin, PushMember,
     JoinOnChain, SetOrder, BeginOnChain, SaveStart, ScheduleRounds, AdvanceRound,
     CheckContribution, PayEth, PayToken, SignNear, SendNear

\* A request that is about to pay or to record has checked its round, and one that is
\* about to send has read its nonce.
LEMMA Checked ==
  ASSUME TypeOK, Next, NEW h \in Handlers, PastCheck(h)'
  PROVE  /\ handler'[h].user = handler[h].user /\ handler'[h].seen = handler[h].seen
         /\ \/ PastCheck(h)
            \/ ~HasContributed(handler[h].user, handler[h].seen.round) /\ UNCHANGED records
         /\ At(h, "send")' => \/ handler'[h] = handler[h]
                              \/ /\ handler'[h].nonce = nonces[handler[h].user]
                                 /\ UNCHANGED nonces
<1>1. CASE handler'[h] = handler[h]
  BY <1>1 DEF PastCheck
<1>2. CASE Serve(h)
  <2>1. CheckContribution(h) \/ PayEth(h) \/ PayToken(h) \/ SignNear(h) \/ SendNear(h)
    BY <1>2, MoneySteps DEF PastCheck, At
  <2>2. ~Ends(h)
    BY EndsIdle DEF Becomes, Idle, PastCheck
  <2>3. CASE SignNear(h)
    <3>1. PastCheck(h) /\ UNCHANGED nonces
      BY <2>3 DEF SignNear, At, PastCheck, chainVars
    <3>2. QED
      BY <2>3, <3>1, SignNearEffect
  <2>4. CASE ~SignNear(h)
    <3>1. Moves(h, "pay") \/ Moves(h, "record")
      BY <2>1, <2>2, <2>4 DEF CheckContribution, PayEth, PayToken, SendNear
    <3>2. Goes(h, "pay") \/ Goes(h, "record")
      BY <3>1, MovesGoes DEF Steps
    <3>3. QED
      BY <2>1, <2>2, <2>4, <3>2 DEF Goes, Becomes, With, CheckContribution, PayEth,
         PayToken, SendNear, PastCheck, At
  <2>5. QED
    BY <2>3, <2>4
<1>3. ASSUME NEW op \in Ops, NEW u \in Users, Receive(h, op, u)
      PROVE  FALSE
  <2> DEFINE s == [op |-> op, user |-> u,
                   step |-> IF op = "join" THEN "join" ELSE "lookup",
                   seen |-> NoCircle, address |-> 0, nonce |-> 0]
  <2>1. Becomes(h, s)
    BY <1>3, ReceiveBecomes
  <2>2. QED
    BY <2>1 DEF Becomes, PastCheck
<1>4. QED
  <2>1. ASSUME NEW g \in Handlers \ {h}, Serve(g)
        PROVE  handler'[h] = handler[h]
    BY <2>1, ServeOne
  <2>2. ASSUME NEW g \in Handlers \ {h}, NEW op \in Ops, NEW u \in Users, Receive(g, op, u)
        PROVE  handler'[h] = handler[h]
    BY <2>2, ReceiveBecomes DEF Becomes
  <2>3. CacheExpires \/ ScheduleRounds \/ AdvanceRound => handler'[h] = handler[h]
    BY DEF CacheExpires, ScheduleRounds, AdvanceRound
  <2>4. QED
    BY <1>1, <1>2, <1>3, <2>1, <2>2, <2>3 DEF Next

\* A round that is recorded for the first time.
LEMMA NewRound ==
  ASSUME NEW s \in Seq(Nat), NEW r \in Nat, IsInjective(s), r \notin Range(s)
  PROVE  /\ IsInjective(Append(s, r))
         /\ \A q : q \in Range(Append(s, r)) <=> q \in Range(s) \/ q = r
<1> DEFINE t == Append(s, r)
           n == Len(s)
<1>1. /\ n \in Nat /\ DOMAIN s = 1..n /\ DOMAIN t = 1..(n + 1)
      /\ t[n + 1] = r /\ \A i \in 1..n : t[i] = s[i]
  OBVIOUS
<1> HIDE DEF t, n
<1>2. \A i \in 1..(n + 1) : i \in 1..n \/ i = n + 1
  BY <1>1
<1>3. n + 1 \in 1..(n + 1) /\ \A i \in 1..n : i \in 1..(n + 1)
  BY <1>1
<1>4. \A i \in 1..n : s[i] # r
  BY <1>1 DEF Range
<1>5. IsInjective(t)
  BY <1>1, <1>2, <1>4 DEF IsInjective
<1>6. \A q : q \in Range(t) <=> q \in Range(s) \/ q = r
  BY <1>1, <1>2, <1>3 DEF Range
<1>7. QED
  BY <1>5, <1>6 DEF t

\* Only a transfer that is sent with the next nonce uses it.
LEMMA NoncesKept ==
  ASSUME TypeOK, Next, ~UNCHANGED nonces
  PROVE  \E g \in Handlers :
           /\ At(g, "send")
           /\ \A u \in Users \ {handler[g].user} : nonces'[u] = nonces[u]
           /\ handler'[g].step \in {"idle", "record"}
<1>1. PICK g \in Handlers : SendNear(g)
  BY DEF Next, Serve, Receive, CacheHit, CacheMiss, FindById, FillCache, CacheExpires,
     Invalidate, StepFails, Deploy, AddCreator, SaveActivation, FindForJoin, PushMember,
     JoinOnChain, SetOrder, BeginOnChain, SaveStart, ScheduleRounds, AdvanceRound,
     CheckContribution, PayEth, PayToken, SignNear, RecordContribution, chainVars
<1>2. \A u \in Users \ {handler[g].user} : nonces'[u] = nonces[u]
  BY <1>1 DEF SendNear, TypeOK
<1>3. handler'[g].step \in {"idle", "record"}
  <2>1. Ends(g) \/ Moves(g, "record")
    BY <1>1 DEF SendNear
  <2>2. Ends(g) => handler'[g].step = "idle"
    BY EndsIdle DEF Becomes, Idle
  <2>3. Moves(g, "record") => handler'[g].step = "record"
    <3> SUFFICES ASSUME Moves(g, "record")
                 PROVE  handler'[g].step = "record"
      OBVIOUS
    <3>1. Goes(g, "record")
      BY MovesGoes DEF Steps
    <3>2. QED
      BY <3>1 DEF Goes, Becomes, With
  <2>4. QED
    BY <2>1, <2>2, <2>3
<1>4. QED
  BY <1>1, <1>2, <1>3 DEF SendNear

\* The nonce that a request has read stays free until it sends.
NoncesFree ==
  \A h \in Handlers : At(h, "send") => handler[h].nonce = nonces[handler[h].user]

LEMMA NoncesStep ==
  ASSUME TypeOK, HandlersInv, OneContributes, NoncesFree, Next
  PROVE  NoncesFree'
<1> SUFFICES ASSUME NEW h \in Handlers, At(h, "send")'
             PROVE  handler'[h].nonce = nonces'[handler'[h].user]
  BY DEF NoncesFree
<1>1. /\ handler'[h].user = handler[h].user /\ handler[h].user \in Users
      /\ \/ handler'[h] = handler[h]
         \/ handler'[h].nonce = nonces[handler[h].user] /\ UNCHANGED nonces
  BY Checked DEF PastCheck, At, TypeOK, Request
<1>2. CASE UNCHANGED nonces
  BY <1>1, <1>2 DEF NoncesFree, At
<1>3. CASE ~UNCHANGED nonces
  <2>1. PICK g \in Handlers :
          /\ At(g, "send")
          /\ \A u \in Users \ {handler[g].user} : nonces'[u] = nonces[u]
          /\ handler'[g].step \in {"idle", "record"}
    BY <1>3, NoncesKept
  <2>2. h # g /\ At(h, "send")
    BY <1>1, <1>3, <2>1 DEF At
  <2>3. handler[h].user # handler[g].user
    BY <2>1, <2>2, Contributes DEF OneContributes, PastCheck, At
  <2>4. QED
    BY <1>1, <1>3, <2>1, <2>2, <2>3 DEF NoncesFree
<1>4. QED
  BY <1>2, <1>3

\* Every step keeps the rounds apart.
LEMMA RoundsStep ==
  ASSUME TypeOK, Grows, HandlersInv, RoundsInv, Next
  PROVE  RoundsInv'
<1> SUFFICES ASSUME "contribute" \notin races'
             PROVE  /\ OneContributes' /\ NoncesFree'
                    /\ \A h \in Handlers : PastCheck(h)' =>
                         handler'[h].seen.round \notin Range(records'[handler'[h].user])
                    /\ \A u \in Users : IsInjective(records'[u])
  BY DEF RoundsInv, OneContributes, NoncesFree, PastCheck, HasContributed
<1>1. /\ "contribute" \notin races /\ OneContributes /\ NoncesFree
      /\ \A h \in Handlers : PastCheck(h) =>
           handler[h].seen.round \notin Range(records[handler[h].user])
      /\ \A u \in Users : IsInjective(records[u])
  BY DEF RoundsInv, Grows, OneContributes, NoncesFree, PastCheck, HasContributed
<1>2. OneContributes' /\ NoncesFree'
  BY <1>1, OneContributesStep, NoncesStep
<1>3. CASE UNCHANGED records
  <2>1. ASSUME NEW h \in Handlers, PastCheck(h)'
        PROVE  handler'[h].seen.round \notin Range(records'[handler'[h].user])
    BY <1>1, <1>3, <2>1, Checked DEF HasContributed
  <2>2. QED
    BY <1>1, <1>2, <1>3, <2>1
<1>4. ASSUME NEW g \in Handlers, RecordContribution(g)
      PROVE  /\ \A h \in Handlers : PastCheck(h)' =>
                  handler'[h].seen.round \notin Range(records'[handler'[h].user])
             /\ \A u \in Users : IsInjective(records'[u])
  <2> DEFINE v == handler[g].user
             r == handler[g].seen.round
  <2>1. v \in Users /\ handler[g].seen \in Circle \cup {NoCircle}
    BY DEF TypeOK, Request
  <2>2. r \in Nat
    BY <2>1, SeenType
  <2>3. At(g, "record") /\ r \notin Range(records[v])
    BY <1>1, <1>4 DEF RecordContribution, PastCheck, At
  <2>4. \A u \in Users : records'[u] = IF u = v THEN Append(records[v], r) ELSE records[u]
    BY <1>4, <2>1 DEF RecordContribution, TypeOK
  <2>5. records[v] \in Seq(Nat) /\ IsInjective(records[v])
    BY <1>1, <2>1 DEF TypeOK
  <2> HIDE DEF r
  <2>6. IsInjective(Append(records[v], r))
    BY <2>2, <2>3, <2>5, NewRound DEF r
  <2>7. \A u \in Users : IsInjective(records'[u])
    BY <1>1, <2>4, <2>6
  <2>8. ASSUME NEW h \in Handlers, PastCheck(h)'
        PROVE  handler'[h].seen.round \notin Range(records'[handler'[h].user])
    <3>1. h # g
      <4>1. Goes(g, "invalidate")
        BY <1>4, MovesGoes DEF RecordContribution, Steps
      <4>2. QED
        BY <2>8, <4>1 DEF Goes, Becomes, With, PastCheck
    <3>2. handler'[h] = handler[h]
      BY <1>4, <3>1, ServeOne DEF Serve
    <3>3. PastCheck(h)
      BY <2>8, <3>2 DEF PastCheck
    <3>4. handler[h].user # v
      BY <1>1, <2>3, <3>1, <3>3, Contributes DEF OneContributes, PastCheck, At
    <3>5. handler[h].user \in Users
      BY DEF TypeOK, Request
    <3>6. QED
      BY <1>1, <2>4, <3>2, <3>3, <3>4, <3>5
  <2>9. QED
    BY <2>7, <2>8
<1>5. QED
  BY <1>2, <1>3, <1>4, RecordsKept

\* The contracts that have taken a contribution of the user.
Takers(u) == {a \in Addresses : u \in contract[a].contributed}

LEMMA TakersFinite ==
  ASSUME NEW u
  PROVE  IsFiniteSet(Takers(u)) /\ Cardinality(Takers(u)) \in Nat
<1>1. IsFiniteSet(Addresses)
  BY BoundAssumption, FS_Interval DEF Addresses
<1>2. Takers(u) \subseteq Addresses
  BY DEF Takers
<1>3. IsFiniteSet(Takers(u))
  BY <1>1, <1>2, FS_Subset
<1>4. QED
  BY <1>3, FS_CardinalityType

\* Only a payment in tokens adds a contribution.
LEMMA ContributedKept ==
  ASSUME TypeOK, Next, NEW a \in Addresses
  PROVE  \/ contract'[a].contributed = contract[a].contributed
         \/ \E h \in Handlers : PayToken(h)
<1>1. CASE UNCHANGED contract
  BY <1>1
<1>2. ASSUME NEW h \in Handlers, Calls(h)
      PROVE  contract'[a].contributed = contract[a].contributed \/ PayToken(h)
  <2>1. /\ handler[h].user \in Users /\ handler[h].address \in {0} \cup Addresses
        /\ handler[h].seen.address \in {0} \cup Addresses
    BY SeenType DEF TypeOK, Request
  <2>2. CASE AddCreator(h)
    BY <2>1, <2>2, AddOnChainEffect, UsersAssumption DEF AddCreator
  <2>3. CASE JoinOnChain(h)
    <3>1. CASE UNCHANGED contract
      BY <3>1
    <3>2. CASE AddOnChain(handler[h].seen.address, handler[h].user)
      BY <2>1, <3>2, AddOnChainEffect
    <3>3. QED
      BY <2>3, <3>1, <3>2 DEF JoinOnChain
  <2>4. CASE SetOrder(h)
    BY <2>4, SetOrderEffect
  <2>5. CASE BeginOnChain(h)
    BY <2>5, BeginEffect
  <2>6. CASE PayEth(h)
    BY <2>6, PayEthEffect
  <2>7. QED
    BY <1>2, <2>2, <2>3, <2>4, <2>5, <2>6 DEF Calls
<1>3. QED
  BY <1>1, <1>2, ContractsKept DEF Calls

LEMMA PaidKept ==
  ASSUME HandlersInv, Next, currency = "CNGN"
  PROVE  UNCHANGED paid \/ \E h \in Handlers : PayToken(h)
<1>1. \A h \in Handlers : ~SendNear(h)
  BY DEF HandlersInv, RequestInv, Served, SendNear, At, OnBase
<1>2. QED
  BY <1>1 DEF Next, Serve, Receive, CacheHit, CacheMiss, FindById, FillCache, CacheExpires,
     Invalidate, StepFails, Deploy, AddCreator, SaveActivation, FindForJoin, PushMember,
     JoinOnChain, SetOrder, BeginOnChain, SaveStart, ScheduleRounds, AdvanceRound,
     CheckContribution, PayEth, SignNear, RecordContribution, chainVars

\* A transfer of tokens is a contribution that one contract has taken.
LEMMA TokensStep ==
  ASSUME TypeOK, Grows, HandlersInv, TokensInv, Next
  PROVE  TokensInv'
<1> SUFFICES ASSUME currency' = "CNGN", NEW u \in Users
             PROVE  paid'[u] = Cardinality(Takers(u))'
  BY DEF TokensInv, Takers
<1>1. currency = "CNGN" /\ paid[u] = Cardinality(Takers(u))
  BY DEF TokensInv, Takers, Grows
<1>2. CASE \A h \in Handlers : ~PayToken(h)
  <2>1. UNCHANGED paid
    BY <1>1, <1>2, PaidKept
  <2>2. \A a \in Addresses : contract'[a].contributed = contract[a].contributed
    BY <1>2, ContributedKept
  <2>3. Takers(u)' = Takers(u)
    BY <2>2 DEF Takers
  <2>4. QED
    BY <1>1, <2>1, <2>3
<1>3. ASSUME NEW h \in Handlers, PayToken(h)
      PROVE  paid'[u] = Cardinality(Takers(u))'
  <2> DEFINE a == handler[h].seen.address
             v == handler[h].user
             S == Takers(u)
             T == Takers(u)'
  <2>1. \A b \in Addresses :
          contract'[b].contributed = IF b = a /\ TakesContribution(a, v)
                                     THEN contract[b].contributed \cup {v}
                                     ELSE contract[b].contributed
    BY <1>3, PayTokenEffect
  <2>2. a \in Addresses
    BY <1>3, CallAddresses DEF Deployed
  <2>3. CASE TakesContribution(a, v) /\ u = v
    <3>1. T = S \cup {a}
      BY <2>1, <2>2, <2>3 DEF Takers
    <3>2. a \notin S
      BY <2>3 DEF Takers, TakesContribution
    <3>3. paid'[u] = paid[u] + 1
      BY <1>3, <2>3 DEF PayToken, Pays, TypeOK
    <3>4. IsFiniteSet(S)
      BY TakersFinite
    <3>5. Cardinality(Takers(u))' = Cardinality(T) /\ Cardinality(Takers(u)) = Cardinality(S)
      OBVIOUS
    <3> HIDE DEF S, T
    <3>6. Cardinality(S \cup {a}) = Cardinality(S) + 1
      BY <3>2, <3>4, FS_AddElement
    <3>7. QED
      BY <1>1, <3>1, <3>3, <3>5, <3>6
  <2>4. CASE ~(TakesContribution(a, v) /\ u = v)
    <3>1. T = S
      BY <2>1, <2>4 DEF Takers
    <3>2. paid'[u] = paid[u]
      BY <1>3, <2>4 DEF PayToken, Pays, TypeOK
    <3>3. QED
      BY <1>1, <3>1, <3>2
  <2>5. QED
    BY <2>3, <2>4
<1>4. QED
  BY <1>2, <1>3

\* Only a payment in ETH is a deposit.
LEMMA DepositsKept ==
  ASSUME TypeOK, Next, NEW a \in Addresses
  PROVE  \/ contract'[a].deposits = contract[a].deposits
         \/ \E h \in Handlers : /\ PayEth(h)
                                /\ contract'[a].deposits = contract[a].deposits + 1
<1>1. CASE UNCHANGED contract
  BY <1>1
<1>2. ASSUME NEW h \in Handlers, Calls(h)
      PROVE  \/ contract'[a].deposits = contract[a].deposits
             \/ PayEth(h) /\ contract'[a].deposits = contract[a].deposits + 1
  <2>1. /\ handler[h].user \in Users /\ handler[h].address \in {0} \cup Addresses
        /\ handler[h].seen.address \in {0} \cup Addresses
    BY SeenType DEF TypeOK, Request
  <2>2. CASE AddCreator(h)
    BY <2>1, <2>2, AddOnChainEffect, UsersAssumption DEF AddCreator
  <2>3. CASE JoinOnChain(h)
    <3>1. CASE UNCHANGED contract
      BY <3>1
    <3>2. CASE AddOnChain(handler[h].seen.address, handler[h].user)
      BY <2>1, <3>2, AddOnChainEffect
    <3>3. QED
      BY <2>3, <3>1, <3>2 DEF JoinOnChain
  <2>4. CASE SetOrder(h)
    BY <2>4, SetOrderEffect
  <2>5. CASE BeginOnChain(h)
    BY <2>5, BeginEffect
  <2>6. CASE PayEth(h)
    BY <2>6, PayEthEffect
  <2>7. CASE PayToken(h)
    BY <2>7, PayTokenEffect
  <2>8. QED
    BY <1>2, <2>2, <2>3, <2>4, <2>5, <2>6, <2>7 DEF Calls
<1>3. QED
  BY <1>1, <1>2, ContractsKept DEF Calls

\* A request that has paid has nothing more to pay.
LEMMA UnpaidSteps ==
  ASSUME TypeOK, NEW h \in Handlers, Serve(h), h \notin Unpaid
  PROVE  h \notin Unpaid'
<1>1. handler[h].step \in {"idle", "record", "invalidate"}
  BY DEF Unpaid
<1>2. Ends(h) \/ Moves(h, "invalidate")
  BY <1>1 DEF At, Serve, CacheHit, CacheMiss, FindById, FillCache, Invalidate, StepFails,
     Deploy, AddCreator, SaveActivation, FindForJoin, PushMember, JoinOnChain, SetOrder,
     BeginOnChain, SaveStart, CheckContribution, PayEth, PayToken, SignNear, SendNear,
     RecordContribution
<1>3. CASE Moves(h, "invalidate")
  <2>1. Goes(h, "invalidate")
    BY <1>3, MovesGoes DEF Steps
  <2>2. QED
    BY <2>1 DEF Goes, Becomes, With, Unpaid
<1>4. CASE Ends(h)
  BY <1>4, EndsIdle DEF Becomes, Idle, Unpaid
<1>5. QED
  BY <1>2, <1>3, <1>4

\* Handlers can be counted.
LEMMA UnpaidFinite ==
  ASSUME NEW S \in SUBSET Handlers
  PROVE  IsFiniteSet(S) /\ Cardinality(S) \in Nat
<1>1. IsFiniteSet(S)
  BY BoundAssumption, FS_Subset
<1>2. QED
  BY <1>1, FS_CardinalityType

\* Every step keeps DepositsInv.
LEMMA DepositsStep ==
  ASSUME TypeOK, TypeOK', DepositsInv, Next
  PROVE  DepositsInv'
<1> SUFFICES ASSUME NEW a \in Addresses
             PROVE  contract'[a].deposits + Cardinality(Unpaid)' <= requests'
  BY DEF DepositsInv
<1> DEFINE d == contract[a].deposits
           d2 == contract'[a].deposits
           S == Unpaid
           T == Unpaid'
           q2 == requests'
<1>1. /\ d \in Nat /\ d2 \in Nat /\ requests \in Nat /\ q2 \in Nat
  BY BoundAssumption DEF TypeOK, Contract
<1>2. S \in SUBSET Handlers /\ T \in SUBSET Handlers
  BY DEF Unpaid
<1>3. d + Cardinality(S) <= requests
  BY DEF DepositsInv
<1>4. Cardinality(Unpaid)' = Cardinality(T)
  OBVIOUS
<1>5. CASE \E h \in Handlers : Serve(h) /\ ~PayEth(h)
  <2>1. PICK h \in Handlers : Serve(h) /\ ~PayEth(h)
    BY <1>5
  <2>2. \A g \in Handlers \ {h} : handler'[g] = handler[g]
    BY <2>1, ServeOne
  <2>3. T \subseteq S
    BY <2>1, <2>2, UnpaidSteps DEF Unpaid
  <2>4. UNCHANGED requests
    BY <2>1 DEF Serve, CacheHit, CacheMiss, FindById, FillCache, Invalidate, StepFails,
       Deploy, AddCreator, SaveActivation, FindForJoin, PushMember, JoinOnChain, SetOrder,
       BeginOnChain, SaveStart, CheckContribution, PayToken, SignNear, SendNear,
       RecordContribution, budgets
  <2>5. d2 = d
    <3>1. \A g \in Handlers : ~PayEth(g)
      <4> SUFFICES ASSUME NEW g \in Handlers, PayEth(g)
                   PROVE  FALSE
        OBVIOUS
      <4>1. g # h
        BY <2>1
      <4>2. handler'[g] = handler[g]
        BY <2>2, <4>1
      <4>3. Goes(g, "record")
        BY MovesGoes DEF PayEth, Steps
      <4>4. QED
        BY <4>2, <4>3 DEF PayEth, At, Goes, Becomes, With
    <3>2. QED
      BY <3>1, DepositsKept
  <2> HIDE DEF S, T, d, d2
  <2>6. Cardinality(T) <= Cardinality(S) /\ Cardinality(T) \in Nat /\ Cardinality(S) \in Nat
    BY <1>2, <2>3, UnpaidFinite, FS_Subset
  <2>7. d2 + Cardinality(T) <= requests
    BY <1>1, <1>3, <2>5, <2>6
  <2>8. QED
    BY <1>4, <2>4, <2>7 DEF d2
<1>6. CASE \E h \in Handlers : PayEth(h)
  <2>1. PICK h \in Handlers : PayEth(h)
    BY <1>6
  <2>2. Goes(h, "record") /\ UNCHANGED requests
    BY <2>1, MovesGoes DEF PayEth, Steps, budgets
  <2>3. T = S \ {h} /\ h \in S
    BY <2>1, <2>2 DEF Unpaid, Goes, Becomes, With, PayEth, At
  <2>4. d2 = d \/ d2 = d + 1
    BY DepositsKept
  <2> HIDE DEF S, T, d, d2
  <2>5. Cardinality(S) \in Nat /\ Cardinality(T) = Cardinality(S) - 1
    BY <1>2, <2>3, UnpaidFinite, FS_RemoveElement
  <2>6. d2 + Cardinality(T) <= requests
    BY <1>1, <1>3, <2>4, <2>5
  <2>7. QED
    BY <1>4, <2>2, <2>6 DEF d2
<1>7. ASSUME NEW h \in Handlers, NEW op \in Ops, NEW u \in Users, Receive(h, op, u)
      PROVE  d2 + Cardinality(Unpaid)' <= q2
  <2> DEFINE s == [op |-> op, user |-> u,
                   step |-> IF op = "join" THEN "join" ELSE "lookup",
                   seen |-> NoCircle, address |-> 0, nonce |-> 0]
  <2>1. Becomes(h, s)
    BY <1>7, ReceiveBecomes
  <2>2. T = S \cup {h} /\ h \notin S
    BY <1>7, <2>1 DEF Receive, At, Becomes, Unpaid
  <2>3. d2 = d /\ q2 = requests + 1
    BY <1>7 DEF Receive, chainVars
  <2> HIDE DEF S, T, d, d2, q2
  <2>4. Cardinality(S) \in Nat /\ Cardinality(T) = Cardinality(S) + 1
    BY <1>2, <2>2, UnpaidFinite, FS_AddElement
  <2>5. d2 + Cardinality(T) <= q2
    BY <1>1, <1>3, <2>3, <2>4
  <2>6. QED
    BY <1>4, <2>5
<1>8. CASE CacheExpires \/ ScheduleRounds \/ AdvanceRound
  <2>1. UNCHANGED <<handler, contract, requests>>
    BY <1>8 DEF CacheExpires, ScheduleRounds, AdvanceRound, chainVars, budgets
  <2>2. T = S
    BY <2>1 DEF Unpaid
  <2>3. QED
    BY <1>3, <1>4, <2>1, <2>2
<1>9. QED
  BY <1>5, <1>6, <1>7, <1>8 DEF Next

-----------------------------------------------------------------------------
(* The invariant                                                           *)

\* The invariant holds of a circle that was just created.
LEMMA InitInv ==
  ASSUME Init
  PROVE  IInv
<1>1. Created \in Circle
  <2> DEFINE m == [user |-> Creator, position |-> 1]
  <2>1. m \in Member
    BY UsersAssumption, MembersAssumption DEF Member
  <2> HIDE DEF m
  <2>2. <<m>> \in Seq(Member)
    BY <2>1
  <2>3. MaxMembers \in Nat
    BY MembersAssumption
  <2>4. QED
    BY <2>2, <2>3 DEF Created, Circle, m
<1>2. NoContract \in Contract
  <2>1. <<>> \in Seq(Users)
    OBVIOUS
  <2>2. QED
    BY <2>1 DEF NoContract, Contract
<1>3. TypeOK
  <2>1. contract \in [Addresses -> Contract] /\ handler \in [Handlers -> Request]
    BY <1>2, IdleRequest DEF Init
  <2>2. records \in [Users -> Seq(Nat)]
    BY DEF Init
  <2>3. QED
    BY <1>1, <2>1, <2>2, BoundAssumption DEF Init, TypeOK
<1>4. /\ circle.members = <<[user |-> Creator, position |-> 1]>>
      /\ circle.status = "PENDING" /\ circle.address = 0 /\ circle.round = 0
      /\ cache.members = <<>> /\ cache.status = "none" /\ cache.address = 0
      /\ deployed = 0 /\ failures = 0
  BY DEF Init, Created, NoCircle
<1>5. /\ Len(circle.members) = 1 /\ circle.members[1] = [user |-> Creator, position |-> 1]
      /\ Len(cache.members) = 0
  BY <1>4
<1>6. ViewsInv
  BY <1>4, <1>5 DEF ViewsInv, Earlier
<1>7. \A h \in Handlers : handler[h] = Idle
  BY DEF Init
<1>8. HandlersInv
  BY <1>4, <1>5, <1>7 DEF HandlersInv, RequestInv, Served, Covered, Earlier, Idle, NoCircle,
     StepsOf, Reading
<1>9. JoinsInv
  BY <1>5, MembersAssumption DEF JoinsInv
<1>10. ActivationsInv
  BY <1>4, <1>7 DEF ActivationsInv, Activating, Admitted, Idle, At
<1>11. \A a \in Addresses : contract[a] = NoContract
  BY DEF Init
<1>12. ContractsInv
  <2> DEFINE none == SubSeq(circle.members, 1, 0)
  <2>1. none = <<>> /\ Len(none) = 0
    BY <1>3 DEF TypeOK, Circle
  <2> HIDE DEF none
  <2>2. PayoutOrder(none) = <<>>
    BY <2>1 DEF PayoutOrder
  <2>3. QED
    BY <1>5, <1>11, <2>2 DEF ContractsInv, NoContract, none
<1>13. StartsTogether
  BY <1>4, <1>11 DEF StartsTogether, NoContract
<1>14. MoneyAccounted
  <2> SUFFICES ASSUME NEW u \in Users
               PROVE  /\ Len(records[u]) + Cardinality(Paying(u))
                           <= paid[u] + (IF OnBase THEN 0 ELSE failures)
                      /\ paid[u] <= Len(records[u]) + failures + Cardinality(Paying(u))
    BY DEF MoneyAccounted
  <2>1. Paying(u) = {}
    BY <1>7 DEF Paying, At, Idle
  <2>2. Cardinality(Paying(u)) = 0
    BY <2>1, FS_EmptySet
  <2>3. records[u] = <<>> /\ paid[u] = 0
    BY DEF Init
  <2>4. Len(records[u]) = 0
    BY <2>3
  <2>5. QED
    BY <1>4, <2>2, <2>3, <2>4
<1>15. RoundsInv
  BY <1>7 DEF Init, RoundsInv, Contributing, At, Idle, IsInjective
<1>16. TokensInv
  <2> SUFFICES ASSUME NEW u \in Users
               PROVE  paid[u] = Cardinality(Takers(u))
    BY DEF TokensInv, Takers
  <2>1. Takers(u) = {}
    BY <1>11 DEF Takers, NoContract
  <2>2. QED
    BY <2>1, FS_EmptySet DEF Init
<1>17. DepositsInv
  <2>1. Unpaid = {}
    BY <1>7 DEF Unpaid, Idle
  <2>2. Cardinality(Unpaid) = 0
    BY <2>1, FS_EmptySet
  <2>3. \A a \in Addresses : contract[a].deposits = 0
    BY <1>11 DEF NoContract
  <2>4. QED
    BY <2>2, <2>3 DEF DepositsInv, Init
<1>18. QED
  BY <1>3, <1>6, <1>8, <1>9, <1>10, <1>12, <1>13, <1>14, <1>15, <1>16, <1>17 DEF IInv

\* Every step keeps the invariant.
LEMMA StepInv ==
  ASSUME IInv, Next
  PROVE  IInv'
<1>1. TypeOK /\ ViewsInv /\ HandlersInv /\ JoinsInv /\ ActivationsInv /\ ContractsInv
  BY DEF IInv
<1>2. TypeOK'
  BY <1>1, TypeStep
<1>3. Grows
  BY <1>1, GrowsStep
<1>4. HandlersInv' /\ ViewsInv'
  BY <1>1, <1>2, <1>3, HandlersStep, ViewsStep
<1>5. JoinsInv' /\ ActivationsInv' /\ ContractsInv'
  BY <1>1, <1>2, <1>3, JoinsStep, ActivationsStep, ContractsStep
<1>6. StartsTogether'
  BY <1>1, <1>2, <1>3, StartsStep DEF IInv
<1>7. MoneyAccounted' /\ RoundsInv' /\ TokensInv' /\ DepositsInv'
  BY <1>1, <1>2, <1>3, MoneyStep, RoundsStep, TokensStep, DepositsStep DEF IInv
<1>8. QED
  BY <1>2, <1>4, <1>5, <1>6, <1>7 DEF IInv

\* It depends on the variables only.
LEMMA StutterInv ==
  ASSUME IInv, UNCHANGED vars
  PROVE  IInv'
<1>1. UNCHANGED <<currency, circle, cache, deployed, contract, handler, paid, nonces,
                  records, races, failures, requests>>
  BY DEF vars
<1>2. TypeOK'
  BY <1>1 DEF IInv, TypeOK
<1>3. ViewsInv' /\ JoinsInv'
  BY <1>1 DEF IInv, ViewsInv, JoinsInv, Earlier, OnBase
<1>4. HandlersInv'
  BY <1>1 DEF IInv, HandlersInv, RequestInv, Served, Covered, Earlier, UsersOf, OnBase
<1>5. ActivationsInv'
  BY <1>1 DEF IInv, ActivationsInv, Activating, HasDeployed, Admitted, At
<1>6. ContractsInv'
  BY <1>1 DEF IInv, ContractsInv, UsersOf
<1>7. StartsTogether'
  BY <1>1 DEF IInv, StartsTogether, SameCircle, UsersOf, OnBase, At
<1>8. MoneyAccounted' /\ RoundsInv'
  BY <1>1 DEF IInv, MoneyAccounted, Paying, RoundsInv, Contributing, Admitted, At, OnBase,
     HasContributed
<1>9. TokensInv' /\ DepositsInv'
  BY <1>1 DEF IInv, TokensInv, DepositsInv, Unpaid
<1>10. QED
  BY <1>2, <1>3, <1>4, <1>5, <1>6, <1>7, <1>8, <1>9 DEF IInv

\* The inductive invariant holds in every state.
THEOREM Invariance == Spec => []IInv
<1>1. IInv /\ [Next]_vars => IInv'
  BY StepInv, StutterInv
<1>2. QED
  BY InitInv, <1>1, PTL DEF Spec

\* joinCircle keeps the members distinct, in their positions and at most maxMembers,
\* unless a join is overtaken between its check and its push.
THEOREM JoinsOrderly == Spec => []SerialJoinsOrderly
<1>1. IInv => SerialJoinsOrderly
  BY UsersCount DEF IInv, TypeOK, JoinsInv, SerialJoinsOrderly
<1>2. QED
  BY Invariance, <1>1, PTL

\* activateCircle deploys one contract, and one more per failing call, unless
\* activations overlap or an outdated copy of the circle gets into the cache.
THEOREM OneContractDeployed == Spec => []OneContract
<1>1. IInv => OneContract
  BY DEF IInv, ActivationsInv, OneContract
<1>2. QED
  BY Invariance, <1>1, PTL

\* startCircle leaves the document and its contract with the same members, order and
\* rounds, and both running, whatever fails or races, with the exceptions named.
THEOREM StartedTogether == Spec => []StartsTogether
<1>1. IInv => StartsTogether
  BY DEF IInv
<1>2. QED
  BY Invariance, <1>1, PTL

\* makeContribution records no contribution without a transfer, apart from those that
\* failed on NEAR, and loses no transfer but to a failing call.
THEOREM Accounted == Spec => []MoneyAccounted
<1>1. IInv => MoneyAccounted
  BY DEF IInv
<1>2. QED
  BY Invariance, <1>1, PTL

\* makeContribution records one contribution of a user and a round, unless two of the
\* user's requests overlap; a contract in CNGN takes one at most.
THEOREM RecordedOncePerRound == Spec => []OncePerRound
<1>1. IInv => OncePerRound
  <2> SUFFICES ASSUME IInv, currency = "CNGN", NEW u \in Users
               PROVE  paid[u] <= deployed
    BY DEF IInv, RoundsInv, OncePerRound
  <2>1. paid[u] = Cardinality(Takers(u)) /\ deployed \in Nat
    BY DEF IInv, TokensInv, Takers, TypeOK
  <2>2. Takers(u) \in SUBSET (1..deployed)
    BY <2>1 DEF IInv, ContractsInv, NoContract, Takers, Addresses
  <2>3. IsFiniteSet(1..deployed) /\ Cardinality(1..deployed) = deployed
    BY <2>1, FS_Interval
  <2>4. QED
    BY <2>1, <2>2, <2>3, FS_Subset
<1>2. QED
  BY Invariance, <1>1, PTL

-----------------------------------------------------------------------------
(* The contract's specification                                            *)

\* A contract that was not deployed yet is in the initial state of EtibeCircle.
LEMMA ChainInit ==
  ASSUME Init, NEW a \in Addresses
  PROVE  Chain(a)!Init
<1>1. Cardinality({}) = 0
  BY FS_EmptySet
<1>2. contract[a] = NoContract
  BY DEF Init
<1>3. /\ contract[a].order = <<>> /\ contract[a].contributed = {}
      /\ contract[a].members = {} /\ contract[a].deposits = 0
      /\ contract[a].active = FALSE
  BY <1>2 DEF NoContract
<1>4. <<>> = [i \in {} |-> 0]
  OBVIOUS
<1>5. QED
  BY <1>1, <1>3, <1>4 DEF Chain!Init, Chain!Rounds

\* What EtibeCircle counts are the members.
LEMMA ChainSize ==
  ASSUME NEW a \in Addresses
  PROVE  Chain(a)!Size = Cardinality(contract[a].members)
  BY DEF Chain!Size, Chain!Cardinality, Cardinality, Chain!IsFiniteSet, IsFiniteSet

\* A call that changes nothing is no step.
LEMMA ChainSame ==
  ASSUME NEW a \in Addresses,
         contract'[a].members = contract[a].members,
         contract'[a].active = contract[a].active,
         contract'[a].order = contract[a].order,
         contract'[a].contributed = contract[a].contributed,
         contract'[a].deposits = contract[a].deposits
  PROVE  UNCHANGED Chain(a)!vars
  BY DEF Chain!vars

\* addMember.
LEMMA ChainAddMember ==
  ASSUME TypeOK, NEW a \in Addresses, ContractInv(a), NEW b \in {0} \cup Addresses,
         NEW u \in Users, AddOnChain(b, u)
  PROVE  Chain(a)!AddMember(u) \/ UNCHANGED Chain(a)!vars
<1>1. /\ contract'[a].members = IF a = b /\ Accepts(b, u)
                                 THEN contract[a].members \cup {u}
                                 ELSE contract[a].members
      /\ contract'[a].active = contract[a].active
      /\ contract'[a].order = contract[a].order
      /\ contract'[a].contributed = contract[a].contributed
      /\ contract'[a].deposits = contract[a].deposits
  BY AddOnChainEffect
<1>2. CASE a = b /\ Accepts(b, u)
  <2>1. /\ ~contract[a].active /\ u \notin contract[a].members
        /\ Cardinality(contract[a].members) < MaxMembers
        /\ u \notin contract[a].contributed
    BY <1>2 DEF Accepts, ContractInv
  <2>2. [w \in Users |-> IF w \in contract'[a].contributed THEN 1 ELSE 0]
          = [[w \in Users |-> IF w \in contract[a].contributed THEN 1 ELSE 0]
               EXCEPT ![u] = 0]
    BY <1>1, <2>1
  <2>3. Chain(a)!AddMember(u)
    BY <1>1, <1>2, <2>1, <2>2, ChainSize DEF Chain!AddMember, Chain!roundVars
  <2>4. QED
    BY <2>3
<1>3. CASE ~(a = b /\ Accepts(b, u))
  BY <1>1, <1>3, ChainSame
<1>4. QED
  BY <1>2, <1>3

\* setPayoutOrder.
LEMMA ChainSetPayoutOrder ==
  ASSUME TypeOK, NEW a \in Addresses, NEW h \in Handlers, SetOrder(h)
  PROVE  \/ \E order \in Chain(a)!Orders(Chain(a)!Size) : Chain(a)!SetPayoutOrder(order)
         \/ UNCHANGED Chain(a)!vars
<1> DEFINE s == handler[h]
           order == PayoutOrder(s.seen.members)
<1>1. /\ contract'[a].order = IF a = s.seen.address /\ TakesOrder(a, order) THEN order
                              ELSE contract[a].order
      /\ contract'[a].active = contract[a].active
      /\ contract'[a].members = contract[a].members
      /\ contract'[a].contributed = contract[a].contributed
      /\ contract'[a].deposits = contract[a].deposits
  BY SetOrderEffect
<1>2. Len(order) = Len(s.seen.members)
      /\ \A S : (\A k \in 1..Len(order) : order[k] \in S) => order \in Seq(S)
  BY OrderLength, SeenType DEF TypeOK, Request
<1> HIDE DEF order
<1>3. CASE a = s.seen.address /\ TakesOrder(a, order)
  <2>1. /\ ~contract[a].active /\ Len(order) = Cardinality(contract[a].members)
        /\ \A i \in 1..Len(order) : order[i] \in contract[a].members
    BY <1>3 DEF TakesOrder
  <2>2. order \in Seq(contract[a].members)
    BY <1>2, <2>1
  <2>3. order \in Chain(a)!Orders(Chain(a)!Size)
    BY <2>1, <2>2, ChainSize DEF Chain!Orders
  <2>4. Chain(a)!SetPayoutOrder(order)
    BY <1>1, <1>3, <2>1 DEF Chain!SetPayoutOrder, Chain!roundVars, Chain!memberVars,
       Chain!contributionVars
  <2>5. QED
    BY <2>3, <2>4
<1>4. CASE ~(a = s.seen.address /\ TakesOrder(a, order))
  BY <1>1, <1>4, ChainSame
<1>5. QED
  BY <1>3, <1>4

\* startCircle.
LEMMA ChainStartCircle ==
  ASSUME TypeOK, NEW a \in Addresses, NEW h \in Handlers, BeginOnChain(h)
  PROVE  Chain(a)!StartCircle \/ UNCHANGED Chain(a)!vars
<1> DEFINE b == handler[h].seen.address
<1>1. /\ contract'[a].active <=> contract[a].active \/ (a = b /\ Startable(b))
      /\ contract'[a].order = contract[a].order
      /\ contract'[a].members = contract[a].members
      /\ contract'[a].contributed = contract[a].contributed
      /\ contract'[a].deposits = contract[a].deposits
  BY BeginEffect
<1>2. contract[a].active \in BOOLEAN /\ contract'[a].active \in BOOLEAN
      /\ contract[a].order \in Seq(Users)
  <2>1. contract' \in [Addresses -> Contract]
    BY TypeStep, ContractType, PutContract DEF BeginOnChain, TypeOK
  <2>2. QED
    BY <2>1 DEF TypeOK, Contract
<1>3. CASE a = b /\ Startable(b)
  <2>1. /\ ~contract[a].active /\ Cardinality(contract[a].members) >= 2
        /\ Len(contract[a].order) = Cardinality(contract[a].members)
    BY <1>3 DEF Startable
  <2>2. contract'[a].active
    BY <1>1, <1>3
  <2>3. DOMAIN contract[a].order = 1..Cardinality(contract[a].members)
    BY <1>2, <2>1
  <2>4. Chain(a)!StartCircle
    BY <1>1, <2>1, <2>2, <2>3, ChainSize DEF Chain!StartCircle, Chain!memberVars,
       Chain!contributionVars
  <2>5. QED
    BY <2>4
<1>4. CASE ~(a = b /\ Startable(b))
  <2>1. contract'[a].active = contract[a].active
    BY <1>1, <1>2, <1>4
  <2>2. QED
    BY <1>1, <2>1, ChainSame
<1>5. QED
  BY <1>3, <1>4

\* contributeToken.
LEMMA ChainContribute ==
  ASSUME TypeOK, NEW a \in Addresses, NEW h \in Handlers, PayToken(h)
  PROVE  \/ \E u \in Users : Chain(a)!Contribute(u)
         \/ UNCHANGED Chain(a)!vars
<1> PICK u \in Users : u = handler[h].user
  BY DEF TypeOK, Request
<1> DEFINE b == handler[h].seen.address
           old == contract[a].contributed
           new == contract'[a].contributed
<1>1. /\ new = IF a = b /\ TakesContribution(b, u) THEN old \cup {u} ELSE old
      /\ contract'[a].active = contract[a].active
      /\ contract'[a].order = contract[a].order
      /\ contract'[a].members = contract[a].members
      /\ contract'[a].deposits = contract[a].deposits
  BY PayTokenEffect
<1>2. u \in Users /\ contract[a].deposits \in Nat /\ old \in SUBSET Users
  BY DEF TypeOK, Request, Contract
<1>3. CASE a = b /\ TakesContribution(b, u)
  <2>1. contract[a].active /\ u \in contract[a].members /\ u \notin old
    BY <1>3 DEF TakesContribution
  <2>2. new = old \cup {u}
    BY <1>1, <1>3
  <2>3. IsFiniteSet(old)
    BY <1>2, UsersAssumption, FS_Subset
  <2>4. Cardinality(new) = Cardinality(old) + 1 /\ Cardinality(old) \in Nat
    <3> HIDE DEF new, old
    <3>1. QED
      BY <2>1, <2>2, <2>3, FS_AddElement, FS_CardinalityType
  <2>5. Cardinality(new) + contract'[a].deposits
          = Cardinality(old) + contract[a].deposits + 1
    BY <1>1, <1>2, <2>4
  <2>6. [r \in 1..MaxMembers |-> IF r = 1 THEN new ELSE {}]
          = [[r \in 1..MaxMembers |-> IF r = 1 THEN old ELSE {}] EXCEPT ![1] = @ \cup {u}]
    BY <2>2, MembersAssumption
  <2>7. [r \in 1..MaxMembers |-> IF r = 1 THEN Cardinality(new) ELSE 0]
          = [[r \in 1..MaxMembers |-> IF r = 1 THEN Cardinality(old) ELSE 0]
               EXCEPT ![1] = @ + 1]
    BY <2>4, MembersAssumption
  <2>8. [w \in Users |-> IF w \in new THEN 1 ELSE 0]
          = [[w \in Users |-> IF w \in old THEN 1 ELSE 0] EXCEPT ![u] = @ + 1]
    BY <1>2, <2>1, <2>2
  <2>9. 1 \in 1..MaxMembers
    BY MembersAssumption
  <2>10. Chain(a)!MayContribute(u)
    BY <2>1, <2>9 DEF Chain!MayContribute
  <2>11. Chain(a)!Contribute(u)
    <3>1. \E value \in 0..2 :
            /\ Chain(a)!ExactAmount(value)
            /\ Cardinality(new) + contract'[a].deposits
                 = Cardinality(old) + contract[a].deposits + value
      BY <2>5 DEF Chain!ExactAmount
    <3>2. QED
      BY <1>1, <2>1, <2>6, <2>7, <2>8, <2>10, <3>1 DEF Chain!Contribute,
         Chain!roundVars, Chain!memberVars
  <2>12. QED
    BY <1>2, <2>11
<1>4. CASE ~(a = b /\ TakesContribution(b, u))
  BY <1>1, <1>4, ChainSame
<1>5. QED
  BY <1>3, <1>4

\* An ETH transfer; there are as many as requests at most.
LEMMA ChainDeposit ==
  ASSUME TypeOK, DepositsInv, NEW a \in Addresses, NEW h \in Handlers, PayEth(h)
  PROVE  Chain(a)!Deposit \/ UNCHANGED Chain(a)!vars
<1> DEFINE d == contract[a].deposits
           S == Unpaid
<1>1. /\ contract'[a].deposits = IF a = handler[h].seen.address THEN d + 1 ELSE d
      /\ contract'[a].active = contract[a].active
      /\ contract'[a].order = contract[a].order
      /\ contract'[a].members = contract[a].members
      /\ contract'[a].contributed = contract[a].contributed
  BY PayEthEffect
<1>2. d \in Nat /\ contract[a].contributed \in SUBSET Users
      /\ requests \in Nat /\ requests <= MaxRequests /\ MaxRequests \in Nat
  BY BoundAssumption DEF TypeOK, Contract
<1>3. h \in S /\ S \in SUBSET Handlers /\ d + Cardinality(S) <= requests
  BY DEF Unpaid, PayEth, At, DepositsInv
<1>4. Cardinality(contract[a].contributed) \in Nat
  BY <1>2, UsersAssumption, FS_Subset, FS_CardinalityType
<1>5. CASE a = handler[h].seen.address
  <2> HIDE DEF S
  <2>1. IsFiniteSet(S) /\ Cardinality(S) \in Nat
    BY <1>3, UnpaidFinite
  <2>2. Cardinality(S) # 0
    BY <1>3, <2>1, FS_EmptySet
  <2>3. d < MaxRequests
    BY <1>2, <1>3, <2>1, <2>2
  <2>4. contract'[a].deposits = d + 1
    BY <1>1, <1>5
  <2>5. Cardinality(contract'[a].contributed) + contract'[a].deposits
          = Cardinality(contract[a].contributed) + d + 1
    BY <1>1, <1>2, <1>4, <2>4
  <2>6. Chain(a)!Deposit
    BY <1>1, <2>3, <2>4, <2>5 DEF Chain!Deposit, Chain!roundVars, Chain!memberVars,
       Chain!contributionVars
  <2>7. QED
    BY <2>6
<1>6. CASE a # handler[h].seen.address
  BY <1>1, <1>6, ChainSame
<1>7. QED
  BY <1>5, <1>6

\* Every step of the service is a call of each contract, or none.
LEMMA ChainStep ==
  ASSUME IInv, Next, NEW a \in Addresses
  PROVE  Chain(a)!Next \/ UNCHANGED Chain(a)!vars
<1>1. TypeOK /\ DepositsInv /\ ContractInv(a)
  BY DEF IInv, ContractsInv, ContractInv
<1>2. CASE UNCHANGED contract
  BY <1>2, ChainSame
<1>3. ASSUME NEW h \in Handlers, Calls(h)
      PROVE  Chain(a)!Next \/ UNCHANGED Chain(a)!vars
  <2>1. /\ handler[h].user \in Users /\ handler[h].address \in {0} \cup Addresses
        /\ handler[h].seen.address \in {0} \cup Addresses
    BY <1>1, SeenType DEF TypeOK, Request
  <2>2. CASE AddCreator(h)
    BY <1>1, <2>1, <2>2, ChainAddMember, UsersAssumption DEF AddCreator, Chain!Next
  <2>3. CASE JoinOnChain(h)
    BY <1>1, <1>2, <2>1, <2>3, ChainAddMember DEF JoinOnChain, Chain!Next
  <2>4. CASE SetOrder(h)
    BY <1>1, <2>4, ChainSetPayoutOrder DEF Chain!Next
  <2>5. CASE BeginOnChain(h)
    BY <1>1, <2>5, ChainStartCircle DEF Chain!Next
  <2>6. CASE PayEth(h)
    BY <1>1, <2>6, ChainDeposit DEF Chain!Next
  <2>7. CASE PayToken(h)
    BY <1>1, <2>7, ChainContribute DEF Chain!Next
  <2>8. QED
    BY <1>3, <2>2, <2>3, <2>4, <2>5, <2>6, <2>7 DEF Calls
<1>4. QED
  BY <1>2, <1>3, ContractsKept DEF Calls

\* The calls of the service, interleaved and failing, drive every contract as
\* EtibeCircle specifies: a step is one call of the contract, or none.
THEOREM ContractsAreCalled == Spec => ContractCalls
<1>1. Init => \A a \in Addresses : Chain(a)!Init
  BY ChainInit
<1>2. IInv /\ [Next]_vars =>
        [\/ UNCHANGED contract
         \/ \A a \in Addresses : UNCHANGED Chain(a)!vars \/ Chain(a)!Next]_vars
  BY ChainStep
<1>3. QED
  BY Invariance, <1>1, <1>2, PTL DEF Spec, ContractCalls
=============================================================================
