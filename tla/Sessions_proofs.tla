------------------------- MODULE Sessions_proofs -------------------------
(***************************************************************************)
(* The safety of Sessions for any number of devices, of requests and of    *)
(* failing calls: IInv is an inductive invariant, and the properties that  *)
(* the run checks follow from it.  Every step of a request is first put    *)
(* into one form, Goes, that names the fields of its handler after it.     *)
(***************************************************************************)
EXTENDS Sessions, TLAPS

-----------------------------------------------------------------------------
(* Lists of sessions                                                       *)

\* The empty list.
LEMMA EmptyList == ListedIn(<<>>) = {} /\ Distinct(<<>>)
  BY DEF ListedIn, Distinct

\* What a list names.
LEMMA ElementsType ==
  ASSUME NEW S, NEW l \in Seq(S)
  PROVE  ListedIn(l) \subseteq S
  BY DEF ListedIn

\* The filter leaves out one session and keeps the others.
LEMMA WithoutList ==
  ASSUME NEW S, NEW l \in Seq(S), NEW id, Distinct(l)
  PROVE  /\ Without(l, id) \in Seq(S) /\ Distinct(Without(l, id))
         /\ ListedIn(Without(l, id)) = ListedIn(l) \ {id}
<1>1. CASE id \notin ListedIn(l)
  BY <1>1 DEF Without
<1>2. CASE id \in ListedIn(l)
  <2> DEFINE n == CHOOSE i \in 1..Len(l) : l[i] = id
             w == [i \in 1..(Len(l) - 1) |-> IF i < n THEN l[i] ELSE l[i + 1]]
  <2>1. n \in 1..Len(l) /\ l[n] = id
    BY <1>2 DEF ListedIn
  <2>2. Without(l, id) = w
    BY <1>2 DEF Without
  <2> HIDE DEF n
  <2>3. Len(l) \in Nat /\ Len(l) - 1 \in Nat
    BY <2>1
  <2>4. w \in Seq(S) /\ Len(w) = Len(l) - 1
    <3>1. \A i \in 1..(Len(l) - 1) : w[i] \in S
      BY <2>1, <2>3
    <3> QED BY <3>1, <2>3
  <2>5. \A i \in 1..(Len(l) - 1) : w[i] = IF i < n THEN l[i] ELSE l[i + 1]
    OBVIOUS
  <2> HIDE DEF w
  <2>6. Distinct(w)
    <3> SUFFICES ASSUME NEW i \in 1..Len(w), NEW j \in 1..Len(w), w[i] = w[j]
                 PROVE  i = j
      BY DEF Distinct
    <3> QED BY <2>1, <2>3, <2>4, <2>5 DEF Distinct
  <2>7. ListedIn(w) = ListedIn(l) \ {id}
    <3>1. ASSUME NEW x \in ListedIn(w) PROVE x \in ListedIn(l) \ {id}
      <4>1. PICK i \in 1..Len(w) : x = w[i]
        BY DEF ListedIn
      <4>2. CASE i < n
        <5>1. i \in 1..Len(l) /\ x = l[i] /\ i # n
          BY <4>1, <4>2, <2>1, <2>3, <2>4, <2>5
        <5> QED BY <5>1, <2>1 DEF ListedIn, Distinct
      <4>3. CASE ~(i < n)
        <5>1. i + 1 \in 1..Len(l) /\ x = l[i + 1] /\ i + 1 # n
          BY <4>1, <4>3, <2>1, <2>3, <2>4, <2>5
        <5> QED BY <5>1, <2>1 DEF ListedIn, Distinct
      <4> QED BY <4>2, <4>3
    <3>2. ASSUME NEW x \in ListedIn(l) \ {id} PROVE x \in ListedIn(w)
      <4>1. PICK i \in 1..Len(l) : x = l[i] /\ i # n
        BY <2>1 DEF ListedIn
      <4>2. CASE i < n
        <5>1. i \in 1..Len(w) /\ x = w[i]
          BY <4>1, <4>2, <2>1, <2>3, <2>4, <2>5
        <5> QED BY <5>1 DEF ListedIn
      <4>3. CASE ~(i < n)
        <5>1. i - 1 \in 1..Len(w) /\ ~(i - 1 < n) /\ (i - 1) + 1 = i
          BY <4>1, <4>3, <2>1, <2>3, <2>4
        <5>2. x = w[i - 1]
          BY <5>1, <4>1, <2>4, <2>5
        <5> QED BY <5>1, <5>2 DEF ListedIn
      <4> QED BY <4>2, <4>3
    <3> QED BY <3>1, <3>2
  <2> QED BY <2>2, <2>4, <2>6, <2>7
<1> QED BY <1>1, <1>2

\* A session is added to a list that does not name it.
LEMMA AppendList ==
  ASSUME NEW S, NEW l \in Seq(S), NEW x \in S
  PROVE  /\ Append(l, x) \in Seq(S) /\ Append(l, x) # <<>>
         /\ ListedIn(Append(l, x)) = ListedIn(l) \cup {x}
         /\ Distinct(l) /\ x \notin ListedIn(l) => Distinct(Append(l, x))
<1> DEFINE a == Append(l, x)
<1>1. /\ a \in Seq(S) /\ Len(a) = Len(l) + 1 /\ a[Len(l) + 1] = x
      /\ \A i \in 1..Len(l) : a[i] = l[i]
  OBVIOUS
<1>2. Len(l) \in Nat
  OBVIOUS
<1> HIDE DEF a
<1>3. ListedIn(a) = ListedIn(l) \cup {x}
  <2>1. \A i \in 1..Len(a) : i \in 1..Len(l) \/ i = Len(l) + 1
    BY <1>1, <1>2
  <2>2. \A i \in 1..Len(l) : i \in 1..Len(a)
    BY <1>1, <1>2
  <2>3. Len(l) + 1 \in 1..Len(a)
    BY <1>1, <1>2
  <2> QED BY <1>1, <2>1, <2>2, <2>3 DEF ListedIn
<1>4. ASSUME Distinct(l), x \notin ListedIn(l) PROVE Distinct(a)
  BY <1>1, <1>2, <1>4 DEF Distinct, ListedIn
<1>5. a # <<>>
  BY <1>1, <1>2
<1> QED BY <1>1, <1>3, <1>4, <1>5 DEF a

\* The sessions that are left after the first.
LEMMA TailList ==
  ASSUME NEW S, NEW l \in Seq(S), l # <<>>
  PROVE  /\ Head(l) \in S /\ Tail(l) \in Seq(S)
         /\ ListedIn(l) = {Head(l)} \cup ListedIn(Tail(l))
         /\ Distinct(l) => Distinct(Tail(l))
<1> DEFINE t == Tail(l)
<1>1. /\ t \in Seq(S) /\ Len(t) = Len(l) - 1 /\ Head(l) = l[1] /\ Len(l) \in Nat /\ Len(l) >= 1
      /\ \A i \in 1..(Len(l) - 1) : t[i] = l[i + 1]
  OBVIOUS
<1>2. Head(l) \in S
  BY <1>1
<1> HIDE DEF t
<1>3. ListedIn(l) = {l[1]} \cup ListedIn(t)
  <2>1. \A i \in 1..Len(l) : i = 1 \/ (i - 1 \in 1..Len(t) /\ t[i - 1] = l[i])
    <3> SUFFICES ASSUME NEW i \in 1..Len(l), i # 1 PROVE i - 1 \in 1..Len(t) /\ t[i - 1] = l[i]
      OBVIOUS
    <3>1. i - 1 \in 1..(Len(l) - 1) /\ (i - 1) + 1 = i
      BY <1>1
    <3> QED BY <3>1, <1>1
  <2>2. \A i \in 1..Len(t) : i + 1 \in 1..Len(l) /\ t[i] = l[i + 1]
    BY <1>1
  <2>3. 1 \in 1..Len(l)
    BY <1>1
  <2> QED BY <2>1, <2>2, <2>3 DEF ListedIn
<1>4. ASSUME Distinct(l) PROVE Distinct(t)
  BY <1>1, <1>4 DEF Distinct
<1> QED BY <1>1, <1>2, <1>3, <1>4 DEF t

-----------------------------------------------------------------------------
(* What a step makes of its handler                                        *)

\* A handler by its fields.
Record(op, step, id, target, todo, seen) ==
  [op |-> op, step |-> step, id |-> id, target |-> target, todo |-> todo, seen |-> seen]

\* What a step makes of the handler that takes it; the others stay as they are.
Goes(h, op, step, id, target, todo, seen) ==
  /\ handler' \in [Handlers -> State']
  /\ handler'[h].op = op /\ handler'[h].step = step /\ handler'[h].id = id
  /\ handler'[h].target = target /\ handler'[h].todo = todo /\ handler'[h].seen = seen
  /\ \A g \in Handlers \ {h} : handler'[g] = handler[g]

\* The request is answered.
Stops(h) == Goes(h, "none", "idle", 0, 0, <<>>, <<>>)

\* Where the invalidation of a session returns to.
Returned(h) ==
  LET s == handler[h] IN
  \/ s.op = "login" /\ Goes(h, "login", "store", s.id, s.target, s.todo, s.seen)
  \/ s.op = "logout" /\ Stops(h)
  \/ /\ s.op \notin {"login", "logout"} /\ s.todo = <<>>
     /\ Goes(h, s.op, "delList", s.id, s.target, s.todo, s.seen)
  \/ /\ s.op \notin {"login", "logout"} /\ s.todo # <<>>
     /\ Goes(h, s.op, "get", s.id, Head(s.todo), Tail(s.todo), s.seen)

\* A handler that changes, and the others.
LEMMA Put ==
  ASSUME TypeOK, NEW h \in Handlers, Len(made') \in Nat, Len(made) <= Len(made'),
         NEW op \in Ops, NEW step \in Steps,
         NEW id \in 0..Len(made'), NEW target \in 0..Len(made'),
         NEW todo \in Seq(1..Len(made')), NEW seen \in Seq(1..Len(made')),
         handler' = [handler EXCEPT ![h] = Record(op, step, id, target, todo, seen)]
  PROVE  Goes(h, op, step, id, target, todo, seen)
<1> DEFINE n == Record(op, step, id, target, todo, seen)
<1>1. n \in State'
  BY DEF State, Record
<1>2. /\ n.op = op /\ n.step = step /\ n.id = id
      /\ n.target = target /\ n.todo = todo /\ n.seen = seen
  BY DEF Record
<1>3. handler \in [Handlers -> State] /\ made \in Seq([device: Devices, password: 1..password])
  BY DEF TypeOK
<1>4. State \subseteq State'
  <2>1. Len(made) \in Nat
    BY <1>3
  <2>2. 0..Len(made) \subseteq 0..Len(made') /\ 1..Len(made) \subseteq 1..Len(made')
    BY <2>1
  <2>3. Seq(1..Len(made)) \subseteq Seq(1..Len(made'))
    BY <2>2
  <2> DEFINE A == 0..Len(made)  B == Seq(1..Len(made))
             C == 0..Len(made')  D == Seq(1..Len(made'))
  <2>4. A \subseteq C /\ B \subseteq D
    BY <2>2, <2>3
  <2>5. /\ State = [op: Ops, step: Steps, id: A, target: A, todo: B, seen: B]
        /\ State' = [op: Ops, step: Steps, id: C, target: C, todo: D, seen: D]
    BY DEF State
  <2> HIDE DEF A, B, C, D
  <2> QED BY <2>4, <2>5
<1>5. handler' = [handler EXCEPT ![h] = n]
  OBVIOUS
<1> HIDE DEF n
<1>6. handler' \in [Handlers -> State']
  BY <1>1, <1>3, <1>4, <1>5
<1>7. handler'[h] = n /\ \A g \in Handlers \ {h} : handler'[g] = handler[g]
  BY <1>3, <1>5
<1> QED BY <1>2, <1>6, <1>7 DEF Goes

\* A handler and its fields.
LEMMA Spread ==
  ASSUME TypeOK, NEW h \in Handlers
  PROVE  LET s == handler[h] IN
         /\ s = Record(s.op, s.step, s.id, s.target, s.todo, s.seen)
         /\ s.op \in Ops /\ s.step \in Steps /\ s.id \in 0..Len(made)
         /\ s.target \in 0..Len(made)
         /\ s.todo \in Seq(1..Len(made)) /\ s.seen \in Seq(1..Len(made))
         /\ Len(made) \in Nat
<1>1. handler[h] \in State /\ made \in Seq([device: Devices, password: 1..password])
  BY DEF TypeOK
<1>2. Len(made) \in Nat
  BY <1>1
<1>3. \A s \in State : /\ s = Record(s.op, s.step, s.id, s.target, s.todo, s.seen)
                       /\ s.op \in Ops /\ s.step \in Steps /\ s.id \in 0..Len(made)
                       /\ s.target \in 0..Len(made)
                       /\ s.todo \in Seq(1..Len(made)) /\ s.seen \in Seq(1..Len(made))
  BY DEF State, Record
<1> QED BY <1>1, <1>2, <1>3

\* The handler at another step.
LEMMA StepOf ==
  ASSUME TypeOK, NEW h \in Handlers, NEW v
  PROVE  LET s == handler[h] IN
         [s EXCEPT !.step = v] = Record(s.op, v, s.id, s.target, s.todo, s.seen)
<1> DEFINE s == handler[h]
           op == s.op  step == s.step  id == s.id  target == s.target
           todo == s.todo  seen == s.seen
<1>1. s = Record(op, step, id, target, todo, seen)
  BY Spread
<1> HIDE DEF s, op, step, id, target, todo, seen
<1>2. [s EXCEPT !.step = v] = Record(op, v, id, target, todo, seen)
  BY <1>1 DEF Record
<1> QED BY <1>2 DEF s, op, step, id, target, todo, seen

\* The handler with a list it has read, or done with it.
LEMMA ReadOf ==
  ASSUME TypeOK, NEW h \in Handlers, NEW v, NEW w
  PROVE  LET s == handler[h] IN
         [s EXCEPT !.step = v, !.seen = w] = Record(s.op, v, s.id, s.target, s.todo, w)
<1> DEFINE s == handler[h]
           op == s.op  step == s.step  id == s.id  target == s.target
           todo == s.todo  seen == s.seen
<1>1. s = Record(op, step, id, target, todo, seen)
  BY Spread
<1> HIDE DEF s, op, step, id, target, todo, seen
<1>2. [s EXCEPT !.step = v, !.seen = w] = Record(op, v, id, target, todo, w)
  <2>1. [s EXCEPT !.step = v, !.seen = w]
          = [[s EXCEPT !.step = v] EXCEPT !.seen = w]
    OBVIOUS
  <2>2. [s EXCEPT !.step = v] = Record(op, v, id, target, todo, seen)
    BY <1>1 DEF Record
  <2>3. [Record(op, v, id, target, todo, seen) EXCEPT !.seen = w] = Record(op, v, id, target, todo, w)
    BY DEF Record
  <2> QED BY <2>1, <2>2, <2>3
<1> QED BY <1>2 DEF s, op, step, id, target, todo, seen

\* The handler with a session to end.
LEMMA TargetOf ==
  ASSUME TypeOK, NEW h \in Handlers, NEW v, NEW w
  PROVE  LET s == handler[h] IN
         [s EXCEPT !.step = v, !.target = w] = Record(s.op, v, s.id, w, s.todo, s.seen)
<1> DEFINE s == handler[h]
           op == s.op  step == s.step  id == s.id  target == s.target
           todo == s.todo  seen == s.seen
<1>1. s = Record(op, step, id, target, todo, seen)
  BY Spread
<1> HIDE DEF s, op, step, id, target, todo, seen
<1>2. [s EXCEPT !.step = v, !.target = w] = Record(op, v, id, w, todo, seen)
  <2>1. [s EXCEPT !.step = v, !.target = w]
          = [[s EXCEPT !.step = v] EXCEPT !.target = w]
    OBVIOUS
  <2>2. [s EXCEPT !.step = v] = Record(op, v, id, target, todo, seen)
    BY <1>1 DEF Record
  <2>3. [Record(op, v, id, target, todo, seen) EXCEPT !.target = w] = Record(op, v, id, w, todo, seen)
    BY DEF Record
  <2> QED BY <2>1, <2>2, <2>3
<1> QED BY <1>2 DEF s, op, step, id, target, todo, seen

\* The handler with a session to end and others to end after it.
LEMMA NextOf ==
  ASSUME TypeOK, NEW h \in Handlers, NEW v, NEW w, NEW x
  PROVE  LET s == handler[h] IN
         [s EXCEPT !.step = v, !.target = w, !.todo = x] = Record(s.op, v, s.id, w, x, s.seen)
<1> DEFINE s == handler[h]
           op == s.op  step == s.step  id == s.id  target == s.target
           todo == s.todo  seen == s.seen
<1>1. s = Record(op, step, id, target, todo, seen)
  BY Spread
<1> HIDE DEF s, op, step, id, target, todo, seen
<1>2. [s EXCEPT !.step = v, !.target = w, !.todo = x] = Record(op, v, id, w, x, seen)
  <2>1. [s EXCEPT !.step = v, !.target = w, !.todo = x]
          = [[[s EXCEPT !.step = v] EXCEPT !.target = w] EXCEPT !.todo = x]
    OBVIOUS
  <2>2. [s EXCEPT !.step = v] = Record(op, v, id, target, todo, seen)
    BY <1>1 DEF Record
  <2>3. [Record(op, v, id, target, todo, seen) EXCEPT !.target = w] = Record(op, v, id, w, todo, seen)
    BY DEF Record
  <2>4. [Record(op, v, id, w, todo, seen) EXCEPT !.todo = x] = Record(op, v, id, w, x, seen)
    BY DEF Record
  <2> QED BY <2>1, <2>2, <2>3, <2>4
<1> QED BY <1>2 DEF s, op, step, id, target, todo, seen

\* The handler of a new request.
LEMMA ServesRecord ==
  ASSUME NEW v, NEW w, NEW x
  PROVE  [Idle EXCEPT !.op = v, !.step = w, !.id = x, !.target = x]
           = Record(v, w, x, x, <<>>, <<>>)
<1>1. [Idle EXCEPT !.op = v, !.step = w, !.id = x, !.target = x]
        = [[[[Idle EXCEPT !.op = v] EXCEPT !.step = w] EXCEPT !.id = x] EXCEPT !.target = x]
  OBVIOUS
<1>2. [Idle EXCEPT !.op = v] = Record(v, "idle", 0, 0, <<>>, <<>>)
  BY DEF Idle, Record
<1>3. [Record(v, "idle", 0, 0, <<>>, <<>>) EXCEPT !.step = w] = Record(v, w, 0, 0, <<>>, <<>>)
  BY DEF Record
<1>4. [Record(v, w, 0, 0, <<>>, <<>>) EXCEPT !.id = x] = Record(v, w, x, 0, <<>>, <<>>)
  BY DEF Record
<1>5. [Record(v, w, x, 0, <<>>, <<>>) EXCEPT !.target = x] = Record(v, w, x, x, <<>>, <<>>)
  BY DEF Record
<1> QED BY <1>1, <1>2, <1>3, <1>4, <1>5

\* A handler without a request.
LEMMA IdleRecord == Idle = Record("none", "idle", 0, 0, <<>>, <<>>)
  BY DEF Idle, Record

-----------------------------------------------------------------------------
(* The steps in these terms                                                *)

\* No session is created.
LEMMA Kept ==
  ASSUME TypeOK, made' = made
  PROVE  /\ Len(made') \in Nat /\ Len(made) <= Len(made') /\ Len(made') = Len(made)
<1>1. Len(made) \in Nat
  BY DEF TypeOK
<1> QED BY <1>1

\* Another step.
LEMMA MovesGoes ==
  ASSUME TypeOK, made' = made, NEW h \in Handlers, NEW step \in Steps, Moves(h, step)
  PROVE  LET s == handler[h] IN Goes(h, s.op, step, s.id, s.target, s.todo, s.seen)
<1> DEFINE s == handler[h]
<1>1. [s EXCEPT !.step = step] = Record(s.op, step, s.id, s.target, s.todo, s.seen)
  BY StepOf
<1>2. handler' = [handler EXCEPT ![h] = [s EXCEPT !.step = step]]
  BY DEF Moves
<1>3. handler' = [handler EXCEPT ![h] = Record(s.op, step, s.id, s.target, s.todo, s.seen)]
  BY <1>1, <1>2
<1> QED BY <1>3, Spread, Put, Kept

\* Another step and what was read.
LEMMA ReadsGoes ==
  ASSUME TypeOK, made' = made, NEW h \in Handlers, NEW step \in Steps,
         NEW seen \in Seq(1..Len(made)),
         handler' = [handler EXCEPT ![h] = [handler[h] EXCEPT !.step = step, !.seen = seen]]
  PROVE  LET s == handler[h] IN Goes(h, s.op, step, s.id, s.target, s.todo, seen)
<1> DEFINE s == handler[h]
<1>1. [s EXCEPT !.step = step, !.seen = seen] = Record(s.op, step, s.id, s.target, s.todo, seen)
  BY ReadOf
<1>2. handler' = [handler EXCEPT ![h] = Record(s.op, step, s.id, s.target, s.todo, seen)]
  BY <1>1
<1> QED BY <1>2, Spread, Put, Kept

\* The request is answered.
LEMMA EndsGoes ==
  ASSUME TypeOK, made' = made, NEW h \in Handlers, Ends(h)
  PROVE  Stops(h)
<1>1. handler' = [handler EXCEPT ![h] = Record("none", "idle", 0, 0, <<>>, <<>>)]
  BY IdleRecord DEF Ends
<1>2. /\ "none" \in Ops /\ "idle" \in Steps /\ 0 \in 0..Len(made)
      /\ <<>> \in Seq(1..Len(made))
  BY Spread DEF Ops, Steps
<1> QED BY <1>1, <1>2, Put, Kept DEF Stops

\* A session to end.
LEMMA TargetsGoes ==
  ASSUME TypeOK, made' = made, NEW h \in Handlers, NEW target \in 0..Len(made),
         NEW todo \in Seq(1..Len(made)),
         handler' = [handler EXCEPT ![h] =
           [handler[h] EXCEPT !.step = "get", !.target = target, !.todo = todo]]
  PROVE  LET s == handler[h] IN Goes(h, s.op, "get", s.id, target, todo, s.seen)
<1> DEFINE s == handler[h]
<1>1. [s EXCEPT !.step = "get", !.target = target, !.todo = todo]
        = Record(s.op, "get", s.id, target, todo, s.seen)
  BY NextOf
<1>2. "get" \in Steps
  BY DEF Steps
<1>3. handler' = [handler EXCEPT ![h] = Record(s.op, "get", s.id, target, todo, s.seen)]
  BY <1>1
<1> QED BY <1>2, <1>3, Spread, Put, Kept

\* The session is ended.
LEMMA ReturnsGoes ==
  ASSUME TypeOK, made' = made, NEW h \in Handlers, Returns(h)
  PROVE  Returned(h)
<1> DEFINE s == handler[h]
<1>1. handler' = [handler EXCEPT ![h] = Resume(s)]
  BY DEF Returns
<1>2. CASE s.op = "login"
  <2>1. Moves(h, "store")
    BY <1>1, <1>2 DEF Resume, Moves
  <2>2. "store" \in Steps
    BY DEF Steps
  <2> QED BY <1>2, <2>1, <2>2, MovesGoes DEF Returned
<1>3. CASE s.op = "logout"
  <2>1. Ends(h)
    BY <1>1, <1>3 DEF Resume, Ends
  <2> QED BY <1>3, <2>1, EndsGoes DEF Returned
<1>4. CASE s.op \notin {"login", "logout"} /\ s.todo = <<>>
  <2>1. Moves(h, "delList")
    BY <1>1, <1>4 DEF Resume, Moves
  <2>2. "delList" \in Steps
    BY DEF Steps
  <2> QED BY <1>4, <2>1, <2>2, MovesGoes DEF Returned
<1>5. CASE s.op \notin {"login", "logout"} /\ s.todo # <<>>
  <2>1. handler' = [handler EXCEPT ![h] =
           [s EXCEPT !.step = "get", !.target = Head(s.todo), !.todo = Tail(s.todo)]]
    BY <1>1, <1>5 DEF Resume
  <2>2. Head(s.todo) \in 1..Len(made) /\ Tail(s.todo) \in Seq(1..Len(made))
    BY <1>5, Spread, TailList
  <2>3. Head(s.todo) \in 0..Len(made)
    BY <2>2, Spread
  <2> QED BY <1>5, <2>1, <2>2, <2>3, TargetsGoes DEF Returned
<1> QED BY <1>2, <1>3, <1>4, <1>5

\* The session to end is found or is not.
LEMMA GetSessionForm ==
  ASSUME TypeOK, NEW h \in Handlers, GetSession(h)
  PROVE  LET s == handler[h] IN
    /\ made' = made
    /\ \/ s.target \in sessions /\ Goes(h, s.op, "del", s.id, s.target, s.todo, s.seen)
       \/ s.target \notin sessions /\ Returned(h)
<1>1. "del" \in Steps
  BY DEF Steps
<1>2. made' = made
  BY DEF GetSession, sessionVars
<1>3. CASE handler[h].target \in sessions
  <2>1. Moves(h, "del")
    BY <1>3 DEF GetSession
  <2> QED BY <1>1, <1>2, <1>3, <2>1, MovesGoes
<1>4. CASE handler[h].target \notin sessions
  <2>1. Returns(h)
    BY <1>4 DEF GetSession
  <2> QED BY <1>2, <1>4, <2>1, ReturnsGoes
<1> QED BY <1>3, <1>4

\* It is deleted.
LEMMA DeleteSessionForm ==
  ASSUME TypeOK, NEW h \in Handlers, DeleteSession(h)
  PROVE  LET s == handler[h] IN made' = made /\ Goes(h, s.op, "listGet", s.id, s.target, s.todo, s.seen)
<1>1. "listGet" \in Steps
  BY DEF Steps
<1>2. made' = made /\ Moves(h, "listGet")
  BY DEF DeleteSession, sessionVars
<1> QED BY <1>1, <1>2, MovesGoes

\* The list is read.
LEMMA ReadListForm ==
  ASSUME TypeOK, NEW h \in Handlers, ReadList(h)
  PROVE  LET s == handler[h] IN made' = made /\ Goes(h, s.op, "listSet", s.id, s.target, s.todo, list)
<1>1. "listSet" \in Steps /\ list \in Seq(1..Len(made))
  BY DEF Steps, TypeOK, IsList
<1>2. /\ made' = made
      /\ handler' = [handler EXCEPT ![h] = [handler[h] EXCEPT !.step = "listSet", !.seen = list]]
  BY DEF ReadList, sessionVars
<1> QED BY <1>1, <1>2, ReadsGoes

\* The list is written without it.
LEMMA RemoveFromListForm ==
  ASSUME TypeOK, NEW h \in Handlers, RemoveFromList(h)
  PROVE  LET s == handler[h] IN made' = made /\ Goes(h, s.op, "delDevice", s.id, s.target, s.todo, <<>>)
<1>1. "delDevice" \in Steps /\ <<>> \in Seq(1..Len(made))
  BY DEF Steps, TypeOK, IsList
<1>2. /\ made' = made
      /\ handler' = [handler EXCEPT ![h] = [handler[h] EXCEPT !.step = "delDevice", !.seen = <<>>]]
  BY DEF RemoveFromList, sessionVars
<1> QED BY <1>1, <1>2, ReadsGoes

\* The key of its device is deleted.
LEMMA DeleteDeviceKeyForm ==
  ASSUME TypeOK, NEW h \in Handlers, DeleteDeviceKey(h)
  PROVE  made' = made /\ Returned(h)
  BY ReturnsGoes DEF DeleteDeviceKey, sessionVars

\* Steps that only logins take.
LEMMA LoginSteps ==
  ASSUME TypeOK, HandlersInv, NEW h \in Handlers,
         handler[h].step \in {"device", "store", "trackGet", "trackSet", "map"}
  PROVE  LogsIn(h)
<1>1. handler[h].op \in Ops /\ handler[h].step \in StepsOf(handler[h].op)
  BY Spread DEF HandlersInv
<1> QED BY <1>1 DEF Ops, StepsOf, LogsIn, InvalidateSteps

\* The session of a login has not expired.
LEMMA LoginOfId ==
  ASSUME TypeOK, HandlersInv, NEW h \in Handlers, LogsIn(h)
  PROVE  handler[h].id \in 1..Len(made) /\ handler[h].id > expired
<1>1. handler[h].id \in 0..Len(made) /\ handler[h].id > expired
  BY Spread DEF HandlersInv
<1>2. expired \in Nat /\ Len(made) \in Nat
  BY DEF TypeOK
<1> QED BY <1>1, <1>2

\* The session of a login at these steps.
LEMMA LoginId ==
  ASSUME TypeOK, HandlersInv, NEW h \in Handlers,
         handler[h].step \in {"device", "store", "trackGet", "trackSet", "map"}
  PROVE  LogsIn(h) /\ handler[h].id \in 1..Len(made)
  BY LoginSteps, LoginOfId

\* A session has a device and a password.
LEMMA MadeType ==
  ASSUME TypeOK, NEW i \in 1..Len(made)
  PROVE  made[i].device \in Devices /\ made[i].password \in 1..password
<1> DEFINE E == [device: Devices, password: 1..password]
<1>1. made \in Seq(E)
  BY DEF TypeOK
<1> HIDE DEF E
<1>2. made[i] \in E
  BY <1>1
<1> QED BY <1>2 DEF E

\* The device has a session or has none.
LEMMA GetDeviceKeyForm ==
  ASSUME TypeOK, NEW h \in Handlers, GetDeviceKey(h), HandlersInv
  PROVE  LET s == handler[h] IN
    /\ made' = made
    /\ \/ deviceKey[DeviceOf(s.id)] = 0 /\ Goes(h, s.op, "store", s.id, s.target, s.todo, s.seen)
       \/ /\ deviceKey[DeviceOf(s.id)] # 0
          /\ Goes(h, s.op, "get", s.id, deviceKey[DeviceOf(s.id)], s.todo, s.seen)
<1> DEFINE s == handler[h]
           k == deviceKey[made[s.id].device]
<1>1. made' = made
  BY DEF GetDeviceKey, sessionVars
<1>2. handler' = [handler EXCEPT ![h] = IF k = 0 THEN [s EXCEPT !.step = "store"]
                                      ELSE [s EXCEPT !.step = "get", !.target = k]]
  BY DEF GetDeviceKey
<1>3. k = deviceKey[DeviceOf(s.id)]
  BY DEF DeviceOf
<1>4. k \in 0..Len(made)
  <2>1. s.id \in 1..Len(made) /\ made \in Seq([device: Devices, password: 1..password])
    BY LoginId DEF GetDeviceKey, At, TypeOK
  <2>2. made[s.id].device \in Devices
    BY <2>1, MadeType
  <2> QED BY <2>2 DEF TypeOK
<1> HIDE DEF k
<1>5. CASE k = 0
  <2>1. "store" \in Steps /\ Moves(h, "store")
    BY <1>2, <1>5 DEF Steps, Moves
  <2> QED BY <1>1, <1>3, <1>5, <2>1, MovesGoes
<1>6. CASE k # 0
  <2>1. [s EXCEPT !.step = "get", !.target = k] = Record(s.op, "get", s.id, k, s.todo, s.seen)
    BY TargetOf
  <2>2. "get" \in Steps
    BY DEF Steps
  <2>3. handler' = [handler EXCEPT ![h] = Record(s.op, "get", s.id, k, s.todo, s.seen)]
    BY <1>2, <1>6, <2>1
  <2>4. Goes(h, s.op, "get", s.id, k, s.todo, s.seen)
    BY <1>1, <1>4, <2>2, <2>3, Spread, Put, Kept
  <2> QED BY <1>1, <1>3, <1>6, <2>4
<1> QED BY <1>5, <1>6

\* The session of the login is stored.
LEMMA StoreSessionForm ==
  ASSUME TypeOK, NEW h \in Handlers, StoreSession(h)
  PROVE  LET s == handler[h] IN made' = made /\ Goes(h, s.op, "trackGet", s.id, s.target, s.todo, s.seen)
<1>1. "trackGet" \in Steps
  BY DEF Steps
<1>2. made' = made /\ Moves(h, "trackGet")
  BY DEF StoreSession, sessionVars
<1> QED BY <1>1, <1>2, MovesGoes

\* The list is read.
LEMMA ReadListToTrackForm ==
  ASSUME TypeOK, NEW h \in Handlers, ReadListToTrack(h)
  PROVE  LET s == handler[h] IN made' = made /\ Goes(h, s.op, "trackSet", s.id, s.target, s.todo, list)
<1>1. "trackSet" \in Steps /\ list \in Seq(1..Len(made))
  BY DEF Steps, TypeOK, IsList
<1>2. /\ made' = made
      /\ handler' = [handler EXCEPT ![h] = [handler[h] EXCEPT !.step = "trackSet", !.seen = list]]
  BY DEF ReadListToTrack, sessionVars
<1> QED BY <1>1, <1>2, ReadsGoes

\* The list is written with the session.
LEMMA TrackForm ==
  ASSUME TypeOK, NEW h \in Handlers, Track(h)
  PROVE  LET s == handler[h] IN made' = made /\ Goes(h, s.op, "map", s.id, s.target, s.todo, <<>>)
<1>1. "map" \in Steps /\ <<>> \in Seq(1..Len(made))
  BY DEF Steps, TypeOK, IsList
<1>2. /\ made' = made
      /\ handler' = [handler EXCEPT ![h] = [handler[h] EXCEPT !.step = "map", !.seen = <<>>]]
  BY DEF Track, sessionVars
<1> QED BY <1>1, <1>2, ReadsGoes

\* The key of the device is set.
LEMMA SetDeviceKeyForm ==
  ASSUME TypeOK, NEW h \in Handlers, SetDeviceKey(h)
  PROVE  made' = made /\ Stops(h)
  BY EndsGoes DEF SetDeviceKey, sessionVars

\* The session to touch is there or is not.
LEMMA TouchForm ==
  ASSUME TypeOK, NEW h \in Handlers, Touch(h)
  PROVE  LET s == handler[h] IN
    /\ made' = made
    /\ \/ s.id \in sessions /\ Goes(h, s.op, "touchSet", s.id, s.target, s.todo, s.seen)
       \/ s.id \notin sessions /\ Stops(h)
<1>1. "touchSet" \in Steps
  BY DEF Steps
<1>2. made' = made
  BY DEF Touch, sessionVars
<1>3. CASE handler[h].id \in sessions
  BY <1>1, <1>2, <1>3, MovesGoes DEF Touch
<1>4. CASE handler[h].id \notin sessions
  BY <1>2, <1>4, EndsGoes DEF Touch
<1> QED BY <1>3, <1>4

\* The session is written back.
LEMMA WriteBackForm ==
  ASSUME TypeOK, NEW h \in Handlers, WriteBack(h)
  PROVE  made' = made /\ Stops(h)
  BY EndsGoes DEF WriteBack, sessionVars

\* The password is changed.
LEMMA UpdatePasswordForm ==
  ASSUME TypeOK, NEW h \in Handlers, UpdatePassword(h)
  PROVE  LET s == handler[h] IN made' = made /\ Goes(h, s.op, "all", s.id, s.target, s.todo, s.seen)
<1>1. "all" \in Steps
  BY DEF Steps
<1>2. made' = made /\ Moves(h, "all")
  BY DEF UpdatePassword, sessionVars
<1> QED BY <1>1, <1>2, MovesGoes

\* The list of the sessions to end is read.
LEMMA ReadAllForm ==
  ASSUME TypeOK, NEW h \in Handlers, ReadAll(h)
  PROVE  LET s == handler[h] IN
    /\ made' = made
    /\ \/ list = <<>> /\ Stops(h)
       \/ list # <<>> /\ Goes(h, s.op, "get", s.id, Head(list), Tail(list), s.seen)
<1>1. made' = made
  BY DEF ReadAll, sessionVars
<1>2. CASE list = <<>>
  <2>1. Ends(h)
    BY <1>2 DEF ReadAll, Ends
  <2> QED BY <1>1, <1>2, <2>1, EndsGoes
<1>3. CASE list # <<>>
  <2>1. handler' = [handler EXCEPT ![h] =
           [handler[h] EXCEPT !.step = "get", !.target = Head(list), !.todo = Tail(list)]]
    BY <1>3 DEF ReadAll
  <2>2. Head(list) \in 1..Len(made) /\ Tail(list) \in Seq(1..Len(made))
    BY <1>3, TailList DEF TypeOK, IsList
  <2>3. Head(list) \in 0..Len(made)
    BY <2>2, Spread
  <2> QED BY <1>1, <1>3, <2>1, <2>2, <2>3, TargetsGoes
<1> QED BY <1>2, <1>3

\* The list is deleted.
LEMMA DeleteListForm ==
  ASSUME TypeOK, NEW h \in Handlers, DeleteList(h)
  PROVE  made' = made /\ Stops(h)
  BY EndsGoes DEF DeleteList, sessionVars

\* A call fails.
LEMMA StepFailsForm ==
  ASSUME TypeOK, NEW h \in Handlers, StepFails(h)
  PROVE  made' = made /\ Stops(h)
  BY EndsGoes DEF StepFails, sessionVars

\* A handler that takes a request.
LEMMA ServesGoes ==
  ASSUME TypeOK, NEW h \in Handlers, Len(made') \in Nat, Len(made) <= Len(made'),
         NEW op \in Ops, NEW step \in Steps, NEW id \in 0..Len(made'),
         Serves(h, op, step, id)
  PROVE  Goes(h, op, step, id, id, <<>>, <<>>)
<1>1. [Idle EXCEPT !.op = op, !.step = step, !.id = id, !.target = id]
        = Record(op, step, id, id, <<>>, <<>>)
  BY ServesRecord
<1>2. handler' = [handler EXCEPT ![h] = Record(op, step, id, id, <<>>, <<>>)]
  BY <1>1 DEF Serves
<1>3. <<>> \in Seq(1..Len(made'))
  OBVIOUS
<1> QED BY <1>2, <1>3, Put

\* A login creates a session.
LEMMA LoginForm ==
  ASSUME TypeOK, NEW h \in Handlers, NEW d \in Devices, Login(h, d)
  PROVE  LET n == Len(made) + 1 IN
         /\ made' \in Seq([device: Devices, password: 1..password])
         /\ Len(made') = n /\ n \in Nat /\ made'[n] = [device |-> d, password |-> password]
         /\ \A i \in 1..Len(made) : made'[i] = made[i]
         /\ Goes(h, "login", "device", n, n, <<>>, <<>>)
<1> DEFINE n == Len(made) + 1
           e == [device |-> d, password |-> password]
           E == [device: Devices, password: 1..password]
<1>1. made \in Seq(E) /\ password \in Nat /\ password # 0
  BY DEF TypeOK
<1>2. e \in E
  BY <1>1
<1>3. made' = Append(made, e) /\ Serves(h, "login", "device", n)
  BY DEF Login
<1> HIDE DEF e, E
<1>4. made' \in Seq(E) /\ Len(made') = n /\ n \in Nat /\ made'[n] = e
      /\ \A i \in 1..Len(made) : made'[i] = made[i]
  BY <1>1, <1>2, <1>3
<1>5. /\ Len(made') \in Nat /\ Len(made) <= Len(made') /\ n \in 0..Len(made')
      /\ "login" \in Ops /\ "device" \in Steps
  BY <1>1, <1>4 DEF Ops, Steps
<1> HIDE DEF n
<1>6. Goes(h, "login", "device", n, n, <<>>, <<>>)
  BY <1>3, <1>5, ServesGoes
<1> QED BY <1>4, <1>6 DEF e, E, n

\* A session is touched, or ended past its expiresAt.
LEMMA RefreshForm ==
  ASSUME TypeOK, NEW h \in Handlers, NEW id \in Ids, Refresh(h, id)
  PROVE  /\ made' = made /\ id \in 1..Len(made)
         /\ id \in sessions /\ HandedOut(id)
         /\ \/ Goes(h, "refresh", "touch", id, id, <<>>, <<>>)
            \/ Goes(h, "logout", "get", id, id, <<>>, <<>>)
<1>1. /\ "refresh" \in Ops /\ "logout" \in Ops /\ "touch" \in Steps /\ "get" \in Steps
  BY DEF Ops, Steps
<1>2. made' = made /\ id \in sessions /\ HandedOut(id)
  BY DEF Refresh, Valid, sessionVars
<1>3. id \in 1..Len(made) /\ id \in 0..Len(made')
  BY <1>2 DEF TypeOK
<1>4. Serves(h, "refresh", "touch", id) \/ Serves(h, "logout", "get", id)
  BY DEF Refresh
<1> QED BY <1>1, <1>2, <1>3, <1>4, Kept, ServesGoes

\* One session is ended, or all are.
LEMMA EndSessionsForm ==
  ASSUME TypeOK, NEW h \in Handlers, NEW id \in Ids, EndSessions(h, id)
  PROVE  /\ made' = made /\ id \in 1..Len(made)
         /\ id \in sessions /\ HandedOut(id)
         /\ \/ Goes(h, "logout", "get", id, id, <<>>, <<>>)
            \/ Goes(h, "endAll", "all", 0, 0, <<>>, <<>>)
            \/ Goes(h, "endAll", "update", 0, 0, <<>>, <<>>)
<1>1. /\ "logout" \in Ops /\ "endAll" \in Ops
      /\ "get" \in Steps /\ "all" \in Steps /\ "update" \in Steps
  BY DEF Ops, Steps
<1>2. made' = made /\ id \in sessions /\ HandedOut(id)
  BY DEF EndSessions, Valid, sessionVars
<1>3. id \in 1..Len(made) /\ id \in 0..Len(made') /\ 0 \in 0..Len(made')
  BY <1>2 DEF TypeOK
<1>4. \/ Serves(h, "logout", "get", id) \/ Serves(h, "endAll", "all", 0)
      \/ Serves(h, "endAll", "update", 0)
  BY DEF EndSessions
<1> QED BY <1>1, <1>2, <1>3, <1>4, Kept, ServesGoes

\* The password is reset.
LEMMA ResetForm ==
  ASSUME TypeOK, NEW h \in Handlers, ResetPassword(h)
  PROVE  made' = made /\ Goes(h, "endAll", "update", 0, 0, <<>>, <<>>)
<1>1. /\ "endAll" \in Ops /\ "update" \in Steps /\ made' = made
  BY DEF Ops, Steps, ResetPassword, sessionVars
<1>2. Serves(h, "endAll", "update", 0) /\ 0 \in 0..Len(made')
  BY <1>1 DEF ResetPassword, TypeOK
<1> QED BY <1>1, <1>2, Kept, ServesGoes

-----------------------------------------------------------------------------
(* Types                                                                   *)

\* The types of the handlers.
HandlerTypes ==
  /\ handler \in [Handlers -> State]
  /\ \A h \in Handlers : IsList(handler[h].todo) /\ IsList(handler[h].seen)

\* The types of all the rest.
DataTypes ==
  /\ password \in Nat \ {0} /\ token \in 0..requests
  /\ made \in Seq([device: Devices, password: 1..password])
  /\ Len(made) <= requests /\ expired \in 0..Len(made)
  /\ sessions \subseteq 1..Len(made) /\ IsList(list)
  /\ deviceKey \in [Devices -> 0..Len(made)]
  /\ revoked \subseteq Ids /\ races \subseteq Races
  /\ failures \in 0..MaxFailures /\ requests \in 0..MaxRequests

\* Together they are the type invariant.
LEMMA TypeParts == TypeOK <=> HandlerTypes /\ DataTypes
  BY DEF TypeOK, HandlerTypes, DataTypes

\* So they are after a step.
LEMMA TypePartsNext == ASSUME HandlerTypes', DataTypes' PROVE TypeOK'
  BY DEF TypeOK, HandlerTypes, DataTypes

\* A list stays one while sessions are added.
LEMMA ListLonger ==
  ASSUME Len(made) \in Nat, Len(made') \in Nat, Len(made) <= Len(made'), NEW l, IsList(l)
  PROVE  l \in Seq(1..Len(made')) /\ Distinct(l)
<1>1. 1..Len(made) \subseteq 1..Len(made')
  OBVIOUS
<1>2. \A S, T : S \subseteq T => Seq(S) \subseteq Seq(T)
  OBVIOUS
<1> QED BY <1>1, <1>2 DEF IsList

\* A handler that goes on keeps the types.
LEMMA GoesType ==
  ASSUME TypeOK, NEW h \in Handlers, Len(made') \in Nat, Len(made) <= Len(made'),
         NEW op, NEW step, NEW id, NEW target, NEW todo, NEW seen,
         Goes(h, op, step, id, target, todo, seen),
         todo \in Seq(1..Len(made')), Distinct(todo),
         seen \in Seq(1..Len(made')), Distinct(seen)
  PROVE  HandlerTypes'
<1>1. handler' \in [Handlers -> State']
  BY DEF Goes
<1>2. ASSUME NEW g \in Handlers
      PROVE  /\ handler'[g].todo \in Seq(1..Len(made')) /\ Distinct(handler'[g].todo)
             /\ handler'[g].seen \in Seq(1..Len(made')) /\ Distinct(handler'[g].seen)
  <2>1. CASE g = h
    BY <2>1 DEF Goes
  <2>2. CASE g # h
    <3>1. IsList(handler[g].todo) /\ IsList(handler[g].seen) /\ Len(made) \in Nat
      BY Spread DEF TypeOK
    <3>2. handler'[g] = handler[g]
      BY <2>2 DEF Goes
    <3> QED BY <3>1, <3>2, ListLonger
  <2> QED BY <2>1, <2>2
<1> QED BY <1>1, <1>2 DEF HandlerTypes, IsList

\* The lists that a handler has and may read.
LEMMA OwnLists ==
  ASSUME TypeOK, made' = made, NEW h \in Handlers
  PROVE  /\ Len(made') \in Nat /\ Len(made) <= Len(made')
         /\ handler[h].todo \in Seq(1..Len(made')) /\ Distinct(handler[h].todo)
         /\ handler[h].seen \in Seq(1..Len(made')) /\ Distinct(handler[h].seen)
         /\ list \in Seq(1..Len(made')) /\ Distinct(list)
         /\ <<>> \in Seq(1..Len(made')) /\ Distinct(<<>>)
<1>1. Len(made') \in Nat /\ Len(made) <= Len(made')
  BY Kept
<1>2. IsList(handler[h].todo) /\ IsList(handler[h].seen) /\ IsList(list)
  BY DEF TypeOK
<1>3. <<>> \in Seq(1..Len(made'))
  OBVIOUS
<1> QED BY <1>1, <1>2, <1>3, EmptyList DEF IsList

\* A handler that is done keeps them.
LEMMA StopsType ==
  ASSUME TypeOK, made' = made, NEW h \in Handlers, Stops(h)
  PROVE  HandlerTypes'
  BY OwnLists, GoesType DEF Stops

\* A handler that has ended a session keeps them.
LEMMA ReturnedType ==
  ASSUME TypeOK, made' = made, NEW h \in Handlers, Returned(h)
  PROVE  HandlerTypes'
<1> DEFINE s == handler[h]
<1>1. CASE Goes(h, "login", "store", s.id, s.target, s.todo, s.seen)
  BY <1>1, OwnLists, GoesType
<1>2. CASE Stops(h)
  BY <1>2, StopsType
<1>3. CASE Goes(h, s.op, "delList", s.id, s.target, s.todo, s.seen)
  BY <1>3, OwnLists, GoesType
<1>4. CASE s.todo # <<>> /\ Goes(h, s.op, "get", s.id, Head(s.todo), Tail(s.todo), s.seen)
  <2>1. Tail(s.todo) \in Seq(1..Len(made')) /\ Distinct(Tail(s.todo))
    BY <1>4, OwnLists, TailList
  <2> QED BY <1>4, <2>1, OwnLists, GoesType
<1> QED BY <1>1, <1>2, <1>3, <1>4 DEF Returned

\* Every step of a request keeps the types of the handlers.
LEMMA ServeHandlerTypes ==
  ASSUME TypeOK, HandlersInv, NEW h \in Handlers, Serve(h)
  PROVE  HandlerTypes'
<1> DEFINE s == handler[h]
<1>1. CASE GetSession(h)
  <2>1. made' = made
    BY <1>1, GetSessionForm
  <2>2. CASE Returned(h)
    BY <2>1, <2>2, ReturnedType
  <2>3. CASE Goes(h, s.op, "del", s.id, s.target, s.todo, s.seen)
    BY <2>1, <2>3, OwnLists, GoesType
  <2> QED BY <1>1, <2>2, <2>3, GetSessionForm
<1>2. CASE DeleteSession(h)
  BY <1>2, DeleteSessionForm, OwnLists, GoesType
<1>3. CASE ReadList(h)
  BY <1>3, ReadListForm, OwnLists, GoesType
<1>4. CASE RemoveFromList(h)
  BY <1>4, RemoveFromListForm, OwnLists, GoesType
<1>5. CASE DeleteDeviceKey(h)
  BY <1>5, DeleteDeviceKeyForm, ReturnedType
<1>6. CASE GetDeviceKey(h)
  <2>1. made' = made
    BY <1>6, GetDeviceKeyForm
  <2>2. CASE Goes(h, s.op, "store", s.id, s.target, s.todo, s.seen)
    BY <2>1, <2>2, OwnLists, GoesType
  <2>3. CASE Goes(h, s.op, "get", s.id, deviceKey[DeviceOf(s.id)], s.todo, s.seen)
    BY <2>1, <2>3, OwnLists, GoesType
  <2> QED BY <1>6, <2>2, <2>3, GetDeviceKeyForm
<1>7. CASE StoreSession(h)
  BY <1>7, StoreSessionForm, OwnLists, GoesType
<1>8. CASE ReadListToTrack(h)
  BY <1>8, ReadListToTrackForm, OwnLists, GoesType
<1>9. CASE Track(h)
  BY <1>9, TrackForm, OwnLists, GoesType
<1>10. CASE SetDeviceKey(h)
  BY <1>10, SetDeviceKeyForm, StopsType
<1>11. CASE Touch(h)
  <2>1. made' = made
    BY <1>11, TouchForm
  <2>2. CASE Stops(h)
    BY <2>1, <2>2, StopsType
  <2>3. CASE Goes(h, s.op, "touchSet", s.id, s.target, s.todo, s.seen)
    BY <2>1, <2>3, OwnLists, GoesType
  <2> QED BY <1>11, <2>2, <2>3, TouchForm
<1>12. CASE WriteBack(h)
  BY <1>12, WriteBackForm, StopsType
<1>13. CASE UpdatePassword(h)
  BY <1>13, UpdatePasswordForm, OwnLists, GoesType
<1>14. CASE ReadAll(h)
  <2>1. made' = made
    BY <1>14, ReadAllForm
  <2>2. CASE Stops(h)
    BY <2>1, <2>2, StopsType
  <2>3. CASE list # <<>> /\ Goes(h, s.op, "get", s.id, Head(list), Tail(list), s.seen)
    <3>1. Tail(list) \in Seq(1..Len(made')) /\ Distinct(Tail(list))
      BY <2>1, <2>3, OwnLists, TailList
    <3> QED BY <2>1, <2>3, <3>1, OwnLists, GoesType
  <2> QED BY <1>14, <2>2, <2>3, ReadAllForm
<1>15. CASE DeleteList(h)
  BY <1>15, DeleteListForm, StopsType
<1>16. CASE StepFails(h)
  BY <1>16, StepFailsForm, StopsType
<1> QED BY <1>1, <1>2, <1>3, <1>4, <1>5, <1>6, <1>7, <1>8, <1>9, <1>10, <1>11, <1>12, <1>13, <1>14,
           <1>15, <1>16 DEF Serve

\* A step that leaves the keys alone keeps their types.
LEMMA SameTypes ==
  ASSUME DataTypes, UNCHANGED <<password, token, made, expired, sessions, list, deviceKey>>,
         UNCHANGED revoked, races' \subseteq Races, failures' \in 0..MaxFailures,
         requests' = requests
  PROVE  DataTypes'
  BY DEF DataTypes, IsList

\* What overtook what is added to the history.
LEMMA NewRace ==
  ASSUME DataTypes, NEW race \in Races, NEW happened, Records(race, happened)
  PROVE  races' \subseteq Races /\ races \subseteq races' /\ (happened => race \in races')
  BY DEF DataTypes, Records

\* The session of a refresh.
LEMMA RefreshId ==
  ASSUME TypeOK, HandlersInv, NEW h \in Handlers, handler[h].step \in {"touch", "touchSet"}
  PROVE  handler[h].op = "refresh" /\ handler[h].id \in 1..Len(made)
<1>1. handler[h].op \in Ops /\ handler[h].step \in StepsOf(handler[h].op)
  BY Spread DEF HandlersInv
<1>2. handler[h].op = "refresh"
  BY <1>1 DEF Ops, StepsOf, InvalidateSteps, BeforeTrack, BeforeStore
<1>3. handler[h].id \in 0..Len(made) /\ handler[h].id # 0
  BY <1>2, Spread DEF HandlersInv
<1> QED BY <1>2, <1>3

\* Every step of a request keeps the types of the keys: what is tracked was in no list.
LEMMA ServeDataTypes ==
  ASSUME TypeOK, HandlersInv, LoginsInv, NEW h \in Handlers, Serve(h)
  PROVE  DataTypes'
<1> DEFINE s == handler[h]
<1>0. DataTypes
  BY TypeParts
<1>a. "login" \in Races /\ "list" \in Races /\ "all" \in Races /\ "device" \in Races
      /\ "touch" \in Races /\ "credential" \in Races
  BY DEF Races
<1>1. CASE GetSession(h)
  BY <1>1, <1>0 DEF GetSession, DataTypes, IsList, userVars, sessionVars, redisVars, budgets
<1>2. CASE DeleteSession(h)
  BY <1>2, <1>0 DEF DeleteSession, DataTypes, IsList, userVars, sessionVars, budgets
<1>3. CASE ReadList(h)
  BY <1>3, <1>0 DEF ReadList, DataTypes, IsList, userVars, sessionVars, redisVars, budgets
<1>4. CASE RemoveFromList(h)
  <2>1. races' \subseteq Races
    BY <1>4, <1>0, <1>a, NewRace DEF RemoveFromList
  <2>2. list' = Without(s.seen, s.target) /\ made' = made
    BY <1>4 DEF RemoveFromList, sessionVars
  <2>3. IsList(list)'
    BY <2>2, OwnLists, WithoutList DEF IsList
  <2> QED BY <1>4, <1>0, <2>1, <2>3 DEF RemoveFromList, DataTypes, userVars, sessionVars, budgets
<1>5. CASE DeleteDeviceKey(h)
  <2>1. races' \subseteq Races
    BY <1>5, <1>0, <1>a, NewRace DEF DeleteDeviceKey
  <2>2. deviceKey' \in [Devices -> 0..Len(made)]
    <3> DEFINE d == made[s.target].device
    <3>1. deviceKey' = [deviceKey EXCEPT ![d] = 0]
      BY <1>5 DEF DeleteDeviceKey
    <3>2. deviceKey \in [Devices -> 0..Len(made)] /\ 0 \in 0..Len(made)
      BY <1>0 DEF DataTypes
    <3> HIDE DEF d
    <3> QED BY <3>1, <3>2
  <2> QED BY <1>5, <1>0, <2>1, <2>2
          DEF DeleteDeviceKey, DataTypes, IsList, userVars, sessionVars, budgets
<1>6. CASE GetDeviceKey(h)
  BY <1>6, <1>0 DEF GetDeviceKey, DataTypes, IsList, userVars, sessionVars, redisVars, budgets
<1>7. CASE StoreSession(h)
  <2>1. s.id \in 1..Len(made)
    BY <1>7, LoginId DEF StoreSession, At
  <2> QED BY <1>7, <1>0, <2>1 DEF StoreSession, DataTypes, IsList, userVars, sessionVars, budgets
<1>8. CASE ReadListToTrack(h)
  BY <1>8, <1>0 DEF ReadListToTrack, DataTypes, IsList, userVars, sessionVars, redisVars, budgets
<1>9. CASE Track(h)
  <2>1. races' \subseteq Races
    BY <1>9, <1>0, <1>a, NewRace DEF Track
  <2>2. list' = Append(s.seen, s.id) /\ made' = made
    BY <1>9 DEF Track, sessionVars
  <2>3. s.id \in 1..Len(made') /\ s.id \notin ListedIn(s.seen)
    BY <1>9, <2>2, LoginId DEF Track, At, LoginsInv, Unlisted, BeforeTrack
  <2>4. IsList(list)'
    BY <2>2, <2>3, OwnLists, AppendList DEF IsList
  <2> QED BY <1>9, <1>0, <2>1, <2>4 DEF Track, DataTypes, userVars, sessionVars, budgets
<1>10. CASE SetDeviceKey(h)
  <2>1. s.id \in 1..Len(made)
    BY <1>10, LoginId DEF SetDeviceKey, At
  <2>2. deviceKey' \in [Devices -> 0..Len(made)]
    <3> DEFINE d == made[s.id].device  i == s.id
    <3>1. deviceKey' = [deviceKey EXCEPT ![d] = i]
      BY <1>10 DEF SetDeviceKey
    <3>2. deviceKey \in [Devices -> 0..Len(made)] /\ i \in 0..Len(made)
      BY <1>0, <2>1 DEF DataTypes
    <3> HIDE DEF d, i
    <3> QED BY <3>1, <3>2
  <2> QED BY <1>10, <1>0, <2>2 DEF SetDeviceKey, DataTypes, IsList, userVars, sessionVars, budgets
<1>11. CASE Touch(h)
  BY <1>11, <1>0 DEF Touch, DataTypes, IsList, userVars, sessionVars, redisVars, budgets
<1>12. CASE WriteBack(h)
  <2>1. races' \subseteq Races
    BY <1>12, <1>0, <1>a, NewRace DEF WriteBack
  <2>2. s.id \in 1..Len(made)
    BY <1>12, RefreshId DEF WriteBack, At
  <2> QED BY <1>12, <1>0, <2>1, <2>2
          DEF WriteBack, DataTypes, IsList, userVars, sessionVars, budgets
<1>13. CASE UpdatePassword(h)
  <2>1. races' \subseteq Races
    BY <1>13, <1>0, <1>a, NewRace DEF UpdatePassword
  <2>2. password' = password + 1 /\ token' = 0 /\ made' = made /\ requests' = requests
    BY <1>13 DEF UpdatePassword, sessionVars, budgets
  <2>3. made' \in Seq([device: Devices, password: 1..password'])
    <3> DEFINE D == [device: Devices, password: 1..password]
               E == [device: Devices, password: 1..password']
    <3>1. 1..password \subseteq 1..password'
      BY <1>0, <2>2 DEF DataTypes
    <3>2. D \subseteq E
      BY <3>1
    <3>3. made \in Seq(D)
      BY <1>0 DEF DataTypes
    <3> HIDE DEF D, E
    <3>4. made \in Seq(E)
      BY <3>2, <3>3
    <3> QED BY <3>4, <2>2 DEF E
  <2>4. password' \in Nat \ {0} /\ token' \in 0..requests'
    BY <1>0, <2>2 DEF DataTypes
  <2> QED BY <1>13, <1>0, <2>1, <2>2, <2>3, <2>4
           DEF UpdatePassword, DataTypes, IsList, sessionVars, redisVars, budgets
<1>14. CASE ReadAll(h)
  BY <1>14, <1>0 DEF ReadAll, DataTypes, IsList, userVars, sessionVars, redisVars, budgets
<1>15. CASE DeleteList(h)
  <2>1. races' \subseteq Races
    BY <1>15, <1>0, <1>a, NewRace DEF DeleteList
  <2>2. list' = <<>> /\ made' = made
    BY <1>15 DEF DeleteList, sessionVars
  <2>3. IsList(list)'
    BY <2>2, OwnLists DEF IsList
  <2> QED BY <1>15, <1>0, <2>1, <2>3 DEF DeleteList, DataTypes, userVars, sessionVars, budgets
<1>16. CASE StepFails(h)
  BY <1>16, <1>0, BoundAssumption
  DEF StepFails, DataTypes, IsList, userVars, sessionVars, redisVars, budgets
<1> QED BY <1>1, <1>2, <1>3, <1>4, <1>5, <1>6, <1>7, <1>8, <1>9, <1>10, <1>11, <1>12, <1>13, <1>14,
           <1>15, <1>16 DEF Serve

\* A request that arrives keeps the types.
LEMMA ArriveTypes ==
  ASSUME TypeOK, NEW h \in Handlers, Arrive(h)
  PROVE  TypeOK'
<1>0. DataTypes /\ HandlerTypes
  BY TypeParts
<1>a. requests' = requests + 1 /\ requests < MaxRequests /\ failures' = failures
  BY DEF Arrive, Receive, Login, Refresh, EndSessions, RevokeSession, ForgotPassword, ResetPassword
<1>b. requests' \in 0..MaxRequests /\ token \in 0..requests' /\ requests' \in 0..requests'
      /\ Len(made) <= requests' /\ Len(made) + 1 <= requests'
  <2>1. requests \in Nat /\ requests <= MaxRequests /\ MaxRequests \in Nat
        /\ Len(made) \in Nat /\ Len(made) <= requests /\ token \in 0..requests
    BY <1>0, BoundAssumption DEF DataTypes
  <2> QED BY <1>a, <2>1
<1>1. ASSUME NEW d \in Devices, Login(h, d) PROVE TypeOK'
  <2> DEFINE n == Len(made) + 1
  <2>1. /\ made' \in Seq([device: Devices, password: 1..password])
        /\ Len(made') = n /\ n \in Nat /\ Goes(h, "login", "device", n, n, <<>>, <<>>)
        /\ Len(made) \in Nat
    BY <1>1, LoginForm, Spread
  <2>2. races' \subseteq Races
    <3>1. "login" \in Races
      BY DEF Races
    <3> QED BY <1>0, <1>1, <3>1, NewRace DEF Login
  <2>3. 0..Len(made) \subseteq 0..Len(made') /\ 1..Len(made) \subseteq 1..Len(made')
    BY <2>1
  <2>4. IsList(list)'
    BY <1>0, <1>1, <2>1, ListLonger DEF DataTypes, Login, redisVars, IsList
  <2>5. DataTypes'
    BY <1>0, <1>1, <1>a, <1>b, <2>1, <2>2, <2>3, <2>4 DEF DataTypes, Login, userVars, redisVars
  <2>6. HandlerTypes'
    <3>1. <<>> \in Seq(1..Len(made')) /\ Distinct(<<>>)
      BY EmptyList
    <3>2. Len(made') \in Nat /\ Len(made) <= Len(made')
      BY <2>1
    <3> QED BY <2>1, <3>1, <3>2, GoesType
  <2> QED BY <2>5, <2>6, TypePartsNext
<1>2. ASSUME NEW id \in Ids, Refresh(h, id) PROVE TypeOK'
  <2>1. DataTypes'
    BY <1>0, <1>2, <1>a, <1>b DEF DataTypes, Refresh, IsList, userVars, sessionVars, redisVars
  <2>2. HandlerTypes'
    BY <1>2, RefreshForm, OwnLists, GoesType
  <2> QED BY <2>1, <2>2, TypePartsNext
<1>3. ASSUME NEW id \in Ids, EndSessions(h, id) PROVE TypeOK'
  <2>1. DataTypes'
    BY <1>0, <1>3, <1>a, <1>b DEF DataTypes, EndSessions, IsList, userVars, sessionVars, redisVars
  <2>2. HandlerTypes'
    BY <1>3, EndSessionsForm, OwnLists, GoesType
  <2> QED BY <2>1, <2>2, TypePartsNext
<1>4. ASSUME NEW id \in Ids, RevokeSession(h, id) PROVE TypeOK'
  <2>1. DataTypes'
    BY <1>0, <1>4, <1>a, <1>b DEF DataTypes, RevokeSession, IsList, userVars, sessionVars, redisVars
  <2>2. HandlerTypes'
    BY <1>0, <1>4 DEF HandlerTypes, RevokeSession, State, IsList, sessionVars
  <2> QED BY <2>1, <2>2, TypePartsNext
<1>5. CASE ForgotPassword(h)
  <2>1. DataTypes'
    BY <1>0, <1>5, <1>a, <1>b
    DEF DataTypes, ForgotPassword, IsList, userVars, sessionVars, redisVars
  <2>2. HandlerTypes'
    BY <1>0, <1>5 DEF HandlerTypes, ForgotPassword, State, IsList, sessionVars
  <2> QED BY <2>1, <2>2, TypePartsNext
<1>6. CASE ResetPassword(h)
  <2>1. DataTypes'
    BY <1>0, <1>6, <1>a, <1>b DEF DataTypes, ResetPassword, IsList, userVars, sessionVars, redisVars
  <2>2. HandlerTypes'
    BY <1>6, ResetForm, OwnLists, GoesType
  <2> QED BY <2>1, <2>2, TypePartsNext
<1> QED BY <1>1, <1>2, <1>3, <1>4, <1>5, <1>6 DEF Arrive

\* Every step keeps the types.
LEMMA TypeStep ==
  ASSUME TypeOK, HandlersInv, LoginsInv, [Next]_vars
  PROVE  TypeOK'
<1>1. CASE Expire
  <2>0. HandlerTypes'
    BY <1>1, TypeParts DEF HandlerTypes, Expire, State, IsList
  <2>1. /\ expired' = expired + 1 /\ expired < Len(made) /\ made' = made /\ list' = list
        /\ sessions' \subseteq sessions /\ handler' = handler /\ deviceKey' \in [Devices -> 0..Len(made)]
        /\ UNCHANGED <<password, token, revoked, races, failures, requests>>
    BY <1>1 DEF Expire, TypeOK, userVars, budgets
  <2>2. expired' \in 0..Len(made)
    BY <2>1 DEF TypeOK
  <2>3. DataTypes'
    BY <2>1, <2>2, TypeParts DEF DataTypes, IsList
  <2> QED BY <2>0, <2>3, TypePartsNext
<1>2. CASE UNCHANGED vars
  BY <1>2 DEF TypeOK, State, IsList, vars
<1>3. ASSUME NEW h \in Handlers, Serve(h) PROVE TypeOK'
  BY <1>3, ServeHandlerTypes, ServeDataTypes, TypePartsNext
<1> QED BY <1>1, <1>2, <1>3, ArriveTypes DEF Next

-----------------------------------------------------------------------------
(* HandlersInv                                                             *)

\* Which requests a step belongs to.
LEMMA OpSteps ==
  ASSUME TypeOK, HandlersInv, NEW h \in Handlers
  PROVE  LET s == handler[h] IN
         /\ s.op \in {"none", "login", "refresh", "logout", "endAll"}
         /\ s.step \in StepsOf(s.op)
         /\ s.step \in {"update", "all", "delList"} => s.op = "endAll"
         /\ s.step \in InvalidateSteps => s.op \in {"login", "logout", "endAll"} /\ s.target # 0
<1>1. /\ handler[h].op \in Ops /\ handler[h].step \in StepsOf(handler[h].op)
      /\ Ending(h) => handler[h].target # 0
  BY Spread DEF HandlersInv
<1> QED BY <1>1 DEF Ops, StepsOf, InvalidateSteps, BeforeTrack, BeforeStore, Ending

\* A handler that goes on to a step of its request keeps HandlersInv.
LEMMA GoesHandlers ==
  ASSUME TypeOK, HandlersInv, NEW h \in Handlers, NEW op, NEW step, NEW id, NEW target,
         NEW todo, NEW seen, Goes(h, op, step, id, target, todo, seen),
         step \in StepsOf(op), op = "login" => id > expired,
         step \in InvalidateSteps => target # 0, op = "refresh" => id # 0,
         expired' = expired
  PROVE  HandlersInv'
<1> SUFFICES ASSUME NEW g \in Handlers
             PROVE  /\ handler'[g].step \in StepsOf(handler'[g].op)
                    /\ handler'[g].op = "login" => handler'[g].id > expired
                    /\ handler'[g].step \in InvalidateSteps => handler'[g].target # 0
                    /\ handler'[g].op = "refresh" => handler'[g].id # 0
  BY DEF HandlersInv, LogsIn, Ending
<1>1. CASE g = h
  BY <1>1 DEF Goes
<1>2. CASE g # h
  BY <1>2 DEF Goes, HandlersInv, LogsIn, Ending
<1> QED BY <1>1, <1>2

\* A handler that is done keeps it.
LEMMA StopsHandlers ==
  ASSUME TypeOK, HandlersInv, NEW h \in Handlers, Stops(h), expired' = expired
  PROVE  HandlersInv'
<1>1. "idle" \in StepsOf("none") /\ "idle" \notin InvalidateSteps
  BY DEF StepsOf, InvalidateSteps
<1> QED BY <1>1, GoesHandlers DEF Stops

\* What HandlersInv says of one handler.
LEMMA OwnHandler ==
  ASSUME TypeOK, HandlersInv, NEW h \in Handlers
  PROVE  /\ handler[h].op = "login" => handler[h].id > expired
         /\ handler[h].op = "refresh" => handler[h].id # 0
         /\ handler[h].step \in InvalidateSteps => handler[h].target # 0
  BY DEF HandlersInv, LogsIn, Ending

\* A handler that has ended a session keeps it.
LEMMA ReturnedHandlers ==
  ASSUME TypeOK, HandlersInv, NEW h \in Handlers, Returned(h), Ending(h), expired' = expired
  PROVE  HandlersInv'
<1> DEFINE s == handler[h]
<1>0. s.op \in {"login", "logout", "endAll"}
  BY OpSteps DEF Ending
<1>1. CASE s.op = "login" /\ Goes(h, "login", "store", s.id, s.target, s.todo, s.seen)
  <2>1. "store" \in StepsOf("login") /\ "store" \notin InvalidateSteps
    BY DEF StepsOf, InvalidateSteps, BeforeTrack, BeforeStore
  <2> QED BY <1>1, <2>1, OwnHandler, GoesHandlers
<1>2. CASE Stops(h)
  BY <1>2, StopsHandlers
<1>3. CASE s.op = "endAll" /\ Goes(h, s.op, "delList", s.id, s.target, s.todo, s.seen)
  <2>1. "delList" \in StepsOf("endAll") /\ "delList" \notin InvalidateSteps
    BY DEF StepsOf, InvalidateSteps
  <2> QED BY <1>3, <2>1, GoesHandlers
<1>4. CASE /\ s.op = "endAll" /\ s.todo # <<>>
           /\ Goes(h, s.op, "get", s.id, Head(s.todo), Tail(s.todo), s.seen)
  <2>1. "get" \in StepsOf("endAll")
    BY DEF StepsOf, InvalidateSteps
  <2>2. Head(s.todo) # 0
    <3>1. Head(s.todo) \in 1..Len(made) /\ Len(made) \in Nat
      BY <1>4, Spread, TailList
    <3> QED BY <3>1
  <2> QED BY <1>4, <2>1, <2>2, GoesHandlers
<1> QED BY <1>0, <1>1, <1>2, <1>3, <1>4 DEF Returned

\* Every step of a request keeps it.
LEMMA ServeHandlers ==
  ASSUME TypeOK, HandlersInv, NEW h \in Handlers, Serve(h)
  PROVE  HandlersInv'
<1> DEFINE s == handler[h]
<1>0. expired' = expired
  BY DEF Serve, GetSession, DeleteSession, ReadList, RemoveFromList, DeleteDeviceKey,
         GetDeviceKey, StoreSession, ReadListToTrack, Track, SetDeviceKey, Touch, WriteBack,
         UpdatePassword, ReadAll, DeleteList, StepFails, sessionVars
<1>a. /\ s.op \in {"none", "login", "refresh", "logout", "endAll"} /\ s.step \in StepsOf(s.op)
      /\ s.step \in {"update", "all", "delList"} => s.op = "endAll"
      /\ s.step \in InvalidateSteps => s.op \in {"login", "logout", "endAll"} /\ s.target # 0
  BY OpSteps
<1>b. /\ s.op = "login" => s.id > expired
      /\ s.op = "refresh" => s.id # 0
  BY OwnHandler
<1>1. CASE GetSession(h)
  <2>1. s.step = "get" /\ "get" \in InvalidateSteps
    BY <1>1 DEF GetSession, At, InvalidateSteps
  <2>2. CASE Returned(h)
    BY <1>0, <2>1, <2>2, ReturnedHandlers DEF Ending
  <2>3. CASE Goes(h, s.op, "del", s.id, s.target, s.todo, s.seen)
    <3>1. "del" \in StepsOf(s.op)
      BY <1>a, <2>1 DEF StepsOf, InvalidateSteps, BeforeTrack, BeforeStore
    <3> QED BY <1>0, <1>a, <1>b, <2>1, <2>3, <3>1, GoesHandlers
  <2> QED BY <1>1, <2>2, <2>3, GetSessionForm
<1>2. CASE DeleteSession(h)
  <2>1. s.step = "del"
    BY <1>2 DEF DeleteSession, At
  <2>2. "listGet" \in StepsOf(s.op) /\ ("listGet" \in InvalidateSteps => s.target # 0)
    BY <1>a, <2>1 DEF StepsOf, InvalidateSteps, BeforeTrack, BeforeStore
  <2>3. Goes(h, s.op, "listGet", s.id, s.target, s.todo, s.seen)
    BY <1>2, DeleteSessionForm
  <2> QED BY <1>0, <1>b, <2>2, <2>3, GoesHandlers
<1>3. CASE ReadList(h)
  <2>1. s.step = "listGet"
    BY <1>3 DEF ReadList, At
  <2>2. "listSet" \in StepsOf(s.op) /\ ("listSet" \in InvalidateSteps => s.target # 0)
    BY <1>a, <2>1 DEF StepsOf, InvalidateSteps, BeforeTrack, BeforeStore
  <2>3. Goes(h, s.op, "listSet", s.id, s.target, s.todo, list)
    BY <1>3, ReadListForm
  <2> QED BY <1>0, <1>b, <2>2, <2>3, GoesHandlers
<1>4. CASE RemoveFromList(h)
  <2>1. s.step = "listSet"
    BY <1>4 DEF RemoveFromList, At
  <2>2. "delDevice" \in StepsOf(s.op) /\ ("delDevice" \in InvalidateSteps => s.target # 0)
    BY <1>a, <2>1 DEF StepsOf, InvalidateSteps, BeforeTrack, BeforeStore
  <2>3. Goes(h, s.op, "delDevice", s.id, s.target, s.todo, <<>>)
    BY <1>4, RemoveFromListForm
  <2> QED BY <1>0, <1>b, <2>2, <2>3, GoesHandlers
<1>5. CASE DeleteDeviceKey(h)
  <2>1. s.step = "delDevice" /\ "delDevice" \in InvalidateSteps
    BY <1>5 DEF DeleteDeviceKey, At, InvalidateSteps
  <2> QED BY <1>0, <1>5, <2>1, DeleteDeviceKeyForm, ReturnedHandlers DEF Ending
<1>6. CASE GetDeviceKey(h)
  <2>1. s.step = "device" /\ s.op = "login"
    BY <1>a, <1>6 DEF GetDeviceKey, At, StepsOf, InvalidateSteps, BeforeTrack, BeforeStore
  <2>2. "store" \in StepsOf("login") /\ "get" \in StepsOf("login") /\ "store" \notin InvalidateSteps
    BY DEF StepsOf, InvalidateSteps, BeforeTrack, BeforeStore
  <2>3. CASE Goes(h, s.op, "store", s.id, s.target, s.todo, s.seen)
    BY <1>0, <1>b, <2>1, <2>2, <2>3, GoesHandlers
  <2>4. CASE /\ deviceKey[DeviceOf(s.id)] # 0
             /\ Goes(h, s.op, "get", s.id, deviceKey[DeviceOf(s.id)], s.todo, s.seen)
    BY <1>0, <1>b, <2>1, <2>2, <2>4, GoesHandlers
  <2> QED BY <1>6, <2>3, <2>4, GetDeviceKeyForm
<1>7. CASE StoreSession(h)
  <2>1. s.step = "store"
    BY <1>7 DEF StoreSession, At
  <2>2. "trackGet" \in StepsOf(s.op) /\ ("trackGet" \in InvalidateSteps => s.target # 0)
    BY <1>a, <2>1 DEF StepsOf, InvalidateSteps, BeforeTrack, BeforeStore
  <2>3. Goes(h, s.op, "trackGet", s.id, s.target, s.todo, s.seen)
    BY <1>7, StoreSessionForm
  <2> QED BY <1>0, <1>b, <2>2, <2>3, GoesHandlers
<1>8. CASE ReadListToTrack(h)
  <2>1. s.step = "trackGet"
    BY <1>8 DEF ReadListToTrack, At
  <2>2. "trackSet" \in StepsOf(s.op) /\ ("trackSet" \in InvalidateSteps => s.target # 0)
    BY <1>a, <2>1 DEF StepsOf, InvalidateSteps, BeforeTrack, BeforeStore
  <2>3. Goes(h, s.op, "trackSet", s.id, s.target, s.todo, list)
    BY <1>8, ReadListToTrackForm
  <2> QED BY <1>0, <1>b, <2>2, <2>3, GoesHandlers
<1>9. CASE Track(h)
  <2>1. s.step = "trackSet"
    BY <1>9 DEF Track, At
  <2>2. "map" \in StepsOf(s.op) /\ ("map" \in InvalidateSteps => s.target # 0)
    BY <1>a, <2>1 DEF StepsOf, InvalidateSteps, BeforeTrack, BeforeStore
  <2>3. Goes(h, s.op, "map", s.id, s.target, s.todo, <<>>)
    BY <1>9, TrackForm
  <2> QED BY <1>0, <1>b, <2>2, <2>3, GoesHandlers
<1>10. CASE SetDeviceKey(h)
  BY <1>0, <1>10, SetDeviceKeyForm, StopsHandlers
<1>11. CASE Touch(h)
  <2>1. s.step = "touch" /\ s.op = "refresh"
    BY <1>a, <1>11 DEF Touch, At, StepsOf, InvalidateSteps, BeforeTrack, BeforeStore
  <2>2. "touchSet" \in StepsOf("refresh") /\ "touchSet" \notin InvalidateSteps
    BY DEF StepsOf, InvalidateSteps, BeforeTrack, BeforeStore
  <2>3. CASE Goes(h, s.op, "touchSet", s.id, s.target, s.todo, s.seen)
    BY <1>0, <1>b, <2>1, <2>2, <2>3, GoesHandlers
  <2>4. CASE Stops(h)
    BY <1>0, <2>4, StopsHandlers
  <2> QED BY <1>11, <2>3, <2>4, TouchForm
<1>12. CASE WriteBack(h)
  BY <1>0, <1>12, WriteBackForm, StopsHandlers
<1>13. CASE UpdatePassword(h)
  <2>1. s.step = "update"
    BY <1>13 DEF UpdatePassword, At
  <2>2. "all" \in StepsOf(s.op) /\ ("all" \in InvalidateSteps => s.target # 0)
    BY <1>a, <2>1 DEF StepsOf, InvalidateSteps, BeforeTrack, BeforeStore
  <2>3. Goes(h, s.op, "all", s.id, s.target, s.todo, s.seen)
    BY <1>13, UpdatePasswordForm
  <2> QED BY <1>0, <1>b, <2>2, <2>3, GoesHandlers
<1>14. CASE ReadAll(h)
  <2>1. s.step = "all" /\ s.op = "endAll"
    BY <1>a, <1>14 DEF ReadAll, At
  <2>2. "get" \in StepsOf("endAll")
    BY DEF StepsOf, InvalidateSteps, BeforeTrack, BeforeStore
  <2>3. CASE list # <<>> /\ Goes(h, s.op, "get", s.id, Head(list), Tail(list), s.seen)
    <3>1. list \in Seq(1..Len(made)) /\ Len(made) \in Nat
      BY Spread DEF TypeOK, IsList
    <3>2. Head(list) \in 1..Len(made)
      BY <2>3, <3>1, TailList
    <3>3. Head(list) # 0
      BY <3>1, <3>2
    <3> QED BY <1>0, <2>1, <2>2, <2>3, <3>3, GoesHandlers
  <2>4. CASE Stops(h)
    BY <1>0, <2>4, StopsHandlers
  <2> QED BY <1>14, <2>3, <2>4, ReadAllForm
<1>15. CASE DeleteList(h)
  BY <1>0, <1>15, DeleteListForm, StopsHandlers
<1>16. CASE StepFails(h)
  BY <1>0, <1>16, StepFailsForm, StopsHandlers
<1> QED BY <1>1, <1>2, <1>3, <1>4, <1>5, <1>6, <1>7, <1>8, <1>9, <1>10, <1>11, <1>12, <1>13, <1>14,
           <1>15, <1>16 DEF Serve

\* Every step keeps HandlersInv.
LEMMA HandlersStep ==
  ASSUME TypeOK, HandlersInv, [Next]_vars
  PROVE  HandlersInv'
<1>1. CASE Expire
  <2>1. /\ expired' = expired + 1 /\ handler' = handler /\ expired \in Nat
        /\ \A h \in Handlers : LogsIn(h) => handler[h].id # expired + 1
    BY <1>1 DEF Expire, TypeOK, LogsIn
  <2>2. \A h \in Handlers : LogsIn(h) => handler[h].id > expired + 1
    <3> SUFFICES ASSUME NEW h \in Handlers, LogsIn(h) PROVE handler[h].id > expired + 1
      OBVIOUS
    <3>1. handler[h].id \in 0..Len(made) /\ Len(made) \in Nat /\ handler[h].id > expired
      BY Spread, LoginOfId
    <3> QED BY <2>1, <3>1
  <2> QED BY <2>1, <2>2 DEF HandlersInv, LogsIn, Ending, At
<1>2. CASE UNCHANGED vars
  BY <1>2 DEF HandlersInv, LogsIn, Ending, At, vars
<1>3. ASSUME NEW h \in Handlers, Serve(h) PROVE HandlersInv'
  BY <1>3, ServeHandlers
<1>4. ASSUME NEW h \in Handlers, Arrive(h) PROVE HandlersInv'
  <2>0. /\ "device" \in StepsOf("login") /\ "device" \notin InvalidateSteps
        /\ "touch" \in StepsOf("refresh") /\ "touch" \notin InvalidateSteps
        /\ "get" \in StepsOf("logout") /\ "all" \in StepsOf("endAll")
        /\ "update" \in StepsOf("endAll")
        /\ "all" \notin InvalidateSteps /\ "update" \notin InvalidateSteps
    BY DEF StepsOf, InvalidateSteps, BeforeTrack, BeforeStore
  <2>1. ASSUME NEW d \in Devices, Login(h, d) PROVE HandlersInv'
    <3> DEFINE n == Len(made) + 1
    <3>1. Goes(h, "login", "device", n, n, <<>>, <<>>) /\ expired' = expired
      BY <2>1, LoginForm DEF Login
    <3>2. n > expired
      BY Spread DEF TypeOK
    <3> QED BY <2>0, <3>1, <3>2, GoesHandlers
  <2>2. ASSUME NEW id \in Ids, Refresh(h, id) PROVE HandlersInv'
    <3>1. /\ expired' = expired /\ id # 0
          /\ \/ Goes(h, "refresh", "touch", id, id, <<>>, <<>>)
             \/ Goes(h, "logout", "get", id, id, <<>>, <<>>)
      BY <2>2, RefreshForm, BoundAssumption DEF Refresh, sessionVars, Ids
    <3> QED BY <2>0, <3>1, GoesHandlers
  <2>3. ASSUME NEW id \in Ids, EndSessions(h, id) PROVE HandlersInv'
    <3>1. /\ expired' = expired /\ id # 0
          /\ \/ Goes(h, "logout", "get", id, id, <<>>, <<>>)
             \/ Goes(h, "endAll", "all", 0, 0, <<>>, <<>>)
             \/ Goes(h, "endAll", "update", 0, 0, <<>>, <<>>)
      BY <2>3, EndSessionsForm, BoundAssumption DEF EndSessions, sessionVars, Ids
    <3> QED BY <2>0, <3>1, GoesHandlers
  <2>4. ASSUME NEW id \in Ids, RevokeSession(h, id) PROVE HandlersInv'
    BY <2>4 DEF RevokeSession, sessionVars, HandlersInv, LogsIn, Ending, At
  <2>5. CASE ForgotPassword(h)
    BY <2>5 DEF ForgotPassword, sessionVars, HandlersInv, LogsIn, Ending, At
  <2>6. CASE ResetPassword(h)
    <3>1. expired' = expired /\ Goes(h, "endAll", "update", 0, 0, <<>>, <<>>)
      BY <2>6, ResetForm DEF ResetPassword, sessionVars
    <3> QED BY <2>0, <3>1, GoesHandlers
  <2> QED BY <1>4, <2>1, <2>2, <2>3, <2>4, <2>5, <2>6 DEF Arrive
<1> QED BY <1>1, <1>2, <1>3, <1>4 DEF Next

-----------------------------------------------------------------------------
(* LoginsInv                                                               *)

\* What a step may do to the sessions and lists: nobody learns of a session but
\* from the keys in Redis, and only its login stores and tracks it.
Stored(h, step) == IF LogsIn(h) /\ step \notin BeforeStore THEN {handler[h].id} ELSE {}

\* The session that it has tracked.
Tracked(h, step) == IF LogsIn(h) /\ step \notin BeforeTrack THEN {handler[h].id} ELSE {}

\* The keys that a step may write.
KeysKept(h, step) ==
  /\ sessions' \subseteq sessions \cup Stored(h, step)
  /\ \A d \in Devices : deviceKey'[d] \in {0, deviceKey[d]} \cup Stored(h, step)
  /\ ListedIn(list') \subseteq
       ListedIn(list) \cup ListedIn(handler[h].seen) \cup Tracked(h, step)

\* A login is the same login and does not go back.
LoginKept(h, op, step, id) ==
  op = "login" =>
    /\ LogsIn(h) /\ id = handler[h].id
    /\ step \in BeforeStore => handler[h].step \in BeforeStore
    /\ step \in BeforeTrack => handler[h].step \in BeforeTrack

\* What a handler knows after a step is what it knew or what the keys named.
Learns(h, op, step, id, target, todo, seen) ==
  /\ step \in InvalidateSteps =>
       \/ Ending(h) /\ target = handler[h].target
       \/ target \in sessions \cup ListedIn(list) \cup ListedIn(handler[h].todo)
       \/ \E d \in Devices : target = deviceKey[d]
  /\ op = "refresh" => (id = handler[h].id /\ handler[h].op = "refresh") \/ id \in sessions
  /\ ListedIn(seen) \cup ListedIn(todo) \subseteq
       ListedIn(list) \cup ListedIn(handler[h].seen) \cup ListedIn(handler[h].todo)

\* Such a step keeps LoginsInv.
LEMMA GoesLogins ==
  ASSUME TypeOK, HandlersInv, LoginsInv, NEW h \in Handlers,
         NEW op, NEW step, NEW id, NEW target, NEW todo, NEW seen,
         Goes(h, op, step, id, target, todo, seen),
         KeysKept(h, step), LoginKept(h, op, step, id),
         Learns(h, op, step, id, target, todo, seen)
  PROVE  LoginsInv'
<1>1. ASSUME NEW g \in Handlers, handler'[g].op = "login"
      PROVE  /\ LogsIn(g) /\ handler'[g].id = handler[g].id
             /\ handler'[g].step \in BeforeStore =>
                  handler[g].step \in BeforeStore /\ handler[g].id \notin Stored(h, step)
             /\ handler'[g].step \in BeforeTrack =>
                  handler[g].step \in BeforeTrack /\ handler[g].id \notin Tracked(h, step)
  <2>1. CASE g = h
    BY <1>1, <2>1 DEF Goes, LoginKept, Stored, Tracked
  <2>2. CASE g # h
    <3>1. handler'[g] = handler[g]
      BY <2>2 DEF Goes
    <3>2. LogsIn(h) => handler[g].id # handler[h].id
      BY <1>1, <2>2, <3>1 DEF LoginsInv, LogsIn
    <3> QED BY <1>1, <3>1, <3>2 DEF LogsIn, Stored, Tracked
  <2> QED BY <2>1, <2>2
<1>2. ASSUME NEW x, x # 0, Unknown(x), Unlisted(x), x \notin Stored(h, step)
      PROVE  /\ x \notin sessions' /\ \A d \in Devices : deviceKey'[d] # x
             /\ \A g \in Handlers : /\ handler'[g].step \in InvalidateSteps => handler'[g].target # x
                                    /\ handler'[g].op = "refresh" => handler'[g].id # x
  <2>1. x \notin sessions' /\ \A d \in Devices : deviceKey'[d] # x
    BY <1>2 DEF KeysKept, Unknown
  <2>2. ASSUME NEW g \in Handlers
        PROVE  /\ handler'[g].step \in InvalidateSteps => handler'[g].target # x
               /\ handler'[g].op = "refresh" => handler'[g].id # x
    <3>1. CASE g = h
      BY <1>2, <3>1 DEF Goes, Learns, Unknown, Unlisted, Ending
    <3>2. CASE g # h
      BY <1>2, <3>2 DEF Goes, Unknown, Ending
    <3> QED BY <3>1, <3>2
  <2> QED BY <2>1, <2>2
<1>3. ASSUME NEW x, Unlisted(x), x \notin Tracked(h, step)
      PROVE  /\ x \notin ListedIn(list')
             /\ \A g \in Handlers : x \notin ListedIn(handler'[g].seen) \cup ListedIn(handler'[g].todo)
  <2>1. x \notin ListedIn(list')
    BY <1>3 DEF KeysKept, Unlisted
  <2>2. ASSUME NEW g \in Handlers
        PROVE  x \notin ListedIn(handler'[g].seen) \cup ListedIn(handler'[g].todo)
    <3>1. CASE g = h
      BY <1>3, <3>1 DEF Goes, Learns, Unlisted
    <3>2. CASE g # h
      BY <1>3, <3>2 DEF Goes, Unlisted
    <3> QED BY <3>1, <3>2
  <2> QED BY <2>1, <2>2
<1>4. BeforeStore \subseteq BeforeTrack
  BY DEF BeforeTrack
<1>5. ASSUME NEW g \in Handlers, LogsIn(g)' PROVE handler[g].id # 0
  <2>1. LogsIn(g)
    BY <1>1, <1>5 DEF LogsIn
  <2> QED BY <2>1, LoginOfId
<1>6. ASSUME NEW g \in Handlers, LogsIn(g)', handler'[g].step \in BeforeStore
      PROVE  Unknown(handler[g].id)'
  <2>1. /\ LogsIn(g) /\ handler'[g].id = handler[g].id /\ handler[g].id # 0
        /\ handler[g].step \in BeforeStore /\ handler[g].id \notin Stored(h, step)
    BY <1>1, <1>5, <1>6 DEF LogsIn
  <2>2. Unknown(handler[g].id) /\ Unlisted(handler[g].id)
    BY <1>4, <2>1 DEF LoginsInv
  <2> DEFINE x == handler[g].id
  <2>3. x # 0 /\ Unknown(x) /\ Unlisted(x) /\ x \notin Stored(h, step) /\ handler'[g].id = x
    BY <2>1, <2>2
  <2> HIDE DEF x
  <2>4. /\ x \notin sessions' /\ \A d \in Devices : deviceKey'[d] # x
        /\ \A k \in Handlers : /\ handler'[k].step \in InvalidateSteps => handler'[k].target # x
                               /\ handler'[k].op = "refresh" => handler'[k].id # x
    BY <1>2, <2>3
  <2> QED BY <2>3, <2>4 DEF Unknown, Ending
<1>7. ASSUME NEW g \in Handlers, LogsIn(g)', handler'[g].step \in BeforeTrack
      PROVE  Unlisted(handler[g].id)'
  <2>1. /\ LogsIn(g) /\ handler'[g].id = handler[g].id
        /\ handler[g].step \in BeforeTrack /\ handler[g].id \notin Tracked(h, step)
    BY <1>1, <1>7 DEF LogsIn
  <2> DEFINE x == handler[g].id
  <2>2. Unlisted(x) /\ x \notin Tracked(h, step) /\ handler'[g].id = x
    BY <2>1 DEF LoginsInv
  <2> HIDE DEF x
  <2>3. /\ x \notin ListedIn(list')
        /\ \A k \in Handlers : x \notin ListedIn(handler'[k].seen) \cup ListedIn(handler'[k].todo)
    BY <1>3, <2>2
  <2> QED BY <2>2, <2>3 DEF Unlisted
<1>8. ASSUME NEW g \in Handlers, LogsIn(g)', NEW k \in Handlers \ {g}, LogsIn(k)'
      PROVE  handler'[k].id # handler'[g].id
  BY <1>1, <1>8 DEF LoginsInv, LogsIn
<1> QED BY <1>6, <1>7, <1>8 DEF LoginsInv

\* A handler that is done keeps it.
LEMMA StopsLogins ==
  ASSUME TypeOK, HandlersInv, LoginsInv, NEW h \in Handlers, Stops(h), KeysKept(h, "idle")
  PROVE  LoginsInv'
<1>1. LoginKept(h, "none", "idle", 0)
  BY DEF LoginKept
<1>2. Learns(h, "none", "idle", 0, 0, <<>>, <<>>)
  BY EmptyList DEF Learns, InvalidateSteps
<1> QED BY <1>1, <1>2, GoesLogins DEF Stops

\* A step that only moves on knows what it knew.
LEMMA MovesLogins ==
  ASSUME TypeOK, HandlersInv, LoginsInv, NEW h \in Handlers, NEW step, NEW seen,
         LET s == handler[h] IN Goes(h, s.op, step, s.id, s.target, s.todo, seen),
         KeysKept(h, step), ListedIn(seen) \subseteq ListedIn(list) \cup ListedIn(handler[h].seen),
         step \in BeforeStore => handler[h].step \in BeforeStore,
         step \in BeforeTrack => handler[h].step \in BeforeTrack,
         step \in InvalidateSteps => Ending(h)
  PROVE  LoginsInv'
<1> DEFINE s == handler[h]
<1>1. LoginKept(h, s.op, step, s.id)
  BY DEF LoginKept, LogsIn
<1>2. Learns(h, s.op, step, s.id, s.target, s.todo, seen)
  BY DEF Learns
<1>3. Goes(h, s.op, step, s.id, s.target, s.todo, seen)
  OBVIOUS
<1> QED BY <1>1, <1>2, <1>3, GoesLogins

\* A step that leaves the keys alone.
LEMMA SameKeys ==
  ASSUME NEW h \in Handlers, NEW step, UNCHANGED redisVars
  PROVE  KeysKept(h, step)
  BY DEF KeysKept, redisVars

\* A handler that has ended a session keeps it.
LEMMA ReturnedLogins ==
  ASSUME TypeOK, HandlersInv, LoginsInv, NEW h \in Handlers, Returned(h), Ending(h),
         \A step : KeysKept(h, step)
  PROVE  LoginsInv'
<1> DEFINE s == handler[h]
<1>0. /\ s.step \in BeforeStore /\ s.step \in BeforeTrack
      /\ "store" \notin InvalidateSteps /\ "delList" \notin InvalidateSteps
      /\ s.op \in {"login", "logout", "endAll"}
  BY OpSteps DEF Ending, BeforeTrack, BeforeStore, InvalidateSteps
<1>1. CASE s.op = "login" /\ Goes(h, "login", "store", s.id, s.target, s.todo, s.seen)
  BY <1>0, <1>1, MovesLogins
<1>2. CASE Stops(h)
  BY <1>2, StopsLogins
<1>3. CASE s.op = "endAll" /\ Goes(h, s.op, "delList", s.id, s.target, s.todo, s.seen)
  BY <1>0, <1>3, MovesLogins
<1>4. CASE /\ s.op = "endAll" /\ s.todo # <<>>
           /\ Goes(h, s.op, "get", s.id, Head(s.todo), Tail(s.todo), s.seen)
  <2> DEFINE x == Head(s.todo)  t == Tail(s.todo)
  <2>1. ListedIn(s.todo) = {x} \cup ListedIn(t)
    BY <1>4, Spread, TailList
  <2> HIDE DEF x, t
  <2>2. LoginKept(h, s.op, "get", s.id) /\ Learns(h, s.op, "get", s.id, x, t, s.seen)
    BY <1>4, <2>1 DEF LoginKept, Learns
  <2>3. Goes(h, s.op, "get", s.id, x, t, s.seen)
    BY <1>4 DEF x, t
  <2> QED BY <2>2, <2>3, GoesLogins
<1> QED BY <1>0, <1>1, <1>2, <1>3, <1>4 DEF Returned

\* Every step of a request keeps it.
LEMMA ServeLogins ==
  ASSUME TypeOK, HandlersInv, LoginsInv, NEW h \in Handlers, Serve(h)
  PROVE  LoginsInv'
<1> DEFINE s == handler[h]
<1>a. /\ s.op \in {"none", "login", "refresh", "logout", "endAll"} /\ s.step \in StepsOf(s.op)
      /\ s.step \in {"update", "all", "delList"} => s.op = "endAll"
  BY OpSteps
<1>1. CASE GetSession(h)
  <2>1. s.step = "get" /\ \A step : KeysKept(h, step)
    BY <1>1, SameKeys DEF GetSession, At
  <2>2. CASE Returned(h)
    BY <2>1, <2>2, ReturnedLogins DEF Ending, InvalidateSteps
  <2>3. CASE Goes(h, s.op, "del", s.id, s.target, s.todo, s.seen)
    BY <2>1, <2>3, MovesLogins DEF StepsOf, InvalidateSteps, BeforeTrack, BeforeStore, Ending
  <2> QED BY <1>1, <2>2, <2>3, GetSessionForm
<1>2. CASE DeleteSession(h)
  <2>1. s.step = "del"
    BY <1>2 DEF DeleteSession, At
  <2>2. KeysKept(h, "listGet")
    BY <1>2 DEF DeleteSession, KeysKept
  <2>3. Goes(h, s.op, "listGet", s.id, s.target, s.todo, s.seen)
    BY <1>2, DeleteSessionForm
  <2>4. /\ "listGet" \in BeforeStore => s.step \in BeforeStore
        /\ "listGet" \in BeforeTrack => s.step \in BeforeTrack
        /\ "listGet" \in InvalidateSteps => Ending(h)
    BY <2>1 DEF StepsOf, InvalidateSteps, BeforeTrack, BeforeStore, Ending
  <2>5. ListedIn(s.seen) \subseteq ListedIn(list) \cup ListedIn(s.seen)
    BY EmptyList
  <2> QED BY <2>2, <2>3, <2>4, <2>5, MovesLogins
<1>3. CASE ReadList(h)
  <2>1. s.step = "listGet"
    BY <1>3 DEF ReadList, At
  <2>2. KeysKept(h, "listSet")
    BY <1>3, SameKeys DEF ReadList
  <2>3. Goes(h, s.op, "listSet", s.id, s.target, s.todo, list)
    BY <1>3, ReadListForm
  <2>4. /\ "listSet" \in BeforeStore => s.step \in BeforeStore
        /\ "listSet" \in BeforeTrack => s.step \in BeforeTrack
        /\ "listSet" \in InvalidateSteps => Ending(h)
    BY <2>1 DEF StepsOf, InvalidateSteps, BeforeTrack, BeforeStore, Ending
  <2>5. ListedIn(list) \subseteq ListedIn(list) \cup ListedIn(s.seen)
    BY EmptyList
  <2> QED BY <2>2, <2>3, <2>4, <2>5, MovesLogins
<1>4. CASE RemoveFromList(h)
  <2>1. s.step = "listSet"
    BY <1>4 DEF RemoveFromList, At
  <2>2. KeysKept(h, "delDevice")
    <3>1. list' = Without(s.seen, s.target) /\ sessions' = sessions /\ deviceKey' = deviceKey
      BY <1>4 DEF RemoveFromList
    <3>2. s.seen \in Seq(1..Len(made)) /\ Distinct(s.seen)
      BY DEF TypeOK, IsList
    <3>3. ListedIn(list') = ListedIn(s.seen) \ {s.target}
      BY <3>1, <3>2, WithoutList
    <3> QED BY <3>1, <3>3 DEF KeysKept
  <2>3. Goes(h, s.op, "delDevice", s.id, s.target, s.todo, <<>>)
    BY <1>4, RemoveFromListForm
  <2>4. /\ "delDevice" \in BeforeStore => s.step \in BeforeStore
        /\ "delDevice" \in BeforeTrack => s.step \in BeforeTrack
        /\ "delDevice" \in InvalidateSteps => Ending(h)
    BY <2>1 DEF StepsOf, InvalidateSteps, BeforeTrack, BeforeStore, Ending
  <2>5. ListedIn(<<>>) \subseteq ListedIn(list) \cup ListedIn(s.seen)
    BY EmptyList
  <2> QED BY <2>2, <2>3, <2>4, <2>5, MovesLogins
<1>5. CASE DeleteDeviceKey(h)
  <2>1. s.step = "delDevice" /\ sessions' = sessions /\ list' = list
    BY <1>5 DEF DeleteDeviceKey, At
  <2>2. \A d \in Devices : deviceKey'[d] \in {0, deviceKey[d]}
    <3> DEFINE e == made[s.target].device
    <3>1. deviceKey' = [deviceKey EXCEPT ![e] = 0] /\ deviceKey \in [Devices -> 0..Len(made)]
      BY <1>5 DEF DeleteDeviceKey, TypeOK
    <3> HIDE DEF e
    <3> QED BY <3>1
  <2>3. \A step : KeysKept(h, step)
    BY <2>1, <2>2 DEF KeysKept
  <2> QED BY <1>5, <2>1, <2>3, DeleteDeviceKeyForm, ReturnedLogins DEF Ending, InvalidateSteps
<1>6. CASE GetDeviceKey(h)
  <2>1. s.step = "device" /\ s.op = "login" /\ \A step : KeysKept(h, step)
    BY <1>a, <1>6, SameKeys DEF GetDeviceKey, At, StepsOf, InvalidateSteps, BeforeTrack, BeforeStore
  <2>2. s.step \in BeforeStore /\ s.step \in BeforeTrack /\ "store" \notin InvalidateSteps
    BY <2>1 DEF StepsOf, InvalidateSteps, BeforeTrack, BeforeStore
  <2>3. CASE Goes(h, s.op, "store", s.id, s.target, s.todo, s.seen)
    BY <2>1, <2>2, <2>3, MovesLogins
  <2>4. CASE Goes(h, s.op, "get", s.id, deviceKey[DeviceOf(s.id)], s.todo, s.seen)
    <3> DEFINE x == deviceKey[DeviceOf(s.id)]
    <3>1. DeviceOf(s.id) \in Devices
      BY <2>1, LoginId, MadeType DEF DeviceOf
    <3>2. Learns(h, s.op, "get", s.id, x, s.todo, s.seen) /\ LoginKept(h, s.op, "get", s.id)
      BY <2>1, <2>2, <3>1 DEF Learns, LoginKept, LogsIn
    <3> QED BY <2>1, <2>4, <3>2, GoesLogins
  <2> QED BY <1>6, <2>3, <2>4, GetDeviceKeyForm
<1>7. CASE StoreSession(h)
  <2>1. s.step = "store"
    BY <1>7 DEF StoreSession, At
  <2>2. KeysKept(h, "trackGet")
    <3>1. LogsIn(h) /\ "trackGet" \notin BeforeStore
      BY <2>1, LoginId DEF StepsOf, InvalidateSteps, BeforeTrack, BeforeStore
    <3> QED BY <1>7, <3>1 DEF StoreSession, KeysKept, Stored
  <2>3. Goes(h, s.op, "trackGet", s.id, s.target, s.todo, s.seen)
    BY <1>7, StoreSessionForm
  <2>4. /\ "trackGet" \in BeforeStore => s.step \in BeforeStore
        /\ "trackGet" \in BeforeTrack => s.step \in BeforeTrack
        /\ "trackGet" \in InvalidateSteps => Ending(h)
    BY <2>1 DEF StepsOf, InvalidateSteps, BeforeTrack, BeforeStore, Ending
  <2>5. ListedIn(s.seen) \subseteq ListedIn(list) \cup ListedIn(s.seen)
    BY EmptyList
  <2> QED BY <2>2, <2>3, <2>4, <2>5, MovesLogins
<1>8. CASE ReadListToTrack(h)
  <2>1. s.step = "trackGet"
    BY <1>8 DEF ReadListToTrack, At
  <2>2. KeysKept(h, "trackSet")
    BY <1>8, SameKeys DEF ReadListToTrack
  <2>3. Goes(h, s.op, "trackSet", s.id, s.target, s.todo, list)
    BY <1>8, ReadListToTrackForm
  <2>4. /\ "trackSet" \in BeforeStore => s.step \in BeforeStore
        /\ "trackSet" \in BeforeTrack => s.step \in BeforeTrack
        /\ "trackSet" \in InvalidateSteps => Ending(h)
    BY <2>1 DEF StepsOf, InvalidateSteps, BeforeTrack, BeforeStore, Ending
  <2>5. ListedIn(list) \subseteq ListedIn(list) \cup ListedIn(s.seen)
    BY EmptyList
  <2> QED BY <2>2, <2>3, <2>4, <2>5, MovesLogins
<1>9. CASE Track(h)
  <2>1. s.step = "trackSet"
    BY <1>9 DEF Track, At
  <2>2. KeysKept(h, "map")
    <3>1. LogsIn(h) /\ "map" \notin BeforeTrack /\ s.id \in 1..Len(made)
      BY <2>1, LoginId DEF StepsOf, InvalidateSteps, BeforeTrack, BeforeStore
    <3>2. list' = Append(s.seen, s.id) /\ sessions' = sessions /\ deviceKey' = deviceKey
      BY <1>9 DEF Track
    <3>3. s.seen \in Seq(1..Len(made))
      BY Spread
    <3>4. ListedIn(list') = ListedIn(s.seen) \cup {s.id}
      BY <3>1, <3>2, <3>3, AppendList
    <3> QED BY <3>1, <3>2, <3>4 DEF KeysKept, Tracked
  <2>3. Goes(h, s.op, "map", s.id, s.target, s.todo, <<>>)
    BY <1>9, TrackForm
  <2>4. /\ "map" \in BeforeStore => s.step \in BeforeStore
        /\ "map" \in BeforeTrack => s.step \in BeforeTrack
        /\ "map" \in InvalidateSteps => Ending(h)
    BY <2>1 DEF StepsOf, InvalidateSteps, BeforeTrack, BeforeStore, Ending
  <2>5. ListedIn(<<>>) \subseteq ListedIn(list) \cup ListedIn(s.seen)
    BY EmptyList
  <2> QED BY <2>2, <2>3, <2>4, <2>5, MovesLogins
<1>10. CASE SetDeviceKey(h)
  <2>1. LogsIn(h) /\ "idle" \notin BeforeStore
    BY <1>10, LoginId DEF SetDeviceKey, At, StepsOf, InvalidateSteps, BeforeTrack, BeforeStore
  <2>2. \A d \in Devices : deviceKey'[d] \in {0, deviceKey[d]} \cup {s.id}
    <3> DEFINE e == made[s.id].device  i == s.id
    <3>1. deviceKey' = [deviceKey EXCEPT ![e] = i] /\ deviceKey \in [Devices -> 0..Len(made)]
      BY <1>10 DEF SetDeviceKey, TypeOK
    <3> HIDE DEF e, i
    <3>2. \A d \in Devices : deviceKey'[d] \in {0, deviceKey[d]} \cup {i}
      BY <3>1
    <3> QED BY <3>2 DEF i
  <2>3. KeysKept(h, "idle")
    BY <1>10, <2>1, <2>2 DEF SetDeviceKey, KeysKept, Stored
  <2> QED BY <1>10, <2>3, SetDeviceKeyForm, StopsLogins
<1>11. CASE Touch(h)
  <2>1. s.step = "touch" /\ \A step : KeysKept(h, step)
    BY <1>11, SameKeys DEF Touch, At
  <2>2. "touchSet" \notin InvalidateSteps /\ "touchSet" \notin BeforeStore /\ "touchSet" \notin BeforeTrack
    BY DEF StepsOf, InvalidateSteps, BeforeTrack, BeforeStore
  <2>3. CASE Goes(h, s.op, "touchSet", s.id, s.target, s.todo, s.seen)
    BY <2>1, <2>2, <2>3, MovesLogins
  <2>4. CASE Stops(h)
    BY <2>1, <2>4, StopsLogins
  <2> QED BY <1>11, <2>3, <2>4, TouchForm
<1>12. CASE WriteBack(h)
  <2>0. ~LogsIn(h) /\ s.op = "refresh" /\ s.id # 0
    BY <1>12, RefreshId DEF WriteBack, At, LogsIn
  <2>1. sessions' = sessions \cup {s.id} /\ list' = list /\ deviceKey' = deviceKey
    BY <1>12 DEF WriteBack
  <2>2. Stops(h)
    BY <1>12, WriteBackForm
  <2>3. \A g \in Handlers : LogsIn(g)' => LogsIn(g) /\ g # h /\ handler'[g] = handler[g]
    BY <2>2 DEF Stops, Goes, LogsIn
  <2>4. \A x : Unknown(x) => x # s.id
    BY <2>0 DEF Unknown
  <2>5. \A x : Unknown(x) => Unknown(x)'
    <3> SUFFICES ASSUME NEW x, Unknown(x) PROVE Unknown(x)'
      OBVIOUS
    <3>1. x \notin sessions' /\ \A d \in Devices : deviceKey'[d] # x
      BY <2>1, <2>4 DEF Unknown
    <3>2. ASSUME NEW g \in Handlers
          PROVE  (Ending(g) => handler[g].target # x)' /\ (handler[g].op = "refresh" => handler[g].id # x)'
      <4>1. CASE g = h
        BY <2>2, <4>1 DEF Stops, Goes, Ending, InvalidateSteps
      <4>2. CASE g # h
        BY <2>2, <4>2 DEF Stops, Goes, Ending, Unknown
      <4> QED BY <4>1, <4>2
    <3> QED BY <3>1, <3>2 DEF Unknown
  <2>6. \A x : Unlisted(x) => Unlisted(x)'
    <3> SUFFICES ASSUME NEW x, Unlisted(x) PROVE Unlisted(x)'
      OBVIOUS
    <3>1. ASSUME NEW g \in Handlers
          PROVE  x \notin ListedIn(handler'[g].seen) \cup ListedIn(handler'[g].todo)
      <4>1. CASE g = h
        BY <2>2, <4>1, EmptyList DEF Stops, Goes
      <4>2. CASE g # h
        BY <2>2, <4>2 DEF Stops, Goes, Unlisted
      <4> QED BY <4>1, <4>2
    <3> QED BY <2>1, <3>1 DEF Unlisted
  <2>7. ASSUME NEW g \in Handlers, LogsIn(g)'
        PROVE  /\ handler'[g].step \in BeforeStore => Unknown(handler[g].id)'
               /\ handler'[g].step \in BeforeTrack => Unlisted(handler[g].id)'
               /\ \A k \in Handlers \ {g} : LogsIn(k)' => handler'[k].id # handler'[g].id
    <3>1. LogsIn(g) /\ handler'[g] = handler[g]
      BY <2>3, <2>7
    <3> DEFINE x == handler[g].id
    <3>2. /\ handler[g].step \in BeforeStore => Unknown(x)
          /\ handler[g].step \in BeforeTrack => Unlisted(x)
          /\ handler'[g].id = x /\ handler'[g].step = handler[g].step
      BY <3>1 DEF LoginsInv
    <3>3. (x = handler'[g].id /\ Unknown(x)') => Unknown(handler[g].id)'
      BY DEF Unknown
    <3>4. (x = handler'[g].id /\ Unlisted(x)') => Unlisted(handler[g].id)'
      BY DEF Unlisted
    <3>5. \A k \in Handlers \ {g} : LogsIn(k)' => handler'[k].id # handler'[g].id
      BY <2>3, <3>1 DEF LoginsInv
    <3> HIDE DEF x
    <3> QED BY <2>5, <2>6, <3>2, <3>3, <3>4, <3>5
  <2> QED BY <2>7 DEF LoginsInv
<1>13. CASE UpdatePassword(h)
  <2>1. s.step = "update"
    BY <1>13 DEF UpdatePassword, At
  <2>2. KeysKept(h, "all")
    BY <1>13, SameKeys DEF UpdatePassword
  <2>3. Goes(h, s.op, "all", s.id, s.target, s.todo, s.seen)
    BY <1>13, UpdatePasswordForm
  <2>4. /\ "all" \in BeforeStore => s.step \in BeforeStore
        /\ "all" \in BeforeTrack => s.step \in BeforeTrack
        /\ "all" \in InvalidateSteps => Ending(h)
    BY <2>1 DEF StepsOf, InvalidateSteps, BeforeTrack, BeforeStore, Ending
  <2>5. ListedIn(s.seen) \subseteq ListedIn(list) \cup ListedIn(s.seen)
    BY EmptyList
  <2> QED BY <2>2, <2>3, <2>4, <2>5, MovesLogins
<1>14. CASE ReadAll(h)
  <2>1. s.op = "endAll" /\ \A step : KeysKept(h, step)
    BY <1>a, <1>14, SameKeys DEF ReadAll, At
  <2>3. CASE list # <<>> /\ Goes(h, s.op, "get", s.id, Head(list), Tail(list), s.seen)
    <3> DEFINE x == Head(list)  t == Tail(list)
    <3>1. ListedIn(list) = {x} \cup ListedIn(t)
      BY <2>3, TailList DEF TypeOK, IsList
    <3> HIDE DEF x, t
    <3>2. LoginKept(h, s.op, "get", s.id) /\ Learns(h, s.op, "get", s.id, x, t, s.seen)
      BY <2>1, <3>1 DEF LoginKept, Learns
    <3>3. Goes(h, s.op, "get", s.id, x, t, s.seen)
      BY <2>3 DEF x, t
    <3> QED BY <2>1, <3>2, <3>3, GoesLogins
  <2>4. CASE Stops(h)
    BY <2>1, <2>4, StopsLogins
  <2> QED BY <1>14, <2>3, <2>4, ReadAllForm
<1>15. CASE DeleteList(h)
  <2>1. KeysKept(h, "idle")
    BY <1>15, EmptyList DEF DeleteList, KeysKept
  <2> QED BY <1>15, <2>1, DeleteListForm, StopsLogins
<1>16. CASE StepFails(h)
  <2>1. KeysKept(h, "idle")
    BY <1>16, SameKeys DEF StepFails
  <2> QED BY <1>16, <2>1, StepFailsForm, StopsLogins
<1> QED BY <1>1, <1>2, <1>3, <1>4, <1>5, <1>6, <1>7, <1>8, <1>9, <1>10, <1>11, <1>12, <1>13, <1>14,
           <1>15, <1>16 DEF Serve

\* A session nobody knows stays so while keys are deleted.
LEMMA UnknownSame ==
  ASSUME NEW x, Unknown(x), x # 0, sessions' \subseteq sessions, handler' = handler,
         \A d \in Devices : deviceKey'[d] \in {0, deviceKey[d]}
  PROVE  Unknown(x)'
  BY DEF Unknown, Ending

\* Keys that are deleted do no harm to LoginsInv.
LEMMA LoginsSame ==
  ASSUME TypeOK, HandlersInv, LoginsInv, sessions' \subseteq sessions, handler' = handler,
         list' = list, \A d \in Devices : deviceKey'[d] \in {0, deviceKey[d]}
  PROVE  LoginsInv'
<1> SUFFICES ASSUME NEW h \in Handlers, LogsIn(h)'
             PROVE  /\ handler'[h].step \in BeforeStore => Unknown(handler[h].id)'
                    /\ handler'[h].step \in BeforeTrack => Unlisted(handler[h].id)'
                    /\ \A g \in Handlers \ {h} : LogsIn(g)' => handler'[g].id # handler'[h].id
  BY DEF LoginsInv
<1>1. LogsIn(h)
  BY DEF LogsIn
<1>2. handler[h].id # 0
  BY <1>1, LoginOfId
<1>3. PICK x : x = handler[h].id
  OBVIOUS
<1>4. handler'[h].step \in BeforeStore => Unknown(x)'
  BY <1>1, <1>2, <1>3, UnknownSame DEF LoginsInv
<1>5. handler'[h].step \in BeforeTrack => Unlisted(x)'
  BY <1>1, <1>3 DEF LoginsInv, Unlisted
<1>6. handler'[h].id = x
  BY <1>3
<1> QED BY <1>1, <1>4, <1>5, <1>6 DEF LoginsInv, Unknown, Unlisted, LogsIn

\* The session of a new login is nowhere yet.
LEMMA NewUnknown ==
  ASSUME TypeOK
  PROVE  LET n == Len(made) + 1 IN
         /\ n # 0 /\ Unknown(n) /\ Unlisted(n)
         /\ \A g \in Handlers : LogsIn(g) => handler[g].id # n
<1> DEFINE n == Len(made) + 1
<1>1. Len(made) \in Nat /\ n \notin 0..Len(made) /\ n \notin 1..Len(made) /\ n # 0
  <2>1. Len(made) \in Nat
    BY DEF TypeOK
  <2> QED BY <2>1
<1>2. /\ n \notin sessions /\ \A d \in Devices : deviceKey[d] # n
      /\ n \notin ListedIn(list)
  <2>1. list \in Seq(1..Len(made))
    BY DEF TypeOK, IsList
  <2>2. ListedIn(list) \subseteq 1..Len(made)
    BY <2>1, ElementsType
  <2> QED BY <1>1, <2>2 DEF TypeOK
<1>3. ASSUME NEW g \in Handlers
      PROVE  /\ handler[g].target # n /\ handler[g].id # n
             /\ n \notin ListedIn(handler[g].seen) \cup ListedIn(handler[g].todo)
  <2>1. /\ handler[g].target \in 0..Len(made) /\ handler[g].id \in 0..Len(made)
        /\ handler[g].seen \in Seq(1..Len(made)) /\ handler[g].todo \in Seq(1..Len(made))
    BY Spread
  <2>2. ListedIn(handler[g].seen) \subseteq 1..Len(made) /\ ListedIn(handler[g].todo) \subseteq 1..Len(made)
    BY <2>1, ElementsType
  <2> QED BY <1>1, <2>1, <2>2
<1> QED BY <1>1, <1>2, <1>3 DEF Unknown, Unlisted

\* A login keeps LoginsInv.
LEMMA LoginLogins ==
  ASSUME TypeOK, HandlersInv, LoginsInv, NEW h \in Handlers, NEW d \in Devices, Login(h, d)
  PROVE  LoginsInv'
<1> DEFINE n == Len(made) + 1
<1>1. n # 0 /\ Unknown(n) /\ Unlisted(n) /\ \A g \in Handlers : LogsIn(g) => handler[g].id # n
  BY NewUnknown
<1>2. Goes(h, "login", "device", n, n, <<>>, <<>>) /\ sessions' = sessions /\ list' = list
      /\ deviceKey' = deviceKey
  BY LoginForm DEF Login, redisVars
<1> HIDE DEF n
<1>3. ASSUME NEW x, Unknown(x) PROVE Unknown(x)'
  <2>1. ASSUME NEW g \in Handlers
        PROVE  (Ending(g) => handler[g].target # x)' /\ (handler[g].op = "refresh" => handler[g].id # x)'
    <3>1. CASE g = h
      BY <1>2, <3>1 DEF Goes, Ending, InvalidateSteps
    <3>2. CASE g # h
      BY <1>2, <1>3, <3>2 DEF Goes, Ending, Unknown
    <3> QED BY <3>1, <3>2
  <2> QED BY <1>2, <1>3, <2>1 DEF Unknown
<1>4. ASSUME NEW x, Unlisted(x) PROVE Unlisted(x)'
  <2>1. ASSUME NEW g \in Handlers
        PROVE  x \notin ListedIn(handler'[g].seen) \cup ListedIn(handler'[g].todo)
    <3>1. CASE g = h
      BY <1>2, <3>1, EmptyList DEF Goes
    <3>2. CASE g # h
      BY <1>2, <1>4, <3>2 DEF Goes, Unlisted
    <3> QED BY <3>1, <3>2
  <2> QED BY <1>2, <1>4, <2>1 DEF Unlisted
<1> SUFFICES ASSUME NEW g \in Handlers, LogsIn(g)'
             PROVE  /\ handler'[g].step \in BeforeStore => Unknown(handler[g].id)'
                    /\ handler'[g].step \in BeforeTrack => Unlisted(handler[g].id)'
                    /\ \A k \in Handlers \ {g} : LogsIn(k)' => handler'[k].id # handler'[g].id
  BY DEF LoginsInv
<1>5. PICK x : x = handler'[g].id
  OBVIOUS
<1>6. /\ handler'[g].step \in BeforeStore => Unknown(x)
      /\ handler'[g].step \in BeforeTrack => Unlisted(x)
      /\ \A k \in Handlers \ {g} : LogsIn(k)' => handler'[k].id # x
  <2>1. CASE g = h
    BY <1>1, <1>2, <1>5, <2>1 DEF Goes, LogsIn
  <2>2. CASE g # h
    <3>1. handler'[g] = handler[g] /\ LogsIn(g)
      BY <1>2, <2>2 DEF Goes, LogsIn
    <3>2. \A k \in Handlers \ {g} : LogsIn(k)' => handler'[k].id # x
      BY <1>1, <1>2, <1>5, <3>1 DEF Goes, LogsIn, LoginsInv
    <3> QED BY <1>5, <3>1, <3>2 DEF LoginsInv
  <2> QED BY <2>1, <2>2
<1>7. /\ handler'[g].step \in BeforeStore => Unknown(x)'
      /\ handler'[g].step \in BeforeTrack => Unlisted(x)'
  BY <1>3, <1>4, <1>6
<1> QED BY <1>5, <1>6, <1>7 DEF Unknown, Unlisted

\* A request that arrives keeps it: it knows no session that was not handed out.
LEMMA ArriveLogins ==
  ASSUME TypeOK, HandlersInv, LoginsInv, NEW h \in Handlers, Arrive(h)
  PROVE  LoginsInv'
<1>0. /\ "touch" \notin InvalidateSteps /\ "all" \notin InvalidateSteps
      /\ "update" \notin InvalidateSteps
  BY DEF InvalidateSteps
<1>1. ASSUME NEW id \in sessions, UNCHANGED redisVars,
             \/ Goes(h, "refresh", "touch", id, id, <<>>, <<>>)
             \/ Goes(h, "logout", "get", id, id, <<>>, <<>>)
      PROVE  LoginsInv'
  <2>1. \A step : KeysKept(h, step)
    BY <1>1, SameKeys
  <2>2. CASE Goes(h, "refresh", "touch", id, id, <<>>, <<>>)
    <3>1. LoginKept(h, "refresh", "touch", id)
          /\ Learns(h, "refresh", "touch", id, id, <<>>, <<>>)
      BY <1>0, EmptyList DEF LoginKept, Learns
    <3> QED BY <2>1, <2>2, <3>1, GoesLogins
  <2>3. CASE Goes(h, "logout", "get", id, id, <<>>, <<>>)
    <3>1. LoginKept(h, "logout", "get", id) /\ Learns(h, "logout", "get", id, id, <<>>, <<>>)
      BY EmptyList DEF LoginKept, Learns
    <3> QED BY <2>1, <2>3, <3>1, GoesLogins
  <2> QED BY <1>1, <2>2, <2>3
<1>2. ASSUME NEW step \in {"all", "update"}, UNCHANGED redisVars,
             Goes(h, "endAll", step, 0, 0, <<>>, <<>>)
      PROVE  LoginsInv'
  <2>1. LoginKept(h, "endAll", step, 0) /\ Learns(h, "endAll", step, 0, 0, <<>>, <<>>)
    BY <1>0, EmptyList DEF LoginKept, Learns
  <2> QED BY <1>2, <2>1, SameKeys, GoesLogins
<1>3. ASSUME NEW id \in Ids, Refresh(h, id) PROVE LoginsInv'
  BY <1>1, <1>3, RefreshForm DEF Refresh
<1>4. ASSUME NEW id \in Ids, EndSessions(h, id) PROVE LoginsInv'
  BY <1>1, <1>2, <1>4, EndSessionsForm DEF EndSessions
<1>5. CASE ResetPassword(h)
  BY <1>2, <1>5, ResetForm DEF ResetPassword
<1>6. ASSUME UNCHANGED <<redisVars, handler>> PROVE LoginsInv'
  BY <1>6, LoginsSame DEF redisVars
<1>7. ASSUME NEW id \in Ids, RevokeSession(h, id) PROVE LoginsInv'
  BY <1>6, <1>7 DEF RevokeSession
<1>8. CASE ForgotPassword(h)
  BY <1>6, <1>8 DEF ForgotPassword
<1> QED BY <1>3, <1>4, <1>5, <1>7, <1>8, LoginLogins DEF Arrive

\* Every step keeps LoginsInv.
LEMMA LoginsStep ==
  ASSUME TypeOK, HandlersInv, LoginsInv, [Next]_vars
  PROVE  LoginsInv'
<1>1. CASE Expire
  <2>1. /\ sessions' \subseteq sessions /\ handler' = handler /\ list' = list
        /\ \A d \in Devices : deviceKey'[d] \in {0, deviceKey[d]}
    BY <1>1 DEF Expire
  <2> QED BY <2>1, LoginsSame
<1>2. CASE UNCHANGED vars
  BY <1>2, LoginsSame DEF vars
<1> QED BY <1>1, <1>2, ArriveLogins, ServeLogins DEF Next

-----------------------------------------------------------------------------
(* GoneInv                                                                 *)

\* The steps at which the session is deleted.
Late == {"listGet", "listSet", "delDevice"}

\* Nothing but a touch brings a session back.
LEMMA GoneKept ==
  ASSUME GoneInv, NEW h \in Handlers, "touch" \notin races' => "touch" \notin races,
         \A g \in Handlers \ {h} : handler'[g] = handler[g],
         "touch" \notin races' =>
           \A g \in Handlers : handler[g].step \in Late /\ handler[g].target \notin sessions
                               => handler[g].target \notin sessions',
         "touch" \notin races' /\ handler'[h].step \in Late =>
           \/ handler[h].step \in Late /\ handler'[h].target = handler[h].target
           \/ handler'[h].target \notin sessions'
  PROVE  GoneInv'
<1> SUFFICES ASSUME "touch" \notin races', NEW g \in Handlers, handler'[g].step \in Late
             PROVE  handler'[g].target \notin sessions'
  BY DEF GoneInv, Late
<1>1. CASE g = h
  BY <1>1 DEF GoneInv, Late
<1>2. CASE g # h
  BY <1>2 DEF GoneInv, Late
<1> QED BY <1>1, <1>2

\* What all steps of a request have in common.
LEMMA ServeFrame ==
  ASSUME TypeOK, HandlersInv, NEW h \in Handlers, Serve(h)
  PROVE  /\ made' = made /\ races \subseteq races' /\ (failures' = 0 => failures = 0)
         /\ \A g \in Handlers \ {h} : handler'[g] = handler[g]
<1>1. CASE GetSession(h)
  <2>1. made' = made /\ \A g \in Handlers \ {h} : handler'[g] = handler[g]
    BY <1>1, GetSessionForm DEF Goes, Returned, Stops
  <2>2. races \subseteq races' /\ (failures' = 0 => failures = 0)
    BY <1>1 DEF GetSession, Records, budgets
  <2> QED BY <2>1, <2>2
<1>2. CASE DeleteSession(h)
  <2>1. made' = made /\ \A g \in Handlers \ {h} : handler'[g] = handler[g]
    BY <1>2, DeleteSessionForm DEF Goes
  <2>2. races \subseteq races' /\ (failures' = 0 => failures = 0)
    BY <1>2 DEF DeleteSession, Records, budgets
  <2> QED BY <2>1, <2>2
<1>3. CASE ReadList(h)
  <2>1. made' = made /\ \A g \in Handlers \ {h} : handler'[g] = handler[g]
    BY <1>3, ReadListForm DEF Goes
  <2>2. races \subseteq races' /\ (failures' = 0 => failures = 0)
    BY <1>3 DEF ReadList, Records, budgets
  <2> QED BY <2>1, <2>2
<1>4. CASE RemoveFromList(h)
  <2>1. made' = made /\ \A g \in Handlers \ {h} : handler'[g] = handler[g]
    BY <1>4, RemoveFromListForm DEF Goes
  <2>2. races \subseteq races' /\ (failures' = 0 => failures = 0)
    BY <1>4 DEF RemoveFromList, Records, budgets
  <2> QED BY <2>1, <2>2
<1>5. CASE DeleteDeviceKey(h)
  <2>1. made' = made /\ \A g \in Handlers \ {h} : handler'[g] = handler[g]
    BY <1>5, DeleteDeviceKeyForm DEF Goes, Returned, Stops
  <2>2. races \subseteq races' /\ (failures' = 0 => failures = 0)
    BY <1>5 DEF DeleteDeviceKey, Records, budgets
  <2> QED BY <2>1, <2>2
<1>6. CASE GetDeviceKey(h)
  <2>1. made' = made /\ \A g \in Handlers \ {h} : handler'[g] = handler[g]
    BY <1>6, GetDeviceKeyForm DEF Goes
  <2>2. races \subseteq races' /\ (failures' = 0 => failures = 0)
    BY <1>6 DEF GetDeviceKey, Records, budgets
  <2> QED BY <2>1, <2>2
<1>7. CASE StoreSession(h)
  <2>1. made' = made /\ \A g \in Handlers \ {h} : handler'[g] = handler[g]
    BY <1>7, StoreSessionForm DEF Goes
  <2>2. races \subseteq races' /\ (failures' = 0 => failures = 0)
    BY <1>7 DEF StoreSession, Records, budgets
  <2> QED BY <2>1, <2>2
<1>8. CASE ReadListToTrack(h)
  <2>1. made' = made /\ \A g \in Handlers \ {h} : handler'[g] = handler[g]
    BY <1>8, ReadListToTrackForm DEF Goes
  <2>2. races \subseteq races' /\ (failures' = 0 => failures = 0)
    BY <1>8 DEF ReadListToTrack, Records, budgets
  <2> QED BY <2>1, <2>2
<1>9. CASE Track(h)
  <2>1. made' = made /\ \A g \in Handlers \ {h} : handler'[g] = handler[g]
    BY <1>9, TrackForm DEF Goes
  <2>2. races \subseteq races' /\ (failures' = 0 => failures = 0)
    BY <1>9 DEF Track, Records, budgets
  <2> QED BY <2>1, <2>2
<1>10. CASE SetDeviceKey(h)
  <2>1. made' = made /\ \A g \in Handlers \ {h} : handler'[g] = handler[g]
    BY <1>10, SetDeviceKeyForm DEF Goes, Stops
  <2>2. races \subseteq races' /\ (failures' = 0 => failures = 0)
    BY <1>10 DEF SetDeviceKey, Records, budgets
  <2> QED BY <2>1, <2>2
<1>11. CASE Touch(h)
  <2>1. made' = made /\ \A g \in Handlers \ {h} : handler'[g] = handler[g]
    BY <1>11, TouchForm DEF Goes, Stops
  <2>2. races \subseteq races' /\ (failures' = 0 => failures = 0)
    BY <1>11 DEF Touch, Records, budgets
  <2> QED BY <2>1, <2>2
<1>12. CASE WriteBack(h)
  <2>1. made' = made /\ \A g \in Handlers \ {h} : handler'[g] = handler[g]
    BY <1>12, WriteBackForm DEF Goes, Stops
  <2>2. races \subseteq races' /\ (failures' = 0 => failures = 0)
    BY <1>12 DEF WriteBack, Records, budgets
  <2> QED BY <2>1, <2>2
<1>13. CASE UpdatePassword(h)
  <2>1. made' = made /\ \A g \in Handlers \ {h} : handler'[g] = handler[g]
    BY <1>13, UpdatePasswordForm DEF Goes
  <2>2. races \subseteq races' /\ (failures' = 0 => failures = 0)
    BY <1>13 DEF UpdatePassword, Records, budgets
  <2> QED BY <2>1, <2>2
<1>14. CASE ReadAll(h)
  <2>1. made' = made /\ \A g \in Handlers \ {h} : handler'[g] = handler[g]
    BY <1>14, ReadAllForm DEF Goes, Stops
  <2>2. races \subseteq races' /\ (failures' = 0 => failures = 0)
    BY <1>14 DEF ReadAll, Records, budgets
  <2> QED BY <2>1, <2>2
<1>15. CASE DeleteList(h)
  <2>1. made' = made /\ \A g \in Handlers \ {h} : handler'[g] = handler[g]
    BY <1>15, DeleteListForm DEF Goes, Stops
  <2>2. races \subseteq races' /\ (failures' = 0 => failures = 0)
    BY <1>15 DEF DeleteList, Records, budgets
  <2> QED BY <2>1, <2>2
<1>16. CASE StepFails(h)
  <2>1. made' = made /\ \A g \in Handlers \ {h} : handler'[g] = handler[g]
    BY <1>16, StepFailsForm DEF Goes, Stops
  <2>2. races \subseteq races' /\ (failures' = 0 => failures = 0)
    BY <1>16 DEF StepFails, Records, budgets, TypeOK
  <2> QED BY <2>1, <2>2
<1> QED BY <1>1, <1>2, <1>3, <1>4, <1>5, <1>6, <1>7, <1>8, <1>9, <1>10, <1>11, <1>12, <1>13, <1>14,
           <1>15, <1>16 DEF Serve

\* Where a handler goes on when it has ended a session.
LEMMA ReturnedStep ==
  ASSUME TypeOK, HandlersInv, NEW h \in Handlers, Returned(h)
  PROVE  handler'[h].step \in {"store", "idle", "delList", "get"}
  BY DEF Returned, Stops, Goes

\* Every step of a request keeps GoneInv.
LEMMA ServeGone ==
  ASSUME TypeOK, HandlersInv, LoginsInv, GoneInv, NEW h \in Handlers, Serve(h)
  PROVE  GoneInv'
<1> DEFINE s == handler[h]
<1>0. /\ \A g \in Handlers \ {h} : handler'[g] = handler[g]
      /\ "touch" \notin races' => "touch" \notin races
  BY ServeFrame
<1>1. CASE GetSession(h)
  <2>1. sessions' = sessions /\ handler'[h].step \notin Late
    BY <1>1, GetSessionForm, ReturnedStep DEF GetSession, redisVars, Late, Goes, Stops
  <2> QED BY <1>0, <2>1, GoneKept
<1>2. CASE DeleteSession(h)
  <2>1. sessions' = sessions \ {s.target} /\ handler'[h].target = s.target
    BY <1>2, DeleteSessionForm DEF DeleteSession, Goes
  <2> QED BY <1>0, <2>1, GoneKept
<1>3. CASE ReadList(h)
  <2>1. sessions' = sessions /\ handler'[h].target = s.target /\ s.step \in Late
    BY <1>3, ReadListForm DEF ReadList, redisVars, Goes, At, Late
  <2> QED BY <1>0, <2>1, GoneKept
<1>4. CASE RemoveFromList(h)
  <2>1. sessions' = sessions /\ handler'[h].target = s.target /\ s.step \in Late
    BY <1>4, RemoveFromListForm DEF RemoveFromList, redisVars, Goes, At, Late
  <2> QED BY <1>0, <2>1, GoneKept
<1>5. CASE DeleteDeviceKey(h)
  <2>1. sessions' = sessions /\ handler'[h].step \notin Late
    BY <1>5, DeleteDeviceKeyForm, ReturnedStep DEF DeleteDeviceKey, redisVars, Late, Goes, Stops
  <2> QED BY <1>0, <2>1, GoneKept
<1>6. CASE GetDeviceKey(h)
  <2>1. sessions' = sessions /\ handler'[h].step \notin Late
    BY <1>6, GetDeviceKeyForm DEF GetDeviceKey, redisVars, Late, Goes, Stops
  <2> QED BY <1>0, <2>1, GoneKept
<1>7. CASE StoreSession(h)
  <2>1. sessions' = sessions \cup {s.id} /\ handler'[h].step = "trackGet"
    BY <1>7, StoreSessionForm DEF StoreSession, Goes
  <2>2. \A g \in Handlers : handler[g].step \in Late => handler[g].target # s.id
    <3>1. LogsIn(h) /\ s.step \in BeforeStore
      BY <1>7, LoginId DEF StoreSession, At, BeforeStore
    <3>2. \A g \in Handlers : Ending(g) => handler[g].target # s.id
      BY <3>1 DEF LoginsInv, Unknown
    <3> QED BY <3>2 DEF Ending, Late, InvalidateSteps
  <2> QED BY <1>0, <2>1, <2>2, GoneKept DEF Late
<1>8. CASE ReadListToTrack(h)
  <2>1. sessions' = sessions /\ handler'[h].step \notin Late
    BY <1>8, ReadListToTrackForm DEF ReadListToTrack, redisVars, Late, Goes, Stops
  <2> QED BY <1>0, <2>1, GoneKept
<1>9. CASE Track(h)
  <2>1. sessions' = sessions /\ handler'[h].step \notin Late
    BY <1>9, TrackForm DEF Track, redisVars, Late, Goes, Stops
  <2> QED BY <1>0, <2>1, GoneKept
<1>10. CASE SetDeviceKey(h)
  <2>1. sessions' = sessions /\ handler'[h].step \notin Late
    BY <1>10, SetDeviceKeyForm DEF SetDeviceKey, redisVars, Late, Goes, Stops
  <2> QED BY <1>0, <2>1, GoneKept
<1>11. CASE Touch(h)
  <2>1. sessions' = sessions /\ handler'[h].step \notin Late
    BY <1>11, TouchForm DEF Touch, redisVars, Late, Goes, Stops
  <2> QED BY <1>0, <2>1, GoneKept
<1>12. CASE WriteBack(h)
  <2>1. /\ sessions' = sessions \cup {s.id} /\ handler'[h].step = "idle"
        /\ "touch" \notin races' => s.id \in sessions
    BY <1>12, WriteBackForm DEF WriteBack, Records, Stops, Goes
  <2>2. "touch" \notin races' => sessions' \subseteq sessions \cup {}
    BY <2>1
  <2> QED BY <1>0, <2>1, <2>2, GoneKept DEF Late
<1>13. CASE UpdatePassword(h)
  <2>1. sessions' = sessions /\ handler'[h].step \notin Late
    BY <1>13, UpdatePasswordForm DEF UpdatePassword, redisVars, Late, Goes, Stops
  <2> QED BY <1>0, <2>1, GoneKept
<1>14. CASE ReadAll(h)
  <2>1. sessions' = sessions /\ handler'[h].step \notin Late
    BY <1>14, ReadAllForm DEF ReadAll, redisVars, Late, Goes, Stops
  <2> QED BY <1>0, <2>1, GoneKept
<1>15. CASE DeleteList(h)
  <2>1. sessions' = sessions /\ handler'[h].step \notin Late
    BY <1>15, DeleteListForm DEF DeleteList, redisVars, Late, Goes, Stops
  <2> QED BY <1>0, <2>1, GoneKept
<1>16. CASE StepFails(h)
  <2>1. sessions' = sessions /\ handler'[h].step \notin Late
    BY <1>16, StepFailsForm DEF StepFails, redisVars, Late, Goes, Stops
  <2> QED BY <1>0, <2>1, GoneKept
<1> QED BY <1>1, <1>2, <1>3, <1>4, <1>5, <1>6, <1>7, <1>8, <1>9, <1>10, <1>11, <1>12, <1>13, <1>14,
           <1>15, <1>16 DEF Serve

\* A request that arrives changes no key and no other handler.
LEMMA ArriveFrame ==
  ASSUME TypeOK, NEW h \in Handlers, Arrive(h)
  PROVE  /\ sessions' = sessions /\ list' = list /\ deviceKey' = deviceKey /\ password' = password
         /\ failures' = failures /\ races \subseteq races'
         /\ \A g \in Handlers \ {h} : handler'[g] = handler[g]
         /\ \A i \in 1..Len(made) : made'[i] = made[i]
         /\ \/ /\ made' = made /\ races' = races
               /\ \/ handler'[h] = handler[h]
                  \/ handler'[h].op # "login" /\ handler'[h].step \in {"touch", "get", "all", "update"}
            \/ \E d \in Devices : Login(h, d)
<1>1. /\ sessions' = sessions /\ list' = list /\ deviceKey' = deviceKey /\ password' = password
      /\ failures' = failures /\ races \subseteq races'
  BY DEF Arrive, Login, Refresh, EndSessions, RevokeSession, ForgotPassword, ResetPassword,
         Receive, redisVars, userVars, Records
<1>2. At(h, "idle")
  BY DEF Arrive, Login, Refresh, EndSessions, RevokeSession, ForgotPassword, ResetPassword, Receive
<1>3. ASSUME NEW d \in Devices, Login(h, d)
      PROVE  /\ \A g \in Handlers \ {h} : handler'[g] = handler[g]
             /\ \A i \in 1..Len(made) : made'[i] = made[i]
  BY <1>3, LoginForm DEF Goes
<1>4. ASSUME NEW id \in Ids, Refresh(h, id)
      PROVE  /\ \A g \in Handlers \ {h} : handler'[g] = handler[g]
             /\ made' = made /\ races' = races
             /\ handler'[h].op # "login" /\ handler'[h].step \in {"touch", "get", "all", "update"}
  BY <1>4, RefreshForm DEF Goes, Refresh
<1>5. ASSUME NEW id \in Ids, EndSessions(h, id)
      PROVE  /\ \A g \in Handlers \ {h} : handler'[g] = handler[g]
             /\ made' = made /\ races' = races
             /\ handler'[h].op # "login" /\ handler'[h].step \in {"touch", "get", "all", "update"}
  BY <1>5, EndSessionsForm DEF Goes, EndSessions
<1>6. ASSUME ResetPassword(h)
      PROVE  /\ \A g \in Handlers \ {h} : handler'[g] = handler[g]
             /\ made' = made /\ races' = races
             /\ handler'[h].op # "login" /\ handler'[h].step \in {"touch", "get", "all", "update"}
  BY <1>6, ResetForm DEF Goes, ResetPassword
<1>7. ASSUME NEW id \in Ids, RevokeSession(h, id) PROVE handler' = handler /\ made' = made /\ races' = races
  BY <1>7 DEF RevokeSession, sessionVars
<1>8. ASSUME ForgotPassword(h) PROVE handler' = handler /\ made' = made /\ races' = races
  BY <1>8 DEF ForgotPassword, sessionVars
<1> QED BY <1>1, <1>3, <1>4, <1>5, <1>6, <1>7, <1>8 DEF Arrive

\* Every step keeps GoneInv.
LEMMA GoneStep ==
  ASSUME TypeOK, HandlersInv, LoginsInv, GoneInv, [Next]_vars
  PROVE  GoneInv'
<1>1. CASE Expire
  BY <1>1 DEF Expire, GoneInv
<1>2. CASE UNCHANGED vars
  BY <1>2 DEF GoneInv, vars
<1>3. ASSUME NEW h \in Handlers, Arrive(h) PROVE GoneInv'
  <2>1. /\ sessions' = sessions /\ races \subseteq races'
        /\ \A g \in Handlers \ {h} : handler'[g] = handler[g]
    BY <1>3, ArriveFrame
  <2>2. handler'[h].step \in Late => handler'[h] = handler[h]
    BY <1>3, ArriveFrame, LoginForm DEF Late, Goes
  <2> QED BY <2>1, <2>2, GoneKept
<1> QED BY <1>1, <1>2, <1>3, ServeGone DEF Next

-----------------------------------------------------------------------------
(* DevicesInv                                                              *)

\* The behaviours that DevicesInv is about.
Serial == failures = 0 /\ races \cap {"login", "device", "touch"} = {}

\* A login that has stored its session and not yet set the key of its device.
HasStored(h) == LogsIn(h) /\ handler[h].step \in {"trackGet", "trackSet", "map"}

\* What all steps of handler h have in common.
Frame(h) ==
  /\ made' = made /\ races \subseteq races' /\ (failures' = 0 => failures = 0)
  /\ \A g \in Handlers \ {h} : handler'[g] = handler[g]

\* A login stays the same login.
SameLogin(h) ==
  handler'[h].op = "login" => LogsIn(h) /\ handler'[h].id = handler[h].id

\* What DevicesInv says of them.
LEMMA DevicesParts ==
  ASSUME DevicesInv, Serial
  PROVE  /\ \A i \in sessions : KeyNamed(i)
         /\ \A h, g \in Handlers :
              LogsIn(h) /\ LogsIn(g) /\ DeviceOf(handler[h].id) = DeviceOf(handler[g].id) => h = g
         /\ \A h \in Handlers : \A i \in sessions :
              LogsIn(h) /\ DeviceOf(i) = DeviceOf(handler[h].id) => MayFind(handler[h], i)
  BY DEF DevicesInv, Serial

\* They are such behaviours at every earlier state.
LEMMA SerialBefore ==
  ASSUME races \subseteq races', failures' = 0 => failures = 0, Serial'
  PROVE  Serial
  BY DEF Serial

\* The key or the login that names a session still does.
LEMMA NamesKept ==
  ASSUME NEW h \in Handlers, Frame(h), NEW i, KeyNamed(i),
         deviceKey'[DeviceOf(i)] = deviceKey[DeviceOf(i)],
         HasStored(h) => HasStored(h)' /\ SameLogin(h)
  PROVE  KeyNamed(i)'
<1>1. DeviceOf(i)' = DeviceOf(i)
  BY DEF Frame, DeviceOf
<1>2. CASE deviceKey[DeviceOf(i)] = i
  BY <1>1, <1>2 DEF KeyNamed
<1>3. CASE \E g \in Handlers : HasStored(g) /\ handler[g].id = i
  <2>1. PICK g \in Handlers : HasStored(g) /\ handler[g].id = i
    BY <1>3
  <2>2. HasStored(g)' /\ handler'[g].id = i
    <3>1. CASE g = h
      BY <2>1, <3>1 DEF SameLogin, HasStored, LogsIn
    <3>2. CASE g # h
      BY <2>1, <3>2 DEF Frame, HasStored, LogsIn
    <3> QED BY <3>1, <3>2
  <2> QED BY <2>2 DEF KeyNamed, HasStored
<1> QED BY <1>2, <1>3 DEF KeyNamed, HasStored

\* What a step owes to DevicesInv.
LEMMA DevicesKept ==
  ASSUME TypeOK, HandlersInv, DevicesInv, NEW h \in Handlers, Frame(h), SameLogin(h),
         Serial' => \A i \in sessions' : KeyNamed(i)',
         Serial' => \A i \in sessions' : i \in sessions \/ (LogsIn(h) /\ i = handler[h].id),
         Serial' /\ handler'[h].op = "login" =>
           \A i \in sessions' : DeviceOf(i) = DeviceOf(handler[h].id) => MayFind(handler'[h], i)
  PROVE  DevicesInv'
<1> SUFFICES ASSUME Serial' PROVE DevicesInv'
  BY DEF DevicesInv, Serial
<1>0. Serial
  BY SerialBefore DEF Frame
<1>1. \A i : DeviceOf(i)' = made[i].device /\ DeviceOf(i) = made[i].device
  BY DEF Frame, DeviceOf
<1>2. \A g \in Handlers : LogsIn(g)' => LogsIn(g) /\ handler'[g].id = handler[g].id
  BY DEF Frame, SameLogin, LogsIn
<1>3. ASSUME NEW g \in Handlers, NEW k \in Handlers, LogsIn(g)', LogsIn(k)',
             made'[handler'[g].id].device = made'[handler'[k].id].device
      PROVE  g = k
  <2>1. LogsIn(g) /\ LogsIn(k) /\ DeviceOf(handler[g].id) = DeviceOf(handler[k].id)
    BY <1>2, <1>3 DEF Frame, DeviceOf
  <2> QED BY <1>0, <2>1, DevicesParts
<1>4. ASSUME NEW g \in Handlers, NEW i \in sessions', LogsIn(g)',
             made'[i].device = made'[handler'[g].id].device
      PROVE  MayFind(handler'[g], i)
  <2>1. LogsIn(g) /\ DeviceOf(i) = DeviceOf(handler[g].id)
    BY <1>2, <1>4 DEF Frame, DeviceOf
  <2>2. CASE g = h
    BY <1>4, <2>1, <2>2 DEF LogsIn
  <2>3. CASE g # h
    <3>1. handler'[g] = handler[g]
      BY <2>3 DEF Frame
    <3>2. ~(LogsIn(h) /\ i = handler[h].id)
      BY <1>0, <2>1, <2>3, DevicesParts
    <3> QED BY <1>0, <2>1, <3>1, <3>2, DevicesParts
  <2> QED BY <2>2, <2>3
<1> QED BY <1>3, <1>4 DEF DevicesInv, DeviceOf

\* A step that stores no session and sets no key.
LEMMA DevicesMove ==
  ASSUME TypeOK, HandlersInv, DevicesInv, NEW h \in Handlers, Frame(h), SameLogin(h),
         Serial' => sessions' \subseteq sessions, deviceKey' = deviceKey,
         HasStored(h) => HasStored(h)',
         Serial' /\ handler'[h].op = "login" =>
           \A i \in sessions' : DeviceOf(i) = DeviceOf(handler[h].id) => MayFind(handler'[h], i)
  PROVE  DevicesInv'
<1>1. ASSUME Serial', NEW i \in sessions' PROVE KeyNamed(i)'
  <2>1. Serial
    BY <1>1, SerialBefore DEF Frame
  <2>2. KeyNamed(i)
    BY <1>1, <2>1, DevicesParts
  <2> QED BY <2>2, NamesKept
<1> QED BY <1>1, DevicesKept

\* Every step of a request leaves the others alone.
LEMMA FrameOf ==
  ASSUME TypeOK, HandlersInv, NEW h \in Handlers, Serve(h)
  PROVE  Frame(h)
  BY ServeFrame DEF Frame

\* A handler that is done is no login.
LEMMA StopsLogin ==
  ASSUME NEW h \in Handlers, Stops(h)
  PROVE  SameLogin(h) /\ handler'[h].op = "none"
  BY DEF Stops, Goes, SameLogin

\* A login that has ended the old session stores its own.
LEMMA ReturnedLogin ==
  ASSUME NEW h \in Handlers, Returned(h)
  PROVE  /\ SameLogin(h)
         /\ handler'[h].op = "login" => LogsIn(h) /\ handler'[h].step = "store"
  BY DEF Returned, Stops, Goes, SameLogin, LogsIn

\* Every step of a request keeps DevicesInv.
LEMMA ServeDevices ==
  ASSUME TypeOK, HandlersInv, LoginsInv, GoneInv, DevicesInv, NEW h \in Handlers, Serve(h)
  PROVE  DevicesInv'
<1> DEFINE s == handler[h]
<1>0. Frame(h)
  BY FrameOf
<1>s. Serial' => Serial
  BY <1>0, SerialBefore DEF Frame
<1>a. /\ s.op \in {"none", "login", "refresh", "logout", "endAll"} /\ s.step \in StepsOf(s.op)
      /\ s.step \in {"update", "all", "delList"} => s.op = "endAll"
  BY OpSteps
<1>b. ASSUME Serial', LogsIn(h), NEW i \in sessions, DeviceOf(i) = DeviceOf(s.id) PROVE MayFind(s, i)
  BY <1>s, <1>b, DevicesParts
<1>1. CASE GetSession(h)
  <2>1. s.step = "get" /\ sessions' = sessions /\ deviceKey' = deviceKey /\ ~HasStored(h)
    BY <1>1 DEF GetSession, redisVars, At, HasStored
  <2>2. CASE s.target \in sessions /\ Goes(h, s.op, "del", s.id, s.target, s.todo, s.seen)
    <3>1. /\ handler'[h].op = s.op /\ handler'[h].step = "del" /\ handler'[h].id = s.id
          /\ handler'[h].target = s.target /\ SameLogin(h)
      BY <2>2 DEF Goes, SameLogin, LogsIn
    <3>2. ASSUME Serial', handler'[h].op = "login", NEW i \in sessions', DeviceOf(i) = DeviceOf(s.id)
          PROVE  MayFind(handler'[h], i)
      <4>1. MayFind(s, i)
        BY <1>b, <2>1, <3>1, <3>2 DEF LogsIn
      <4> QED BY <2>1, <3>1, <4>1 DEF MayFind
    <3> QED BY <1>0, <2>1, <3>1, <3>2, DevicesMove
  <2>3. CASE s.target \notin sessions /\ Returned(h)
    <3>1. SameLogin(h) /\ (handler'[h].op = "login" => LogsIn(h))
      BY <2>3, ReturnedLogin
    <3>2. ASSUME Serial', handler'[h].op = "login", NEW i \in sessions', DeviceOf(i) = DeviceOf(s.id)
          PROVE  MayFind(handler'[h], i)
      <4>1. MayFind(s, i)
        BY <1>b, <2>1, <3>1, <3>2
      <4> QED BY <2>1, <2>3, <3>2, <4>1 DEF MayFind
    <3> QED BY <1>0, <2>1, <3>1, <3>2, DevicesMove
  <2> QED BY <1>1, <2>2, <2>3, GetSessionForm
<1>2. CASE DeleteSession(h)
  <2>1. /\ s.step = "del" /\ handler'[h].step = "listGet" /\ handler'[h].op = s.op
        /\ handler'[h].id = s.id /\ handler'[h].target = s.target
        /\ sessions' \subseteq sessions /\ deviceKey' = deviceKey
    BY <1>2, DeleteSessionForm DEF DeleteSession, redisVars, Goes, At
  <2>2. SameLogin(h) /\ (HasStored(h) => HasStored(h)')
    BY <2>1 DEF SameLogin, HasStored, LogsIn
  <2>3. ASSUME Serial', handler'[h].op = "login", NEW i \in sessions', DeviceOf(i) = DeviceOf(s.id)
        PROVE  MayFind(handler'[h], i)
    <3>1. MayFind(s, i) /\ i # s.target
      BY <1>2, <1>b, <2>1, <2>3 DEF LogsIn, DeleteSession
    <3> QED BY <2>1, <3>1 DEF MayFind
  <2> QED BY <1>0, <2>1, <2>2, <2>3, DevicesMove
<1>3. CASE ReadList(h)
  <2>1. /\ s.step = "listGet" /\ handler'[h].step = "listSet" /\ handler'[h].op = s.op
        /\ handler'[h].id = s.id /\ handler'[h].target = s.target
        /\ sessions' \subseteq sessions /\ deviceKey' = deviceKey
    BY <1>3, ReadListForm DEF ReadList, redisVars, Goes, At
  <2>2. SameLogin(h) /\ (HasStored(h) => HasStored(h)')
    BY <2>1 DEF SameLogin, HasStored, LogsIn
  <2>3. ASSUME Serial', handler'[h].op = "login", NEW i \in sessions', DeviceOf(i) = DeviceOf(s.id)
        PROVE  MayFind(handler'[h], i)
    <3>1. MayFind(s, i)
      BY <1>b, <2>1, <2>3 DEF LogsIn
    <3> QED BY <2>1, <3>1 DEF MayFind
  <2> QED BY <1>0, <2>1, <2>2, <2>3, DevicesMove
<1>4. CASE RemoveFromList(h)
  <2>1. /\ s.step = "listSet" /\ handler'[h].step = "delDevice" /\ handler'[h].op = s.op
        /\ handler'[h].id = s.id /\ handler'[h].target = s.target
        /\ sessions' \subseteq sessions /\ deviceKey' = deviceKey
    BY <1>4, RemoveFromListForm DEF RemoveFromList, redisVars, Goes, At
  <2>2. SameLogin(h) /\ (HasStored(h) => HasStored(h)')
    BY <2>1 DEF SameLogin, HasStored, LogsIn
  <2>3. ASSUME Serial', handler'[h].op = "login", NEW i \in sessions', DeviceOf(i) = DeviceOf(s.id)
        PROVE  MayFind(handler'[h], i)
    <3>1. MayFind(s, i)
      BY <1>b, <2>1, <2>3 DEF LogsIn
    <3> QED BY <2>1, <3>1 DEF MayFind
  <2> QED BY <1>0, <2>1, <2>2, <2>3, DevicesMove
<1>5. CASE DeleteDeviceKey(h)
  <2>1. /\ s.step = "delDevice" /\ sessions' = sessions /\ ~HasStored(h)
        /\ deviceKey' = [deviceKey EXCEPT ![DeviceOf(s.target)] = 0]
        /\ "device" \notin races' => deviceKey[DeviceOf(s.target)] \in {0, s.target}
    BY <1>5 DEF DeleteDeviceKey, redisVars, At, HasStored, DeviceOf, Records
  <2>2. Returned(h) /\ SameLogin(h) /\ (handler'[h].op = "login" => LogsIn(h) /\ handler'[h].step = "store")
    BY <1>5, DeleteDeviceKeyForm, ReturnedLogin
  <2>3. ASSUME Serial', NEW i \in sessions' PROVE KeyNamed(i)'
    <3>1. KeyNamed(i) /\ i # s.target /\ i # 0
      BY <1>s, <2>1, <2>3, DevicesParts DEF GoneInv, Serial, TypeOK
    <3>2. CASE DeviceOf(i) # DeviceOf(s.target)
      <4>1. i \in 1..Len(made)
        BY <2>1, <2>3 DEF TypeOK
      <4>2. DeviceOf(i) \in Devices /\ deviceKey \in [Devices -> 0..Len(made)]
        BY <4>1, MadeType DEF DeviceOf, TypeOK
      <4>3. deviceKey'[DeviceOf(i)] = deviceKey[DeviceOf(i)]
        BY <2>1, <3>2, <4>2
      <4> QED BY <1>0, <2>1, <3>1, <4>3, NamesKept
    <3>3. CASE DeviceOf(i) = DeviceOf(s.target)
      <4>1. deviceKey[DeviceOf(i)] # i
        BY <2>1, <2>3, <3>1, <3>3 DEF Serial
      <4>2. PICK g \in Handlers : HasStored(g) /\ handler[g].id = i
        BY <3>1, <4>1 DEF KeyNamed, HasStored
      <4>3. g # h
        BY <2>1, <4>2
      <4>4. HasStored(g)' /\ handler'[g].id = i
        BY <1>0, <4>2, <4>3 DEF Frame, HasStored, LogsIn
      <4> QED BY <4>4 DEF KeyNamed, HasStored
    <3> QED BY <3>2, <3>3
  <2>4. ASSUME Serial', handler'[h].op = "login", NEW i \in sessions', DeviceOf(i) = DeviceOf(s.id)
        PROVE  MayFind(handler'[h], i)
    <3>1. MayFind(s, i)
      BY <1>b, <2>1, <2>2, <2>4
    <3>2. handler'[h].step = "store" /\ handler'[h].id = s.id
      BY <2>2, <2>4 DEF SameLogin
    <3> QED BY <2>1, <3>1, <3>2 DEF MayFind
  <2> QED BY <1>0, <2>1, <2>2, <2>3, <2>4, DevicesKept
<1>6. CASE GetDeviceKey(h)
  <2>1. /\ s.step = "device" /\ sessions' = sessions /\ deviceKey' = deviceKey /\ ~HasStored(h)
        /\ LogsIn(h)
    BY <1>6, LoginId DEF GetDeviceKey, redisVars, At, HasStored
  <2>2. ASSUME Serial', NEW i \in sessions', DeviceOf(i) = DeviceOf(s.id)
        PROVE  i = deviceKey[DeviceOf(s.id)] /\ i # 0
    <3>1. KeyNamed(i) /\ i # 0
      BY <1>s, <2>1, <2>2, DevicesParts DEF TypeOK
    <3>2. ~\E g \in Handlers : HasStored(g) /\ handler[g].id = i
      <4> SUFFICES ASSUME NEW g \in Handlers, HasStored(g), handler[g].id = i PROVE FALSE
        OBVIOUS
      <4>1. LogsIn(g) /\ DeviceOf(handler[g].id) = DeviceOf(handler[h].id)
        BY <2>2 DEF HasStored
      <4>2. g = h
        BY <1>s, <2>1, <2>2, <4>1, DevicesParts
      <4> QED BY <2>1, <4>2
    <3> QED BY <2>2, <3>1, <3>2 DEF KeyNamed, HasStored
  <2>3. CASE deviceKey[DeviceOf(s.id)] = 0 /\ Goes(h, s.op, "store", s.id, s.target, s.todo, s.seen)
    <3>1. SameLogin(h)
      BY <2>1, <2>3 DEF Goes, SameLogin, LogsIn
    <3> QED BY <1>0, <2>1, <2>2, <2>3, <3>1, DevicesMove
  <2>4. CASE Goes(h, s.op, "get", s.id, deviceKey[DeviceOf(s.id)], s.todo, s.seen)
    <3>1. /\ SameLogin(h) /\ handler'[h].step = "get"
          /\ handler'[h].target = deviceKey[DeviceOf(s.id)]
      BY <2>1, <2>4 DEF Goes, SameLogin, LogsIn
    <3>2. ASSUME Serial', NEW i \in sessions', DeviceOf(i) = DeviceOf(s.id)
          PROVE  MayFind(handler'[h], i)
      BY <2>2, <3>1, <3>2 DEF MayFind
    <3> QED BY <1>0, <2>1, <3>1, <3>2, DevicesMove
  <2> QED BY <1>6, <2>3, <2>4, GetDeviceKeyForm
<1>7. CASE StoreSession(h)
  <2>1. /\ s.step = "store" /\ sessions' = sessions \cup {s.id} /\ deviceKey' = deviceKey
        /\ LogsIn(h) /\ ~HasStored(h)
    BY <1>7, LoginId DEF StoreSession, At, HasStored
  <2>2. /\ handler'[h].op = "login" /\ handler'[h].step = "trackGet" /\ handler'[h].id = s.id
        /\ SameLogin(h) /\ HasStored(h)'
    BY <1>7, <2>1, StoreSessionForm DEF Goes, SameLogin, HasStored, LogsIn
  <2>3. ASSUME Serial', NEW i \in sessions' PROVE KeyNamed(i)'
    <3>1. CASE i = s.id
      BY <2>2, <3>1 DEF KeyNamed, HasStored
    <3>2. CASE i \in sessions
      <4>1. KeyNamed(i)
        BY <1>s, <2>3, <3>2, DevicesParts
      <4> QED BY <1>0, <2>1, <4>1, NamesKept
    <3> QED BY <2>1, <3>1, <3>2
  <2>4. ASSUME Serial', NEW i \in sessions', DeviceOf(i) = DeviceOf(s.id)
        PROVE  MayFind(handler'[h], i)
    <3>1. i = s.id
      <4>1. CASE i \in sessions
        BY <1>b, <2>1, <2>4, <4>1 DEF MayFind
      <4> QED BY <2>1, <2>4, <4>1
    <3> QED BY <2>2, <3>1 DEF MayFind
  <2> QED BY <1>0, <2>1, <2>2, <2>3, <2>4, DevicesKept
<1>8. CASE ReadListToTrack(h)
  <2>1. /\ s.step = "trackGet" /\ handler'[h].step = "trackSet" /\ handler'[h].op = s.op
        /\ handler'[h].id = s.id /\ handler'[h].target = s.target
        /\ sessions' \subseteq sessions /\ deviceKey' = deviceKey
    BY <1>8, ReadListToTrackForm DEF ReadListToTrack, redisVars, Goes, At
  <2>2. SameLogin(h) /\ (HasStored(h) => HasStored(h)')
    BY <2>1 DEF SameLogin, HasStored, LogsIn
  <2>3. ASSUME Serial', handler'[h].op = "login", NEW i \in sessions', DeviceOf(i) = DeviceOf(s.id)
        PROVE  MayFind(handler'[h], i)
    <3>1. MayFind(s, i)
      BY <1>b, <2>1, <2>3 DEF LogsIn
    <3> QED BY <2>1, <3>1 DEF MayFind
  <2> QED BY <1>0, <2>1, <2>2, <2>3, DevicesMove
<1>9. CASE Track(h)
  <2>1. /\ s.step = "trackSet" /\ handler'[h].step = "map" /\ handler'[h].op = s.op
        /\ handler'[h].id = s.id /\ handler'[h].target = s.target
        /\ sessions' \subseteq sessions /\ deviceKey' = deviceKey
    BY <1>9, TrackForm DEF Track, redisVars, Goes, At
  <2>2. SameLogin(h) /\ (HasStored(h) => HasStored(h)')
    BY <2>1 DEF SameLogin, HasStored, LogsIn
  <2>3. ASSUME Serial', handler'[h].op = "login", NEW i \in sessions', DeviceOf(i) = DeviceOf(s.id)
        PROVE  MayFind(handler'[h], i)
    <3>1. MayFind(s, i)
      BY <1>b, <2>1, <2>3 DEF LogsIn
    <3> QED BY <2>1, <3>1 DEF MayFind
  <2> QED BY <1>0, <2>1, <2>2, <2>3, DevicesMove
<1>10. CASE SetDeviceKey(h)
  <2>1. /\ s.step = "map" /\ sessions' = sessions /\ LogsIn(h) /\ s.id \in 1..Len(made)
        /\ deviceKey' = [deviceKey EXCEPT ![DeviceOf(s.id)] = s.id]
    BY <1>10, LoginId DEF SetDeviceKey, At, DeviceOf
  <2>2. SameLogin(h) /\ handler'[h].op = "none"
    BY <1>10, SetDeviceKeyForm, StopsLogin
  <2>3. ASSUME Serial', NEW i \in sessions' PROVE KeyNamed(i)'
    <3>1. KeyNamed(i)
      BY <1>s, <2>1, <2>3, DevicesParts
    <3>2. DeviceOf(i) \in Devices /\ DeviceOf(s.id) \in Devices /\ deviceKey \in [Devices -> 0..Len(made)]
      <4>1. i \in 1..Len(made)
        BY <2>1, <2>3 DEF TypeOK
      <4> QED BY <2>1, <4>1, MadeType DEF DeviceOf, TypeOK
    <3>3. DeviceOf(i)' = DeviceOf(i)
      BY <1>0 DEF Frame, DeviceOf
    <3>4. CASE DeviceOf(i) = DeviceOf(s.id)
      <4>1. i = s.id
        <5>1. MayFind(s, i)
          BY <1>b, <2>1, <2>3, <3>4
        <5> QED BY <2>1, <5>1 DEF MayFind
      <4>2. deviceKey'[DeviceOf(i)] = i
        BY <2>1, <3>2, <3>4, <4>1
      <4> QED BY <3>3, <4>2 DEF KeyNamed
    <3>5. CASE DeviceOf(i) # DeviceOf(s.id)
      <4>1. deviceKey'[DeviceOf(i)] = deviceKey[DeviceOf(i)]
        BY <2>1, <3>2, <3>5
      <4>2. CASE deviceKey[DeviceOf(i)] = i
        BY <3>3, <4>1, <4>2 DEF KeyNamed
      <4>3. CASE deviceKey[DeviceOf(i)] # i
        <5>1. PICK g \in Handlers : HasStored(g) /\ handler[g].id = i
          BY <3>1, <4>3 DEF KeyNamed, HasStored
        <5>2. g # h
          BY <3>5, <5>1
        <5>3. HasStored(g)' /\ handler'[g].id = i
          BY <1>0, <5>1, <5>2 DEF Frame, HasStored, LogsIn
        <5> QED BY <5>3 DEF KeyNamed, HasStored
      <4> QED BY <4>2, <4>3
    <3> QED BY <3>4, <3>5
  <2> QED BY <1>0, <2>1, <2>2, <2>3, DevicesKept
<1>11. CASE Touch(h)
  <2>1. s.step = "touch" /\ s.op # "login" /\ ~HasStored(h)
    BY <1>11, <1>a, RefreshId DEF Touch, At, HasStored
  <2>2. handler'[h].op # "login" /\ SameLogin(h)
    BY <1>11, <2>1, TouchForm DEF Goes, Stops, SameLogin
  <2>3. deviceKey' = deviceKey /\ (Serial' => sessions' \subseteq sessions)
    BY <1>11 DEF Touch, redisVars, Records, Serial
  <2> QED BY <1>0, <2>1, <2>2, <2>3, DevicesMove
<1>12. CASE WriteBack(h)
  <2>1. s.step = "touchSet" /\ s.op # "login" /\ ~HasStored(h)
    BY <1>12, <1>a, RefreshId DEF WriteBack, At, HasStored
  <2>2. handler'[h].op # "login" /\ SameLogin(h)
    BY <1>12, <2>1, WriteBackForm DEF Goes, Stops, SameLogin
  <2>3. deviceKey' = deviceKey /\ (Serial' => sessions' \subseteq sessions)
    BY <1>12 DEF WriteBack, redisVars, Records, Serial
  <2> QED BY <1>0, <2>1, <2>2, <2>3, DevicesMove
<1>13. CASE UpdatePassword(h)
  <2>1. s.step = "update" /\ s.op # "login" /\ ~HasStored(h)
    BY <1>13, <1>a, RefreshId DEF UpdatePassword, At, HasStored
  <2>2. handler'[h].op # "login" /\ SameLogin(h)
    BY <1>13, <2>1, UpdatePasswordForm DEF Goes, Stops, SameLogin
  <2>3. deviceKey' = deviceKey /\ (Serial' => sessions' \subseteq sessions)
    BY <1>13 DEF UpdatePassword, redisVars, Records, Serial
  <2> QED BY <1>0, <2>1, <2>2, <2>3, DevicesMove
<1>14. CASE ReadAll(h)
  <2>1. s.step = "all" /\ s.op # "login" /\ ~HasStored(h)
    BY <1>14, <1>a, RefreshId DEF ReadAll, At, HasStored
  <2>2. handler'[h].op # "login" /\ SameLogin(h)
    BY <1>14, <2>1, ReadAllForm DEF Goes, Stops, SameLogin
  <2>3. deviceKey' = deviceKey /\ (Serial' => sessions' \subseteq sessions)
    BY <1>14 DEF ReadAll, redisVars, Records, Serial
  <2> QED BY <1>0, <2>1, <2>2, <2>3, DevicesMove
<1>15. CASE DeleteList(h)
  <2>1. s.step = "delList" /\ s.op # "login" /\ ~HasStored(h)
    BY <1>15, <1>a, RefreshId DEF DeleteList, At, HasStored
  <2>2. handler'[h].op # "login" /\ SameLogin(h)
    BY <1>15, <2>1, DeleteListForm DEF Goes, Stops, SameLogin
  <2>3. deviceKey' = deviceKey /\ (Serial' => sessions' \subseteq sessions)
    BY <1>15 DEF DeleteList, redisVars, Records, Serial
  <2> QED BY <1>0, <2>1, <2>2, <2>3, DevicesMove
<1>16. CASE StepFails(h)
  <2>1. failures' # 0
    BY <1>16 DEF StepFails, TypeOK
  <2> QED BY <2>1 DEF DevicesInv
<1> QED BY <1>1, <1>2, <1>3, <1>4, <1>5, <1>6, <1>7, <1>8, <1>9, <1>10, <1>11, <1>12, <1>13, <1>14,
           <1>15, <1>16 DEF Serve

\* A login keeps it: no other login of the device is under way.
LEMMA LoginDevices ==
  ASSUME TypeOK, HandlersInv, LoginsInv, DevicesInv, NEW h \in Handlers, NEW d \in Devices, Login(h, d)
  PROVE  DevicesInv'
<1> DEFINE n == Len(made) + 1
<1>1. /\ sessions' = sessions /\ deviceKey' = deviceKey /\ races \subseteq races' /\ failures' = failures
      /\ \A g \in Handlers \ {h} : handler'[g] = handler[g]
      /\ \A i \in 1..Len(made) : made'[i] = made[i]
  <2>1. Arrive(h)
    BY DEF Arrive
  <2> QED BY <2>1, ArriveFrame
<1>2. /\ handler'[h].op = "login" /\ handler'[h].step = "device" /\ handler'[h].id = n
      /\ made'[n].device = d
  <2>1. /\ made'[n] = [device |-> d, password |-> password]
        /\ Goes(h, "login", "device", n, n, <<>>, <<>>)
    BY LoginForm
  <2> HIDE DEF n
  <2> QED BY <2>1 DEF Goes
<1>3. ~LogsIn(h)
  <2>1. handler[h].step = "idle" /\ handler[h].step \in StepsOf(handler[h].op)
    BY OpSteps DEF Login, Receive, At
  <2> QED BY <2>1 DEF LogsIn, StepsOf, BeforeTrack, BeforeStore, InvalidateSteps
<1>4. "login" \notin races' =>
        ~\E g \in Handlers : LogsIn(g) /\ DeviceOf(handler[g].id) = d
  BY DEF Login, Records, LogsIn, DeviceOf
<1> SUFFICES ASSUME Serial' PROVE DevicesInv'
  BY DEF DevicesInv, Serial
<1>5. Serial /\ "login" \notin races'
  BY <1>1 DEF Serial
<1>6. ASSUME NEW i \in sessions' PROVE i \in sessions /\ DeviceOf(i)' = DeviceOf(i)
  BY <1>1, <1>6 DEF TypeOK, DeviceOf
<1>7. ASSUME NEW i \in sessions' PROVE KeyNamed(i)'
  <2>1. KeyNamed(i)
    BY <1>5, <1>6, <1>7, DevicesParts
  <2>2. CASE deviceKey[DeviceOf(i)] = i
    BY <1>1, <1>6, <1>7, <2>2 DEF KeyNamed
  <2>3. CASE deviceKey[DeviceOf(i)] # i
    <3>1. PICK g \in Handlers : HasStored(g) /\ handler[g].id = i
      BY <2>1, <2>3 DEF KeyNamed, HasStored
    <3>2. g # h
      BY <1>3, <3>1 DEF HasStored
    <3>3. HasStored(g)' /\ handler'[g].id = i
      BY <1>1, <3>1, <3>2 DEF HasStored, LogsIn
    <3> QED BY <3>3 DEF KeyNamed, HasStored
  <2> QED BY <2>2, <2>3
<1>8. ASSUME NEW g \in Handlers, g # h, LogsIn(g)'
      PROVE  /\ LogsIn(g) /\ handler'[g] = handler[g]
             /\ made'[handler'[g].id].device = DeviceOf(handler[g].id)
             /\ DeviceOf(handler[g].id) # d
  <2>1. handler'[g] = handler[g] /\ LogsIn(g)
    BY <1>1, <1>8 DEF LogsIn
  <2>2. handler[g].id \in 1..Len(made)
    BY <2>1, LoginOfId
  <2> QED BY <1>1, <1>4, <1>5, <2>1, <2>2 DEF DeviceOf
<1>9. ASSUME NEW g \in Handlers, NEW k \in Handlers, LogsIn(g)', LogsIn(k)',
             made'[handler'[g].id].device = made'[handler'[k].id].device
      PROVE  g = k
  <2>1. CASE g = h \/ k = h
    BY <1>2, <1>8, <1>9, <2>1
  <2>2. CASE g # h /\ k # h
    BY <1>5, <1>8, <1>9, <2>2, DevicesParts
  <2> QED BY <2>1, <2>2
<1>10. ASSUME NEW g \in Handlers, NEW i \in sessions', LogsIn(g)',
              made'[i].device = made'[handler'[g].id].device
       PROVE  MayFind(handler'[g], i)
  <2>1. CASE g = h
    BY <1>2, <2>1 DEF MayFind
  <2>2. CASE g # h
    <3>1. LogsIn(g) /\ handler'[g] = handler[g] /\ DeviceOf(i) = DeviceOf(handler[g].id)
      BY <1>6, <1>8, <1>10, <2>2 DEF DeviceOf
    <3> QED BY <1>5, <1>6, <1>10, <3>1, DevicesParts
  <2> QED BY <2>1, <2>2
<1> QED BY <1>7, <1>9, <1>10 DEF DevicesInv, DeviceOf

\* Every step keeps DevicesInv.
LEMMA DevicesStep ==
  ASSUME TypeOK, HandlersInv, LoginsInv, GoneInv, DevicesInv, [Next]_vars
  PROVE  DevicesInv'
<1>1. CASE Expire
  <2>1. /\ sessions' = sessions \ {expired + 1} /\ UNCHANGED <<made, handler, races, failures>>
        /\ \A d \in Devices : deviceKey[d] # expired + 1 => deviceKey'[d] = deviceKey[d]
    BY <1>1 DEF Expire, budgets
  <2>2. ASSUME Serial, NEW i \in sessions' PROVE KeyNamed(i)'
    <3>1. KeyNamed(i) /\ i # expired + 1 /\ i \in 1..Len(made)
      BY <2>1, <2>2, DevicesParts DEF TypeOK
    <3>2. DeviceOf(i) \in Devices
      BY <3>1, MadeType DEF DeviceOf
    <3>3. CASE deviceKey[DeviceOf(i)] = i
      BY <2>1, <3>1, <3>2, <3>3 DEF KeyNamed, DeviceOf
    <3>4. CASE deviceKey[DeviceOf(i)] # i
      BY <2>1, <3>1, <3>4 DEF KeyNamed, LogsIn
    <3> QED BY <3>3, <3>4
  <2>3. sessions' \subseteq sessions /\ (Serial' => Serial)
    BY <2>1 DEF Serial
  <2>4. Serial' => Serial /\ \A i \in sessions' : KeyNamed(i)'
    BY <2>2, <2>3
  <2> QED BY <2>1, <2>3, <2>4 DEF DevicesInv, DeviceOf, LogsIn, Serial
<1>2. CASE UNCHANGED vars
  BY <1>2 DEF DevicesInv, KeyNamed, DeviceOf, LogsIn, vars
<1>3. ASSUME NEW h \in Handlers, Arrive(h) PROVE DevicesInv'
  <2>1. CASE \E d \in Devices : Login(h, d)
    BY <2>1, LoginDevices
  <2>2. CASE ~\E d \in Devices : Login(h, d)
    <3>1. /\ Frame(h) /\ sessions' = sessions /\ deviceKey' = deviceKey
          /\ handler'[h] = handler[h] \/ handler'[h].op # "login"
      BY <1>3, <2>2, ArriveFrame DEF Frame
    <3>2. ~LogsIn(h)
      <4>1. handler[h].step = "idle" /\ handler[h].step \in StepsOf(handler[h].op)
        BY <1>3, OpSteps DEF Arrive, Login, Refresh, EndSessions, RevokeSession, ForgotPassword,
                             ResetPassword, Receive, At
      <4> QED BY <4>1 DEF LogsIn, StepsOf, BeforeTrack, BeforeStore, InvalidateSteps
    <3>3. handler'[h].op # "login" /\ SameLogin(h) /\ ~HasStored(h)
      BY <3>1, <3>2 DEF SameLogin, HasStored, LogsIn
    <3> QED BY <3>1, <3>3, DevicesMove
  <2> QED BY <2>1, <2>2
<1> QED BY <1>1, <1>2, <1>3, ServeDevices DEF Next

-----------------------------------------------------------------------------
(* SessionsTracked                                                         *)

\* The behaviours that SessionsTracked is about.
Listing == failures = 0 /\ races \cap {"list", "all", "touch"} = {}

\* A login that is about to track its session.
Tracking(h) == LogsIn(h) /\ handler[h].step \in {"trackGet", "trackSet"}

\* A session that is in the list or about to be.
Findable(i) == i \in ListedIn(list) \/ \E h \in Handlers : Tracking(h) /\ handler[h].id = i

\* SessionsTracked in these terms.
LEMMA TrackedForm == SessionsTracked <=> (Listing => \A i \in sessions : Findable(i))
<1>1. \A i : Findable(i) <=>
        \/ i \in ListedIn(list)
        \/ \E h \in Handlers : /\ handler[h].op = "login" /\ handler[h].id = i
                               /\ handler[h].step \in {"trackGet", "trackSet"}
  BY DEF Findable, Tracking, LogsIn
<1> QED BY <1>1 DEF SessionsTracked, Listing

\* The same of the next state.
LEMMA TrackedFormNext ==
  ASSUME Listing' => \A i \in sessions' : Findable(i)'
  PROVE  SessionsTracked'
<1>1. \A i : Findable(i)' <=>
        \/ i \in ListedIn(list')
        \/ \E h \in Handlers : /\ handler'[h].op = "login" /\ handler'[h].id = i
                               /\ handler'[h].step \in {"trackGet", "trackSet"}
  BY DEF Findable, Tracking, LogsIn
<1> QED BY <1>1 DEF SessionsTracked, Listing

\* They are such behaviours at every earlier state.
LEMMA ListingBefore ==
  ASSUME NEW h \in Handlers, Frame(h), Listing'
  PROVE  Listing
  BY DEF Frame, Listing

\* What a step owes to SessionsTracked.
LEMMA TrackedMove ==
  ASSUME SessionsTracked, NEW h \in Handlers, Frame(h),
         Listing' => \A i \in sessions' :
           \/ Findable(i)'
           \/ i \in sessions /\ (i \in ListedIn(list) => i \in ListedIn(list')),
         Tracking(h) => (Tracking(h)' /\ SameLogin(h)) \/ (Listing' => handler[h].id \in ListedIn(list'))
  PROVE  SessionsTracked'
<1>1. ASSUME Listing', NEW i \in sessions' PROVE Findable(i)'
  <2>1. CASE Findable(i)'
    BY <2>1
  <2>2. CASE i \in sessions /\ (i \in ListedIn(list) => i \in ListedIn(list'))
    <3>1. Findable(i)
      BY <1>1, <2>2, ListingBefore, TrackedForm
    <3>2. CASE i \in ListedIn(list)
      BY <2>2, <3>2 DEF Findable
    <3>3. CASE \E g \in Handlers : Tracking(g) /\ handler[g].id = i
      <4>1. PICK g \in Handlers : Tracking(g) /\ handler[g].id = i
        BY <3>3
      <4>2. CASE g = h
        BY <1>1, <4>1, <4>2 DEF Findable, Tracking, SameLogin, LogsIn
      <4>3. CASE g # h
        BY <4>1, <4>3 DEF Findable, Tracking, Frame, LogsIn
      <4> QED BY <4>2, <4>3
    <3> QED BY <3>1, <3>2, <3>3 DEF Findable
  <2> QED BY <1>1, <2>1, <2>2
<1> QED BY <1>1, TrackedFormNext

\* Every step of a request keeps SessionsTracked.
LEMMA ServeTracked ==
  ASSUME TypeOK, HandlersInv, LoginsInv, GoneInv, SessionsTracked, NEW h \in Handlers, Serve(h)
  PROVE  SessionsTracked'
<1> DEFINE s == handler[h]
<1>0. Frame(h)
  BY FrameOf
<1>a. /\ s.op \in {"none", "login", "refresh", "logout", "endAll"} /\ s.step \in StepsOf(s.op)
  BY OpSteps
<1>1. CASE GetSession(h)
  <2>1. (Listing' => sessions' \subseteq sessions) /\ list' = list
    BY <1>1 DEF GetSession, redisVars, Records, Listing
  <2>2. ~Tracking(h)
    BY <1>1 DEF GetSession, At, Tracking
  <2> QED BY <1>0, <2>1, <2>2, TrackedMove
<1>2. CASE DeleteSession(h)
  <2>1. (Listing' => sessions' \subseteq sessions) /\ list' = list
    BY <1>2 DEF DeleteSession, redisVars, Records, Listing
  <2>2. ~Tracking(h)
    BY <1>2 DEF DeleteSession, At, Tracking
  <2> QED BY <1>0, <2>1, <2>2, TrackedMove
<1>3. CASE ReadList(h)
  <2>1. (Listing' => sessions' \subseteq sessions) /\ list' = list
    BY <1>3 DEF ReadList, redisVars, Records, Listing
  <2>2. ~Tracking(h)
    BY <1>3 DEF ReadList, At, Tracking
  <2> QED BY <1>0, <2>1, <2>2, TrackedMove
<1>4. CASE RemoveFromList(h)
  <2>1. /\ sessions' = sessions /\ ~Tracking(h) /\ s.step = "listSet"
        /\ list' = Without(s.seen, s.target) /\ ("list" \notin races' => s.seen = list)
    BY <1>4 DEF RemoveFromList, At, Tracking, Records
  <2>2. s.seen \in Seq(1..Len(made)) /\ Distinct(s.seen)
    BY DEF TypeOK, IsList
  <2>3. ListedIn(list') = ListedIn(s.seen) \ {s.target}
    BY <2>1, <2>2, WithoutList
  <2>4. ASSUME Listing', NEW i \in sessions' PROVE i \in sessions /\ i # s.target /\ s.seen = list
    <3>1. "touch" \notin races /\ "list" \notin races'
      BY <1>0, <2>4 DEF Frame, Listing
    <3> QED BY <2>1, <2>4, <3>1 DEF GoneInv
  <2> QED BY <1>0, <2>1, <2>3, <2>4, TrackedMove
<1>5. CASE DeleteDeviceKey(h)
  <2>1. (Listing' => sessions' \subseteq sessions) /\ list' = list
    BY <1>5 DEF DeleteDeviceKey, redisVars, Records, Listing
  <2>2. ~Tracking(h)
    BY <1>5 DEF DeleteDeviceKey, At, Tracking
  <2> QED BY <1>0, <2>1, <2>2, TrackedMove
<1>6. CASE GetDeviceKey(h)
  <2>1. (Listing' => sessions' \subseteq sessions) /\ list' = list
    BY <1>6 DEF GetDeviceKey, redisVars, Records, Listing
  <2>2. ~Tracking(h)
    BY <1>6 DEF GetDeviceKey, At, Tracking
  <2> QED BY <1>0, <2>1, <2>2, TrackedMove
<1>7. CASE StoreSession(h)
  <2>1. /\ sessions' = sessions \cup {s.id} /\ list' = list /\ LogsIn(h)
        /\ s.step = "store" /\ ~Tracking(h)
    BY <1>7, LoginId DEF StoreSession, At, Tracking
  <2>2. handler'[h].id = s.id /\ Tracking(h)'
    BY <1>7, <2>1, StoreSessionForm DEF Goes, Tracking, LogsIn
  <2>3. Findable(s.id)'
    BY <2>2 DEF Findable
  <2>4. Listing' => \A i \in sessions' : \/ Findable(i)'
                                         \/ i \in sessions /\ (i \in ListedIn(list) => i \in ListedIn(list'))
    <3> SUFFICES ASSUME NEW i \in sessions', i # s.id PROVE i \in sessions
      BY <2>1, <2>3, <2>2 DEF Findable
    <3> QED BY <2>1
  <2> QED BY <1>0, <2>1, <2>4, TrackedMove
<1>8. CASE ReadListToTrack(h)
  <2>1. sessions' = sessions /\ list' = list
    BY <1>8 DEF ReadListToTrack, redisVars
  <2>2. Tracking(h) => Tracking(h)' /\ SameLogin(h)
    BY <1>8, ReadListToTrackForm DEF Goes, Tracking, LogsIn, SameLogin
  <2> QED BY <1>0, <2>1, <2>2, TrackedMove
<1>9. CASE Track(h)
  <2>1. /\ sessions' = sessions /\ list' = Append(s.seen, s.id) /\ s.step = "trackSet"
        /\ ("list" \notin races' => s.seen = list)
    BY <1>9 DEF Track, At, Records
  <2>2. s.seen \in Seq(1..Len(made)) /\ s.id \in 1..Len(made)
    BY <2>1, LoginId DEF TypeOK, IsList
  <2>3. ListedIn(list') = ListedIn(s.seen) \cup {s.id}
    BY <2>1, <2>2, AppendList
  <2>4. Listing' => s.seen = list
    BY <2>1 DEF Listing
  <2>5. Tracking(h) => (Tracking(h)' /\ SameLogin(h)) \/ (Listing' => s.id \in ListedIn(list'))
    BY <2>3
  <2>6. Listing' => \A i \in sessions' : i \in sessions /\ (i \in ListedIn(list) => i \in ListedIn(list'))
    BY <2>1, <2>3, <2>4
  <2> QED BY <1>0, <2>5, <2>6, TrackedMove
<1>10. CASE SetDeviceKey(h)
  <2>1. (Listing' => sessions' \subseteq sessions) /\ list' = list
    BY <1>10 DEF SetDeviceKey, redisVars, Records, Listing
  <2>2. ~Tracking(h)
    BY <1>10 DEF SetDeviceKey, At, Tracking
  <2> QED BY <1>0, <2>1, <2>2, TrackedMove
<1>11. CASE Touch(h)
  <2>1. (Listing' => sessions' \subseteq sessions) /\ list' = list
    BY <1>11 DEF Touch, redisVars, Records, Listing
  <2>2. ~Tracking(h)
    BY <1>11 DEF Touch, At, Tracking
  <2> QED BY <1>0, <2>1, <2>2, TrackedMove
<1>12. CASE WriteBack(h)
  <2>1. (Listing' => sessions' \subseteq sessions) /\ list' = list
    BY <1>12 DEF WriteBack, redisVars, Records, Listing
  <2>2. ~Tracking(h)
    BY <1>12 DEF WriteBack, At, Tracking
  <2> QED BY <1>0, <2>1, <2>2, TrackedMove
<1>13. CASE UpdatePassword(h)
  <2>1. (Listing' => sessions' \subseteq sessions) /\ list' = list
    BY <1>13 DEF UpdatePassword, redisVars, Records, Listing
  <2>2. ~Tracking(h)
    BY <1>13 DEF UpdatePassword, At, Tracking
  <2> QED BY <1>0, <2>1, <2>2, TrackedMove
<1>14. CASE ReadAll(h)
  <2>1. (Listing' => sessions' \subseteq sessions) /\ list' = list
    BY <1>14 DEF ReadAll, redisVars, Records, Listing
  <2>2. ~Tracking(h)
    BY <1>14 DEF ReadAll, At, Tracking
  <2> QED BY <1>0, <2>1, <2>2, TrackedMove
<1>15. CASE DeleteList(h)
  <2>1. /\ sessions' = sessions /\ ~Tracking(h)
        /\ "all" \notin races' => ListedIn(list) \cap sessions = {}
    BY <1>15 DEF DeleteList, At, Tracking, Records
  <2>2. Listing' => ListedIn(list) \cap sessions = {}
    BY <2>1 DEF Listing
  <2> QED BY <1>0, <2>1, <2>2, TrackedMove
<1>16. CASE StepFails(h)
  <2>1. failures' # 0
    BY <1>16 DEF StepFails, TypeOK
  <2> QED BY <2>1 DEF SessionsTracked
<1> QED BY <1>1, <1>2, <1>3, <1>4, <1>5, <1>6, <1>7, <1>8, <1>9, <1>10, <1>11, <1>12, <1>13, <1>14,
           <1>15, <1>16 DEF Serve

\* A request is taken by a handler that has none.
LEMMA ArriveIdle ==
  ASSUME TypeOK, HandlersInv, NEW h \in Handlers, Arrive(h)
  PROVE  handler[h].op = "none" /\ handler[h].step = "idle"
<1>1. handler[h].step = "idle" /\ handler[h].step \in StepsOf(handler[h].op)
      /\ handler[h].op \in {"none", "login", "refresh", "logout", "endAll"}
  BY OpSteps DEF Arrive, Login, Refresh, EndSessions, RevokeSession, ForgotPassword,
                 ResetPassword, Receive, At
<1> QED BY <1>1 DEF StepsOf, BeforeTrack, BeforeStore, InvalidateSteps

\* Every step keeps SessionsTracked.
LEMMA TrackedStep ==
  ASSUME TypeOK, HandlersInv, LoginsInv, GoneInv, SessionsTracked, [Next]_vars
  PROVE  SessionsTracked'
<1>1. CASE Expire
  <2>1. sessions' \subseteq sessions /\ UNCHANGED <<list, handler, races, failures>>
    BY <1>1 DEF Expire, budgets
  <2> QED BY <2>1 DEF SessionsTracked
<1>2. CASE UNCHANGED vars
  BY <1>2 DEF SessionsTracked, vars
<1>3. ASSUME NEW h \in Handlers, Arrive(h) PROVE SessionsTracked'
  <2>1. /\ sessions' = sessions /\ list' = list /\ failures' = failures /\ races \subseteq races'
        /\ \A g \in Handlers \ {h} : handler'[g] = handler[g]
    BY <1>3, ArriveFrame
  <2>2. handler[h].op = "none"
    BY <1>3, ArriveIdle
  <2>3. ASSUME Listing', NEW i \in sessions' PROVE Findable(i)'
    <3>1. Findable(i)
      BY <2>1, <2>3, TrackedForm DEF Listing
    <3> QED BY <2>1, <2>2, <3>1 DEF Findable, Tracking, LogsIn
  <2> QED BY <2>3, TrackedFormNext
<1> QED BY <1>1, <1>2, <1>3, ServeTracked DEF Next

-----------------------------------------------------------------------------
(* PasswordsInv                                                            *)

\* What PasswordsInv says when no change of the password overtook a login.
LEMMA PasswordsParts ==
  ASSUME PasswordsInv, "credential" \notin races
  PROVE  /\ \A h \in Handlers : LogsIn(h) => made[handler[h].id].password = password
         /\ Listing => \A i \in sessions :
              made[i].password = password \/ \E h \in Handlers : AboutToEnd(h, i)
  BY DEF PasswordsInv, Listing

\* A handler that stays as it is still ends what it was about to end.
LEMMA AboutSame ==
  ASSUME NEW g \in Handlers, NEW i, handler'[g] = handler[g], AboutToEnd(g, i)
  PROVE  AboutToEnd(g, i)'
  BY DEF AboutToEnd, At, Ending

\* What a step owes to PasswordsInv.
LEMMA PasswordsMove ==
  ASSUME PasswordsInv, NEW h \in Handlers, Frame(h), SameLogin(h), password' = password,
         "credential" \notin races' /\ Listing' =>
           /\ \A i \in sessions' : i \in sessions \/ made[i].password = password
           /\ \A i \in sessions' : AboutToEnd(h, i) => AboutToEnd(h, i)' \/ made[i].password = password
  PROVE  PasswordsInv'
<1> SUFFICES ASSUME "credential" \notin races' PROVE PasswordsInv'
  BY DEF PasswordsInv
<1>1. "credential" \notin races
  BY DEF Frame
<1>2. \A g \in Handlers : LogsIn(g)' => made'[handler'[g].id].password = password'
  <2>1. \A g \in Handlers : LogsIn(g)' => LogsIn(g) /\ handler'[g].id = handler[g].id
    BY DEF Frame, SameLogin, LogsIn
  <2> QED BY <1>1, <2>1, PasswordsParts DEF Frame
<1>3. ASSUME Listing', NEW i \in sessions'
      PROVE  made'[i].password = password' \/ \E g \in Handlers : AboutToEnd(g, i)'
  <2>1. made'[i].password = made[i].password
    BY DEF Frame
  <2>2. CASE made[i].password = password
    BY <2>1, <2>2
  <2>3. CASE made[i].password # password
    <3>1. PICK g \in Handlers : AboutToEnd(g, i)
      BY <1>1, <1>3, <2>3, ListingBefore, PasswordsParts
    <3>2. CASE g = h
      BY <1>3, <2>3, <3>1, <3>2
    <3>3. CASE g # h
      BY <3>1, <3>3, AboutSame DEF Frame
    <3> QED BY <3>2, <3>3
  <2> QED BY <2>2, <2>3
<1> QED BY <1>2, <1>3 DEF PasswordsInv, Listing

\* What is left to end after one of the sessions.
LEMMA ReturnedAbout ==
  ASSUME TypeOK, HandlersInv, NEW h \in Handlers, Returned(h), NEW i, AboutToEnd(h, i),
         Ending(h), i \in ListedIn(handler[h].todo)
  PROVE  AboutToEnd(h, i)'
<1> DEFINE s == handler[h]
<1>1. s.op = "endAll" /\ s.todo # <<>>
  BY EmptyList DEF AboutToEnd
<1>2. Goes(h, s.op, "get", s.id, Head(s.todo), Tail(s.todo), s.seen)
  BY <1>1 DEF Returned
<1>3. ListedIn(s.todo) = {Head(s.todo)} \cup ListedIn(Tail(s.todo))
  BY <1>1, Spread, TailList
<1>4. /\ handler'[h].op = "endAll" /\ handler'[h].step = "get"
      /\ i = handler'[h].target \/ i \in ListedIn(handler'[h].todo)
  BY <1>1, <1>2, <1>3 DEF Goes
<1> QED BY <1>4 DEF AboutToEnd, Ending, InvalidateSteps

\* Every step of a request keeps PasswordsInv.
LEMMA ServePasswords ==
  ASSUME TypeOK, HandlersInv, LoginsInv, GoneInv, SessionsTracked, PasswordsInv,
         NEW h \in Handlers, Serve(h)
  PROVE  PasswordsInv'
<1> DEFINE s == handler[h]
<1>0. Frame(h)
  BY FrameOf
<1>1. CASE GetSession(h)
  <2>1. s.step = "get" /\ sessions' = sessions /\ password' = password
    BY <1>1 DEF GetSession, redisVars, userVars, At
  <2>2. CASE Goes(h, s.op, "del", s.id, s.target, s.todo, s.seen)
    <3>1. SameLogin(h)
      BY <2>2 DEF Goes, SameLogin, LogsIn
    <3>2. ASSUME NEW i \in sessions', AboutToEnd(h, i) PROVE AboutToEnd(h, i)'
      <4>1. /\ handler'[h].op = s.op /\ handler'[h].step = "del" /\ handler'[h].target = s.target
            /\ handler'[h].todo = s.todo
        BY <2>2 DEF Goes
      <4> QED BY <2>1, <3>2, <4>1 DEF AboutToEnd, At, Ending, InvalidateSteps
    <3> QED BY <1>0, <2>1, <3>1, <3>2, PasswordsMove
  <2>3. CASE s.target \notin sessions /\ Returned(h)
    <3>1. SameLogin(h)
      BY <2>3, ReturnedLogin
    <3>2. ASSUME NEW i \in sessions', AboutToEnd(h, i) PROVE AboutToEnd(h, i)'
      <4>1. i \in ListedIn(s.todo) /\ Ending(h)
        BY <2>1, <2>3, <3>2 DEF AboutToEnd, At
      <4> QED BY <2>3, <3>2, <4>1, ReturnedAbout
    <3> QED BY <1>0, <2>1, <3>1, <3>2, PasswordsMove
  <2> QED BY <1>1, <2>2, <2>3, GetSessionForm
<1>2. CASE DeleteSession(h)
  <2>1. /\ s.step = "del" /\ handler'[h].step = "listGet" /\ handler'[h].op = s.op
        /\ handler'[h].todo = s.todo /\ SameLogin(h) /\ password' = password
        /\ sessions' \subseteq sessions
    BY <1>2, DeleteSessionForm DEF DeleteSession, redisVars, userVars, Goes, At, SameLogin, LogsIn
  <2>2. ASSUME NEW i \in sessions', AboutToEnd(h, i) PROVE AboutToEnd(h, i)'
    <3>1. handler[h].op = "endAll" /\ i \in ListedIn(s.todo)
      BY <1>2, <2>1, <2>2 DEF AboutToEnd, At, Ending, DeleteSession
    <3> QED BY <2>1, <3>1 DEF AboutToEnd, Ending, InvalidateSteps
  <2> QED BY <1>0, <2>1, <2>2, PasswordsMove
<1>3. CASE ReadList(h)
  <2>1. /\ s.step = "listGet" /\ handler'[h].step = "listSet" /\ handler'[h].op = s.op
        /\ handler'[h].todo = s.todo /\ SameLogin(h) /\ password' = password
        /\ sessions' \subseteq sessions
    BY <1>3, ReadListForm DEF ReadList, redisVars, userVars, Goes, At, SameLogin, LogsIn
  <2>2. ASSUME NEW i \in sessions', AboutToEnd(h, i) PROVE AboutToEnd(h, i)'
    <3>1. handler[h].op = "endAll" /\ i \in ListedIn(s.todo)
      BY <1>3, <2>1, <2>2 DEF AboutToEnd, At, Ending
    <3> QED BY <2>1, <3>1 DEF AboutToEnd, Ending, InvalidateSteps
  <2> QED BY <1>0, <2>1, <2>2, PasswordsMove
<1>4. CASE RemoveFromList(h)
  <2>1. /\ s.step = "listSet" /\ handler'[h].step = "delDevice" /\ handler'[h].op = s.op
        /\ handler'[h].todo = s.todo /\ SameLogin(h) /\ password' = password
        /\ sessions' \subseteq sessions
    BY <1>4, RemoveFromListForm DEF RemoveFromList, redisVars, userVars, Goes, At, SameLogin, LogsIn
  <2>2. ASSUME NEW i \in sessions', AboutToEnd(h, i) PROVE AboutToEnd(h, i)'
    <3>1. handler[h].op = "endAll" /\ i \in ListedIn(s.todo)
      BY <1>4, <2>1, <2>2 DEF AboutToEnd, At, Ending
    <3> QED BY <2>1, <3>1 DEF AboutToEnd, Ending, InvalidateSteps
  <2> QED BY <1>0, <2>1, <2>2, PasswordsMove
<1>5. CASE DeleteDeviceKey(h)
  <2>1. s.step = "delDevice" /\ sessions' = sessions /\ password' = password
    BY <1>5 DEF DeleteDeviceKey, userVars, At
  <2>2. Returned(h) /\ SameLogin(h)
    BY <1>5, DeleteDeviceKeyForm, ReturnedLogin
  <2>3. ASSUME NEW i \in sessions', AboutToEnd(h, i) PROVE AboutToEnd(h, i)'
    <3>1. i \in ListedIn(s.todo) /\ Ending(h)
      BY <2>1, <2>3 DEF AboutToEnd, At
    <3> QED BY <2>2, <2>3, <3>1, ReturnedAbout
  <2> QED BY <1>0, <2>1, <2>2, <2>3, PasswordsMove
<1>6. CASE GetDeviceKey(h)
  <2>1. /\ s.step = "device" /\ password' = password
        /\ (Listing' => sessions' \subseteq sessions)
    BY <1>6 DEF GetDeviceKey, redisVars, userVars, Records, Listing, At
  <2>2. SameLogin(h)
    BY <1>6, GetDeviceKeyForm, StopsLogin DEF Goes, SameLogin, LogsIn
  <2>3. \A i : ~AboutToEnd(h, i)
    BY <2>1 DEF AboutToEnd, At, Ending, InvalidateSteps
  <2> QED BY <1>0, <2>1, <2>2, <2>3, PasswordsMove
<1>7. CASE StoreSession(h)
  <2>1. /\ s.step = "store" /\ sessions' = sessions \cup {s.id} /\ password' = password
        /\ LogsIn(h) /\ SameLogin(h)
    BY <1>7, LoginId, StoreSessionForm DEF StoreSession, At, userVars, Goes, SameLogin
  <2>2. "credential" \notin races' => made[s.id].password = password
    BY <1>0, <2>1, PasswordsParts DEF Frame
  <2>3. \A i : ~AboutToEnd(h, i)
    BY <2>1 DEF AboutToEnd, At, Ending, InvalidateSteps
  <2> QED BY <1>0, <2>1, <2>2, <2>3, PasswordsMove
<1>8. CASE ReadListToTrack(h)
  <2>1. /\ s.step = "trackGet" /\ password' = password
        /\ (Listing' => sessions' \subseteq sessions)
    BY <1>8 DEF ReadListToTrack, redisVars, userVars, Records, Listing, At
  <2>2. SameLogin(h)
    BY <1>8, ReadListToTrackForm, StopsLogin DEF Goes, SameLogin, LogsIn
  <2>3. \A i : ~AboutToEnd(h, i)
    BY <2>1 DEF AboutToEnd, At, Ending, InvalidateSteps
  <2> QED BY <1>0, <2>1, <2>2, <2>3, PasswordsMove
<1>9. CASE Track(h)
  <2>1. /\ s.step = "trackSet" /\ password' = password
        /\ (Listing' => sessions' \subseteq sessions)
    BY <1>9 DEF Track, redisVars, userVars, Records, Listing, At
  <2>2. SameLogin(h)
    BY <1>9, TrackForm, StopsLogin DEF Goes, SameLogin, LogsIn
  <2>3. \A i : ~AboutToEnd(h, i)
    BY <2>1 DEF AboutToEnd, At, Ending, InvalidateSteps
  <2> QED BY <1>0, <2>1, <2>2, <2>3, PasswordsMove
<1>10. CASE SetDeviceKey(h)
  <2>1. /\ s.step = "map" /\ password' = password
        /\ (Listing' => sessions' \subseteq sessions)
    BY <1>10 DEF SetDeviceKey, redisVars, userVars, Records, Listing, At
  <2>2. SameLogin(h)
    BY <1>10, SetDeviceKeyForm, StopsLogin DEF Goes, SameLogin, LogsIn
  <2>3. \A i : ~AboutToEnd(h, i)
    BY <2>1 DEF AboutToEnd, At, Ending, InvalidateSteps
  <2> QED BY <1>0, <2>1, <2>2, <2>3, PasswordsMove
<1>11. CASE Touch(h)
  <2>1. /\ s.step = "touch" /\ password' = password
        /\ (Listing' => sessions' \subseteq sessions)
    BY <1>11 DEF Touch, redisVars, userVars, Records, Listing, At
  <2>2. SameLogin(h)
    BY <1>11, TouchForm, StopsLogin DEF Goes, SameLogin, LogsIn
  <2>3. \A i : ~AboutToEnd(h, i)
    BY <2>1 DEF AboutToEnd, At, Ending, InvalidateSteps
  <2> QED BY <1>0, <2>1, <2>2, <2>3, PasswordsMove
<1>12. CASE WriteBack(h)
  <2>1. /\ s.step = "touchSet" /\ password' = password
        /\ (Listing' => sessions' \subseteq sessions)
    BY <1>12 DEF WriteBack, redisVars, userVars, Records, Listing, At
  <2>2. SameLogin(h)
    BY <1>12, WriteBackForm, StopsLogin DEF Goes, SameLogin, LogsIn
  <2>3. \A i : ~AboutToEnd(h, i)
    BY <2>1 DEF AboutToEnd, At, Ending, InvalidateSteps
  <2> QED BY <1>0, <2>1, <2>2, <2>3, PasswordsMove
<1>13. CASE UpdatePassword(h)
  <2>1. /\ s.step = "update" /\ races' \subseteq races \cup {"credential"}
        /\ "credential" \notin races' => \A g \in Handlers : ~LogsIn(g)
    BY <1>13 DEF UpdatePassword, At, Records, LogsIn
  <2>2. handler'[h].op = "endAll" /\ handler'[h].step = "all"
    BY <1>13, <2>1, OpSteps, UpdatePasswordForm DEF Goes
  <2>3. \A i : AboutToEnd(h, i)'
    BY <2>2 DEF AboutToEnd, At
  <2>4. "credential" \notin races' => \A g \in Handlers : ~LogsIn(g)'
    BY <1>0, <2>1, <2>2 DEF Frame, LogsIn
  <2> QED BY <2>3, <2>4 DEF PasswordsInv
<1>14. CASE ReadAll(h)
  <2>1. s.step = "all" /\ sessions' = sessions /\ password' = password /\ s.op = "endAll"
    BY <1>14, OpSteps DEF ReadAll, redisVars, userVars, At
  <2>2. ASSUME "credential" \notin races', Listing', NEW i \in sessions', made[i].password # password
        PROVE  i \in ListedIn(list)
    <3>1. "credential" \notin races /\ Findable(i)
      BY <1>0, <2>1, <2>2, ListingBefore, TrackedForm DEF Frame
    <3>2. \A g \in Handlers : LogsIn(g) => handler[g].id # i
      BY <2>2, <3>1, PasswordsParts
    <3> QED BY <3>1, <3>2 DEF Findable, Tracking
  <2>3. CASE list = <<>> /\ Stops(h)
    <3>1. SameLogin(h)
      BY <2>3, StopsLogin
    <3>2. "credential" \notin races' /\ Listing' => \A i \in sessions' : made[i].password = password
      BY <2>2, <2>3, EmptyList
    <3> QED BY <1>0, <2>1, <3>1, <3>2, PasswordsMove
  <2>4. CASE list # <<>> /\ Goes(h, s.op, "get", s.id, Head(list), Tail(list), s.seen)
    <3>1. ListedIn(list) = {Head(list)} \cup ListedIn(Tail(list))
      BY <2>4, TailList DEF TypeOK, IsList
    <3>2. /\ handler'[h].op = "endAll" /\ handler'[h].step = "get" /\ SameLogin(h)
          /\ handler'[h].target = Head(list) /\ handler'[h].todo = Tail(list)
      BY <2>1, <2>4 DEF Goes, SameLogin, LogsIn
    <3>3. \A i \in ListedIn(list) : AboutToEnd(h, i)'
      BY <3>1, <3>2 DEF AboutToEnd, Ending, InvalidateSteps
    <3>4. "credential" \notin races' /\ Listing' =>
            \A i \in sessions' : AboutToEnd(h, i)' \/ made[i].password = password
      BY <2>2, <3>3
    <3> QED BY <1>0, <2>1, <3>2, <3>4, PasswordsMove
  <2> QED BY <1>14, <2>3, <2>4, ReadAllForm
<1>15. CASE DeleteList(h)
  <2>1. /\ s.step = "delList" /\ password' = password
        /\ (Listing' => sessions' \subseteq sessions)
    BY <1>15 DEF DeleteList, redisVars, userVars, Records, Listing, At
  <2>2. SameLogin(h)
    BY <1>15, DeleteListForm, StopsLogin DEF Goes, SameLogin, LogsIn
  <2>3. \A i : ~AboutToEnd(h, i)
    BY <2>1 DEF AboutToEnd, At, Ending, InvalidateSteps
  <2> QED BY <1>0, <2>1, <2>2, <2>3, PasswordsMove
<1>16. CASE StepFails(h)
  <2>1. failures' # 0 /\ password' = password
    BY <1>16 DEF StepFails, TypeOK, userVars
  <2>2. SameLogin(h)
    BY <1>16, StepFailsForm, StopsLogin
  <2> QED BY <1>0, <2>1, <2>2, PasswordsMove DEF Listing
<1> QED BY <1>1, <1>2, <1>3, <1>4, <1>5, <1>6, <1>7, <1>8, <1>9, <1>10, <1>11, <1>12, <1>13, <1>14,
           <1>15, <1>16 DEF Serve

\* A login keeps it: its session is of the current password.
LEMMA LoginPasswords ==
  ASSUME TypeOK, HandlersInv, PasswordsInv, NEW h \in Handlers, NEW d \in Devices, Login(h, d)
  PROVE  PasswordsInv'
<1> DEFINE n == Len(made) + 1
<1>1. /\ made'[n] = [device |-> d, password |-> password]
      /\ Goes(h, "login", "device", n, n, <<>>, <<>>)
  BY LoginForm
<1> HIDE DEF n
<1>2. Arrive(h)
  BY DEF Arrive
<1>3. /\ sessions' = sessions /\ password' = password /\ failures' = failures
      /\ races \subseteq races' /\ \A i \in 1..Len(made) : made'[i] = made[i]
  BY <1>2, ArriveFrame
<1>4. handler[h].op = "none"
  BY <1>2, ArriveIdle
<1> SUFFICES ASSUME "credential" \notin races' PROVE PasswordsInv'
  BY DEF PasswordsInv
<1>5. "credential" \notin races
  BY <1>3
<1>6. ASSUME NEW g \in Handlers, LogsIn(g)' PROVE made'[handler'[g].id].password = password'
  <2>1. CASE g = h
    BY <1>1, <1>3, <2>1 DEF Goes
  <2>2. CASE g # h
    <3>1. handler'[g] = handler[g] /\ LogsIn(g)
      BY <1>1, <1>6, <2>2 DEF Goes, LogsIn
    <3>2. handler[g].id \in 1..Len(made)
      BY <3>1, LoginOfId
    <3> QED BY <1>3, <1>5, <3>1, <3>2, PasswordsParts
  <2> QED BY <2>1, <2>2
<1>7. ASSUME Listing', NEW i \in sessions'
      PROVE  made'[i].password = password' \/ \E g \in Handlers : AboutToEnd(g, i)'
  <2>1. i \in 1..Len(made) /\ i \in sessions
    BY <1>3 DEF TypeOK
  <2>2. Listing
    BY <1>3, <1>7 DEF Listing
  <2>3. CASE made[i].password = password
    BY <1>3, <2>1, <2>3
  <2>4. CASE \E g \in Handlers : AboutToEnd(g, i)
    <3>1. PICK g \in Handlers : AboutToEnd(g, i)
      BY <2>4
    <3>2. g # h
      BY <1>4, <3>1 DEF AboutToEnd
    <3> QED BY <1>1, <3>1, <3>2, AboutSame DEF Goes
  <2> QED BY <1>5, <2>1, <2>2, <2>3, <2>4, PasswordsParts
<1> QED BY <1>6, <1>7 DEF PasswordsInv, Listing

\* Every step keeps PasswordsInv.
LEMMA PasswordsStep ==
  ASSUME TypeOK, HandlersInv, LoginsInv, GoneInv, SessionsTracked, PasswordsInv, [Next]_vars
  PROVE  PasswordsInv'
<1>1. CASE Expire
  <2>1. sessions' \subseteq sessions /\ UNCHANGED <<password, made, handler, races, failures>>
    BY <1>1 DEF Expire, userVars, budgets
  <2> QED BY <2>1 DEF PasswordsInv, AboutToEnd, At, Ending, LogsIn
<1>2. CASE UNCHANGED vars
  BY <1>2 DEF PasswordsInv, AboutToEnd, At, Ending, LogsIn, vars
<1>3. ASSUME NEW h \in Handlers, Arrive(h) PROVE PasswordsInv'
  <2>1. CASE \E d \in Devices : Login(h, d)
    BY <2>1, LoginPasswords
  <2>2. CASE ~\E d \in Devices : Login(h, d)
    <3>1. /\ Frame(h) /\ sessions' = sessions /\ password' = password
          /\ handler'[h] = handler[h] \/ handler'[h].op # "login"
      BY <1>3, <2>2, ArriveFrame DEF Frame
    <3>2. handler[h].op = "none"
      BY <1>3, ArriveIdle
    <3>3. SameLogin(h)
      BY <3>1, <3>2 DEF SameLogin
    <3>4. \A i : ~AboutToEnd(h, i)
      BY <3>2 DEF AboutToEnd
    <3> QED BY <3>1, <3>3, <3>4, PasswordsMove
  <2> QED BY <2>1, <2>2
<1> QED BY <1>1, <1>2, <1>3, ServePasswords DEF Next

-----------------------------------------------------------------------------
(* The theorems                                                            *)

\* The inductive invariant holds of every behaviour of the sessions of a user.
THEOREM Invariance == Spec => []IInv
<1>1. Init => IInv
  <2> SUFFICES ASSUME Init PROVE IInv
    OBVIOUS
  <2>1. \A h \in Handlers : handler[h] = Record("none", "idle", 0, 0, <<>>, <<>>)
    BY IdleRecord DEF Init
  <2>2. \A h \in Handlers : /\ handler[h].op = "none" /\ handler[h].step = "idle"
                           /\ handler[h].id = 0 /\ handler[h].target = 0
                           /\ handler[h].todo = <<>> /\ handler[h].seen = <<>>
    BY <2>1 DEF Record
  <2>3. TypeOK
    <3>1. <<>> \in Seq(1..Len(made)) /\ Len(made) = 0 /\ IsList(<<>>)
      BY EmptyList DEF Init, IsList
    <3>2. handler \in [Handlers -> State]
      <4>1. Idle \in State
        BY <3>1, IdleRecord DEF Record, State, Ops, Steps
      <4> QED BY <4>1 DEF Init
    <3>3. made \in Seq([device: Devices, password: 1..password])
      BY DEF Init
    <3> QED BY <2>2, <3>1, <3>2, <3>3, BoundAssumption DEF TypeOK, Init
  <2>4. HandlersInv
    BY <2>2 DEF HandlersInv, StepsOf, LogsIn, Ending, InvalidateSteps
  <2>5. \A h \in Handlers : ~LogsIn(h)
    BY <2>2 DEF LogsIn
  <2>6. LoginsInv /\ GoneInv
    BY <2>2, <2>5 DEF LoginsInv, GoneInv
  <2>7. DevicesInv /\ PasswordsInv
    BY <2>5 DEF DevicesInv, PasswordsInv, Init
  <2>8. SessionsTracked
    BY DEF SessionsTracked, Init
  <2> QED BY <2>3, <2>4, <2>6, <2>7, <2>8 DEF IInv
<1>2. IInv /\ [Next]_vars => IInv'
  BY TypeStep, HandlersStep, LoginsStep, GoneStep, DevicesStep, TrackedStep, PasswordsStep DEF IInv
<1> QED BY <1>1, <1>2, PTL DEF Spec

\* A device has one session, for any number of devices, requests and handlers: createSession
\* ends the old one, up to the races and failures that the property names.
THEOREM OneSession == Spec => []OneSessionPerDevice
<1>1. IInv => OneSessionPerDevice
  <2> SUFFICES ASSUME IInv, Serial, NEW i \in Valid, NEW j \in Valid, DeviceOf(i) = DeviceOf(j)
               PROVE  i = j
    BY DEF OneSessionPerDevice, Serial, DeviceOf
  <2>1. i \in sessions /\ j \in sessions /\ KeyNamed(i) /\ KeyNamed(j)
    BY DevicesParts DEF IInv, Valid
  <2>2. ASSUME NEW h \in Handlers, HasStored(h), NEW k \in sessions,
               DeviceOf(k) = DeviceOf(handler[h].id)
        PROVE  k = handler[h].id
    <3>1. MayFind(handler[h], k)
      BY <2>2, DevicesParts DEF IInv, HasStored
    <3> QED BY <2>2, <3>1 DEF MayFind, HasStored
  <2> QED BY <2>1, <2>2 DEF KeyNamed, HasStored
<1> QED BY <1>1, Invariance, PTL

\* Every session can be found to be ended: trackUserSession and removeUserSession lose
\* none, up to the same.
THEOREM AllTracked == Spec => []SessionsTracked
<1>1. IInv => SessionsTracked
  BY DEF IInv
<1> QED BY <1>1, Invariance, PTL

\* changePassword and resetPassword end every session of an older password, up to the same.
THEOREM OldPasswords == Spec => []OldPasswordEndsSessions
<1>1. IInv => OldPasswordEndsSessions
  BY DEF IInv, PasswordsInv, AboutToEnd, OldPasswordEndsSessions
<1> QED BY <1>1, Invariance, PTL
=============================================================================
