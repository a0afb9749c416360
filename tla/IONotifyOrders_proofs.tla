------------------------ MODULE IONotifyOrders_proofs ------------------------
(***************************************************************************)
(* Proofs about the orders of IONotifyController: the lists of consumers   *)
(* for any threads, and, when the calls that set values do not overlap,    *)
(* that consumers and threshold sensors follow the value of a sensor.      *)
(***************************************************************************)
EXTENDS IONotifyController_proofs, WellFoundedInduction

(* Lists *)

\* A set of numbers that is not empty has a least one: the induction used below.
LEMMA LeastIndex ==
    ASSUME NEW S, S \subseteq Nat, S # {}
    PROVE  \E i \in S : \A j \in S : i <= j
<1>1. PICK x \in S : \A y \in S : ~(<<y, x>> \in OpToRel(<, Nat))
  BY NatLessThanWellFounded, WFMin
<1>2. \A y \in S : ~(y < x)
  BY <1>1 DEF OpToRel
<1> QED
  BY <1>2

Elements(q) == {q[i] : i \in 1..Len(q)}
Once(q) == \A i, j \in 1..Len(q) : q[i] = q[j] => i = j

\* What the walk over lst has kept after entry i, if it had kept prev before.
KeptOf(lst, gone, prev, i) ==
    IF lst[i] \in gone THEN prev ELSE Append(prev, lst[i])

\* f is the result of the walk over the first n entries.
Walk(lst, gone, f, n) ==
    /\ f[0] = <<>>
    /\ \A i \in 1..n : f[i] = KeptOf(lst, gone, f[i - 1], i)

LEMMA AppendShape ==
    ASSUME NEW S, NEW q \in Seq(S), NEW x \in S
    PROVE  /\ Append(q, x) \in Seq(S)
           /\ Elements(Append(q, x)) = Elements(q) \cup {x}
           /\ Once(q) /\ x \notin Elements(q) => Once(Append(q, x))
<1>1. /\ Append(q, x) \in Seq(S)
      /\ Len(Append(q, x)) = Len(q) + 1
      /\ \A i \in 1..Len(q) : Append(q, x)[i] = q[i]
      /\ Append(q, x)[Len(q) + 1] = x
  OBVIOUS
<1>2. Len(q) \in Nat
  OBVIOUS
<1>3. Elements(Append(q, x)) = Elements(q) \cup {x}
  BY <1>1, <1>2 DEF Elements
<1>4. ASSUME Once(q), x \notin Elements(q) PROVE Once(Append(q, x))
  BY <1>1, <1>2, <1>4 DEF Once, Elements
<1> QED
  BY <1>1, <1>3, <1>4

\* Every initial part of a list can be walked.
LEMMA WalkExists ==
    ASSUME NEW S, NEW lst \in Seq(S), NEW gone
    PROVE  \E f : f \in [0..Len(lst) -> Seq(S)] /\ Walk(lst, gone, f, Len(lst))
<1> DEFINE Good(n) == \E f : f \in [0..n -> Seq(S)] /\ Walk(lst, gone, f, n)
           Bad == {n \in 0..Len(lst) : ~Good(n)}
<1>1. Len(lst) \in Nat
  OBVIOUS
<1>2. Good(0)
  <2>1. [i \in 0..0 |-> <<>>] \in [0..0 -> Seq(S)]
    OBVIOUS
  <2>2. Walk(lst, gone, [i \in 0..0 |-> <<>>], 0)
    BY DEF Walk
  <2> QED
    BY <2>1, <2>2
<1>3. ASSUME NEW n \in Nat, n < Len(lst), Good(n) PROVE Good(n + 1)
  <2>1. PICK f : f \in [0..n -> Seq(S)] /\ Walk(lst, gone, f, n)
    BY <1>3
  <2> DEFINE new == KeptOf(lst, gone, f[n], n + 1)
             g == [i \in 0..(n + 1) |-> IF i = n + 1 THEN new ELSE f[i]]
  <2>2. f[n] \in Seq(S) /\ lst[n + 1] \in S
    BY <2>1, <1>1, <1>3
  <2>3. new \in Seq(S)
    BY <2>2 DEF KeptOf
  <2> HIDE DEF new
  <2>4. g \in [0..(n + 1) -> Seq(S)]
    BY <2>1, <2>3
  <2>5. g[0] = f[0] /\ g[n + 1] = new /\ \A i \in 1..n : g[i] = f[i] /\ g[i - 1] = f[i - 1]
    OBVIOUS
  <2>6. g[n] = f[n]
    OBVIOUS
  <2> HIDE DEF g
  <2>7. \A i \in 1..(n + 1) : i = n + 1 \/ i \in 1..n
    OBVIOUS
  <2>8. Walk(lst, gone, g, n + 1)
    <3>1. g[0] = <<>>
      BY <2>1, <2>5 DEF Walk
    <3>2. \A i \in 1..n : g[i] = KeptOf(lst, gone, g[i - 1], i)
      BY <2>1, <2>5 DEF Walk
    <3>3. (n + 1) - 1 = n
      OBVIOUS
    <3>4. g[n + 1] = KeptOf(lst, gone, g[(n + 1) - 1], n + 1)
      BY <2>5, <2>6, <3>3 DEF new
    <3> QED
      BY <2>7, <3>1, <3>2, <3>4 DEF Walk
  <2> QED
    BY <2>4, <2>8
<1> HIDE DEF Good
<1>4. Bad = {}
  <2> SUFFICES ASSUME Bad # {} PROVE FALSE
    OBVIOUS
  <2>1. Bad \subseteq Nat
    OBVIOUS
  <2>2. PICK n \in Bad : \A m \in Bad : n <= m
    BY <2>1, LeastIndex
  <2>3. n # 0 /\ n \in 0..Len(lst)
    BY <1>2, <2>2
  <2>4. n - 1 \in Nat /\ n - 1 < Len(lst) /\ (n - 1) + 1 = n /\ n - 1 \in 0..Len(lst)
    BY <1>1, <2>3
  <2>5. Good(n - 1)
    BY <2>2, <2>4
  <2>6. Good((n - 1) + 1)
    BY <1>3, <2>4, <2>5
  <2> QED
    BY <2>2, <2>4, <2>6
<1> QED
  BY <1>1, <1>4 DEF Good

\* Without() is the result of a walk.
LEMMA WithoutIsWalk ==
    ASSUME NEW S, NEW lst \in Seq(S), NEW gone
    PROVE  \E f : Walk(lst, gone, f, Len(lst)) /\ Without(lst, gone) = f[Len(lst)]
<1> DEFINE Step(f, i) == IF i = 0 THEN <<>>
                         ELSE IF lst[i] \in gone THEN f[i - 1]
                         ELSE Append(f[i - 1], lst[i])
           Rec(f) == f = [i \in 0..Len(lst) |-> Step(f, i)]
           kept == CHOOSE f : Rec(f)
<1>1. Without(lst, gone) = kept[Len(lst)]
  BY DEF Without
<1>2. PICK f : f \in [0..Len(lst) -> Seq(S)] /\ Walk(lst, gone, f, Len(lst))
  BY WalkExists
<1>3. Len(lst) \in Nat
  OBVIOUS
<1>4. Rec(f)
  <2>1. \A i \in 0..Len(lst) : f[i] = Step(f, i)
    <3> TAKE i \in 0..Len(lst)
    <3>1. CASE i = 0
      BY <1>2, <3>1 DEF Walk
    <3>2. CASE i # 0
      <4>1. i \in 1..Len(lst)
        BY <1>3, <3>2
      <4>2. f[i] = KeptOf(lst, gone, f[i - 1], i)
        BY <1>2, <4>1 DEF Walk
      <4> QED
        BY <3>2, <4>2 DEF KeptOf
    <3> QED
      BY <3>1, <3>2
  <2> QED
    BY <1>2, <2>1
<1> HIDE DEF Rec
<1>5. Rec(kept)
  BY <1>4
<1> HIDE DEF kept
<1>6. Walk(lst, gone, kept, Len(lst))
  <2>1. \A i \in 0..Len(lst) : kept[i] = Step(kept, i)
    BY <1>5 DEF Rec
  <2>2. kept[0] = <<>>
    BY <2>1, <1>3
  <2>3. \A i \in 1..Len(lst) : kept[i] = KeptOf(lst, gone, kept[i - 1], i)
    BY <2>1, <1>3 DEF KeptOf
  <2> QED
    BY <2>2, <2>3 DEF Walk
<1> QED
  BY <1>1, <1>6

\* Removing entries leaves exactly the others, and no entry twice.
LEMMA WithoutShape ==
    ASSUME NEW S, NEW lst \in Seq(S), NEW gone
    PROVE  /\ Without(lst, gone) \in Seq(S)
           /\ Elements(Without(lst, gone)) = Elements(lst) \ gone
           /\ Once(lst) => Once(Without(lst, gone))
<1>1. PICK f : Walk(lst, gone, f, Len(lst)) /\ Without(lst, gone) = f[Len(lst)]
  BY WithoutIsWalk
<1> DEFINE Before(n) == {lst[i] : i \in 1..n}
           Good(n) == /\ f[n] \in Seq(S)
                      /\ Elements(f[n]) = Before(n) \ gone
                      /\ Once(lst) => Once(f[n])
           Bad == {n \in 0..Len(lst) : ~Good(n)}
<1>2. Len(lst) \in Nat
  OBVIOUS
<1>3. Good(0)
  <2>1. f[0] = <<>>
    BY <1>1 DEF Walk
  <2> QED
    BY <2>1 DEF Elements, Once
<1>4. ASSUME NEW n \in Nat, n < Len(lst), Good(n) PROVE Good(n + 1)
  <2>1. n + 1 \in 1..Len(lst) /\ (n + 1) - 1 = n /\ lst[n + 1] \in S
    BY <1>2, <1>4
  <2>2. f[n + 1] = KeptOf(lst, gone, f[n], n + 1)
    BY <1>1, <2>1 DEF Walk
  <2>3. Before(n + 1) = Before(n) \cup {lst[n + 1]}
    <3>1. \A i \in 1..(n + 1) : i \in 1..n \/ i = n + 1
      OBVIOUS
    <3>2. 1..n \subseteq 1..(n + 1) /\ n + 1 \in 1..(n + 1)
      OBVIOUS
    <3> QED
      BY <3>1, <3>2
  <2>4. Once(lst) => lst[n + 1] \notin Before(n)
    BY <1>2, <1>4, <2>1 DEF Once
  <2> HIDE DEF Before
  <2>5. CASE lst[n + 1] \in gone
    BY <1>4, <2>2, <2>3, <2>5 DEF KeptOf
  <2>6. CASE lst[n + 1] \notin gone
    <3>1. f[n + 1] = Append(f[n], lst[n + 1])
      BY <2>2, <2>6 DEF KeptOf
    <3>2. f[n + 1] \in Seq(S) /\ Elements(f[n + 1]) = Elements(f[n]) \cup {lst[n + 1]}
      BY <1>4, <2>1, <3>1, AppendShape
    <3>3. Once(lst) => Once(f[n + 1])
      BY <1>4, <2>1, <2>4, <3>1, AppendShape
    <3> QED
      BY <1>4, <2>3, <2>6, <3>2, <3>3
  <2> QED
    BY <2>5, <2>6
<1>5. Before(Len(lst)) = Elements(lst)
  BY DEF Elements
<1> HIDE DEF Good, Before
<1>6. Bad = {}
  <2> SUFFICES ASSUME Bad # {} PROVE FALSE
    OBVIOUS
  <2>1. Bad \subseteq Nat
    OBVIOUS
  <2>2. PICK n \in Bad : \A m \in Bad : n <= m
    BY <2>1, LeastIndex
  <2>3. n # 0 /\ n \in 0..Len(lst)
    BY <1>3, <2>2
  <2>4. n - 1 \in Nat /\ n - 1 < Len(lst) /\ (n - 1) + 1 = n /\ n - 1 \in 0..Len(lst)
    BY <1>2, <2>3
  <2>5. Good(n - 1)
    BY <2>2, <2>4
  <2>6. Good((n - 1) + 1)
    BY <1>4, <2>4, <2>5
  <2> QED
    BY <2>2, <2>4, <2>6
<1>7. Good(Len(lst))
  BY <1>2, <1>6
<1> QED
  BY <1>1, <1>5, <1>7 DEF Good

\* The walk of send() comes to entries of the list only,
LEMMA ReachedListed ==
    ASSUME NEW lst PROVE Reached(lst) \subseteq Elements(lst)
  BY DEF Reached, Elements

\* and to all of them while no client has closed its stream.
LEMMA ReachedAll ==
    ASSUME NEW S, NEW lst \in Seq(S), \A i \in 1 .. Len(lst) - 1 : lst[i] \notin closed
    PROVE  Reached(lst) = Elements(lst)
<1> DEFINE Rec(f) == f = [i \in 1..Len(lst) |->
                            i = 1 \/ ~(f[i - 1] /\ lst[i - 1] \in closed)]
           seen == CHOOSE f : Rec(f)
<1>1. Reached(lst) = {lst[i] : i \in {j \in 1..Len(lst) : seen[j]}}
  BY DEF Reached
<1>0. \A i \in 1..Len(lst) : i = 1 \/ lst[i - 1] \notin closed
  OBVIOUS
<1>2. Rec([i \in 1..Len(lst) |-> TRUE])
  BY <1>0
<1> HIDE DEF Rec
<1>3. Rec(seen)
  BY <1>2
<1> HIDE DEF seen
<1>4. \A i \in 1..Len(lst) : seen[i]
  BY <1>0, <1>3 DEF Rec
<1> QED
  BY <1>1, <1>4 DEF Elements
-----------------------------------------------------------------------------
(* Orders, for any threads *)

\* The lists and the attempts, with the types of the orders.
OrdersInv == OrdersTypeOK /\ ListedHaveAttempts

LEMMA ListedElements == \A s : Listed(s) = Elements(clst[s])
  BY DEF Listed, Elements

\* send() to some entries of the list of s.
LEMMA DeliverKeeps ==
    ASSUME OrdersInv, NEW s \in Sensors, NEW v \in Values,
           NEW to, to \subseteq Listed(s),
           NEW fails \in [to \cap Consumers -> 0..sendAttemtps],
           Deliver(s, v, to, fails), closed' = closed, asking' \in [Askers -> Asking]
    PROVE  /\ OrdersInv'
           /\ \A x \in Sensors : Listed(x)' \subseteq Listed(x)
           /\ \A x \in Sensors : \A c \in Listeners :
                 x # s \/ c \notin to => told'[x][c] = told[x][c]
           /\ \A c \in to : told'[s][c] \in {NotTold, Missed, v}
<1> DEFINE erased == {c \in to \cap Consumers : Erased(s, c, fails)}
           gone == erased \cup (to \cap closed)
           After(c) ==
             IF c \notin to THEN told[s][c]
             ELSE IF c \in gone THEN NotTold
             ELSE IF c \in Clients \/ Delivered(s, c, fails) THEN v
             ELSE Missed
           Left(c) ==
             IF c \notin to THEN attempt[s][c]
             ELSE IF c \in erased \/ Delivered(s, c, fails) \/ maxAttemtps = 0
             THEN maxAttemtps
             ELSE attempt[s][c] - fails[c]
<1>1. /\ clst' = [clst EXCEPT ![s] = Without(clst[s], gone)]
      /\ told' = [told EXCEPT ![s] = [c \in Listeners |-> After(c)]]
      /\ attempt' = [attempt EXCEPT ![s] = [c \in Consumers |-> Left(c)]]
      /\ lost' = [c \in Consumers |-> lost[c] \/ c \in erased]
  BY DEF Deliver
<1>2. clst[s] \in Seq(Listeners) /\ Once(clst[s])
  BY DEF OrdersInv, OrdersTypeOK, ListedHaveAttempts, Once
<1>3. to \subseteq Listeners
  BY <1>2 DEF Listed
<1>4. \A c \in Listeners : After(c) \in Values \cup {NotTold, Missed}
  BY DEF OrdersInv, OrdersTypeOK
<1>5. \A c \in to : After(c) \in {NotTold, Missed, v}
  OBVIOUS
<1>6. ASSUME NEW c \in Consumers
      PROVE  /\ Left(c) \in 0..maxAttemtps
             /\ maxAttemtps > 0 /\ c \in Listed(s) => Left(c) > 0
  <2>1. /\ maxAttemtps \in Nat /\ attempt[s][c] \in 0..maxAttemtps
        /\ maxAttemtps > 0 /\ c \in Listed(s) => attempt[s][c] > 0
    BY ConfigAssumption DEF OrdersInv, OrdersTypeOK, ListedHaveAttempts
  <2>2. CASE c \notin to
    BY <2>1, <2>2
  <2>3. CASE c \in to /\ (c \in erased \/ Delivered(s, c, fails) \/ maxAttemtps = 0)
    BY <2>1, <2>3
  <2>4. CASE c \in to /\ ~(c \in erased \/ Delivered(s, c, fails) \/ maxAttemtps = 0)
    <3>1. fails[c] \in Nat /\ ~(fails[c] >= attempt[s][c])
      BY <2>1, <2>4, ConfigAssumption DEF Erased
    <3> QED
      BY <2>1, <2>4, <3>1
  <2> QED
    BY <2>2, <2>3, <2>4
<1> HIDE DEF After, Left, erased, gone
<1>7. /\ Without(clst[s], gone) \in Seq(Listeners)
      /\ Elements(Without(clst[s], gone)) \subseteq Elements(clst[s])
      /\ Once(Without(clst[s], gone))
  BY <1>2, WithoutShape
<1>8. /\ clst' \in [Sensors -> Seq(Listeners)]
      /\ clst'[s] = Without(clst[s], gone)
      /\ \A x \in Sensors : x # s => clst'[x] = clst[x]
  BY <1>1, <1>7 DEF OrdersInv, OrdersTypeOK
<1>9. \A x \in Sensors : Listed(x)' \subseteq Listed(x)
  BY <1>7, <1>8 DEF Listed, Elements
<1>10. OrdersTypeOK'
  <2>1. attempt' \in [Sensors -> [Consumers -> 0..maxAttemtps]]
    BY <1>1, <1>6 DEF OrdersInv, OrdersTypeOK
  <2>2. told' \in [Sensors -> [Listeners -> Values \cup {NotTold, Missed}]]
    BY <1>1, <1>4 DEF OrdersInv, OrdersTypeOK
  <2>3. lost' \in [Consumers -> BOOLEAN]
    BY <1>1 DEF OrdersInv, OrdersTypeOK
  <2> QED
    BY <1>8, <2>1, <2>2, <2>3 DEF OrdersInv, OrdersTypeOK
<1>11. ListedHaveAttempts'
  <2> SUFFICES ASSUME NEW x \in Sensors
               PROVE  /\ maxAttemtps > 0 =>
                            \A c \in Listed(x)' \cap Consumers : attempt'[x][c] > 0
                      /\ Once(clst'[x])
    BY DEF ListedHaveAttempts, Once
  <2>1. CASE x = s
    <3>1. \A c \in Consumers : attempt'[s][c] = Left(c)
      BY <1>1 DEF OrdersInv, OrdersTypeOK
    <3> QED
      BY <1>6, <1>7, <1>8, <1>9, <2>1, <3>1
  <2>2. CASE x # s
    <3>1. attempt'[x] = attempt[x] /\ clst'[x] = clst[x]
      BY <1>1, <1>8, <2>2 DEF OrdersInv, OrdersTypeOK
    <3> QED
      BY <1>9, <3>1 DEF OrdersInv, ListedHaveAttempts, Once
  <2> QED
    BY <2>1, <2>2
<1>12. \A x \in Sensors : \A c \in Listeners :
          x # s \/ c \notin to => told'[x][c] = told[x][c]
  <2>1. \A x \in Sensors : x # s => told'[x] = told[x]
    BY <1>1 DEF OrdersInv, OrdersTypeOK
  <2>2. \A c \in Listeners : told'[s][c] = After(c)
    BY <1>1 DEF OrdersInv, OrdersTypeOK
  <2>3. \A c \in Listeners : c \notin to => After(c) = told[s][c]
    BY DEF After
  <2> QED
    BY <2>1, <2>2, <2>3
<1>13. \A c \in to : told'[s][c] \in {NotTold, Missed, v}
  <2>1. \A c \in Listeners : told'[s][c] = After(c)
    BY <1>1 DEF OrdersInv, OrdersTypeOK
  <2> QED
    BY <1>3, <1>5, <2>1
<1> QED
  BY <1>9, <1>10, <1>11, <1>12, <1>13 DEF OrdersInv

\* A step that touches no order.
LEMMA OrdersUntouched ==
    ASSUME OrdersInv, UNCHANGED askVars, asking' \in [Askers -> Asking]
    PROVE  OrdersInv'
<1>1. clst' = clst /\ attempt' = attempt /\ lost' = lost /\ closed' = closed /\ told' = told
  BY DEF askVars
<1>2. OrdersTypeOK'
  BY <1>1 DEF OrdersInv, OrdersTypeOK
<1>3. ListedHaveAttempts'
  BY <1>1 DEF OrdersInv, ListedHaveAttempts, Listed
<1> QED
  BY <1>2, <1>3 DEF OrdersInv

LEMMA SendKeeps ==
    ASSUME StoreTypeOK, OrdersInv, NEW t \in Writers, Send(t)
    PROVE  /\ OrdersInv'
           /\ \A x \in Sensors : Listed(x)' \subseteq Listed(x)
           /\ \A x \in Sensors : \A c \in Listeners :
                 x # Top(t).s => told'[x][c] = told[x][c]
           /\ NoneBehindClosed(Top(t).s) => \A c \in Listed(Top(t).s) :
                 told'[Top(t).s][c] \in {NotTold, Missed, value[Top(t).s]}
<1> DEFINE s == Top(t).s
           to == Reached(clst[s])
<1>1. s \in Sensors /\ value[s] \in Values
  BY TopFrame DEF Send, At, StoreTypeOK, Frame
<1>2. to \subseteq Listed(s)
  BY ReachedListed, ListedElements
<1>3. PICK fails \in [to \cap Consumers -> 0..sendAttemtps] : Deliver(s, value[s], to, fails)
  BY DEF Send
<1>4. closed' = closed /\ asking' \in [Askers -> Asking]
  BY DEF Send, OrdersInv, OrdersTypeOK
<1>5. NoneBehindClosed(s) => to = Listed(s)
  <2>1. clst[s] \in Seq(Listeners)
    BY <1>1 DEF OrdersInv, OrdersTypeOK
  <2> QED
    BY <2>1, ReachedAll, ListedElements DEF NoneBehindClosed
<1> HIDE DEF s, to
<1>6. /\ OrdersInv'
      /\ \A x \in Sensors : Listed(x)' \subseteq Listed(x)
      /\ \A x \in Sensors : \A c \in Listeners :
            x # s \/ c \notin to => told'[x][c] = told[x][c]
      /\ \A c \in to : told'[s][c] \in {NotTold, Missed, value[s]}
  BY <1>1, <1>2, <1>3, <1>4, DeliverKeeps
<1> QED
  BY <1>5, <1>6 DEF s

LEMMA AskIsRecord ==
    ASSUME OrdersTypeOK, NEW t \in Askers, asking[t].pc # "idle"
    PROVE  asking[t] \in [pc: {"check", "first"}, s: Sensors, c: Listeners, cmd: AskCommands]
<1>1. asking[t] \in Asking
  BY DEF OrdersTypeOK
<1>2. NotAsking.pc = "idle"
  BY DEF NotAsking
<1> QED
  BY <1>1, <1>2 DEF Asking

LEMMA SendFirstKeeps ==
    ASSUME StoreTypeOK, OrdersInv, NEW t \in Askers, SendFirst(t)
    PROVE  /\ OrdersInv'
           /\ \A x \in Sensors : Listed(x)' \subseteq Listed(x)
           /\ \A x \in Sensors : \A y \in Listeners :
                 told'[x][y] \in {told[x][y], NotTold, Missed, value[x]}
<1> DEFINE a == asking[t]
           to == ({a.c} \cap Listed(a.s)) \ closed
<1>1. a.s \in Sensors /\ value[a.s] \in Values
  BY AskIsRecord DEF SendFirst, StoreTypeOK, OrdersInv
<1>2. to \subseteq Listed(a.s)
  OBVIOUS
<1>3. PICK fails \in [to \cap Consumers -> 0..sendAttemtps] : Deliver(a.s, value[a.s], to, fails)
  BY DEF SendFirst
<1>4. closed' = closed /\ asking' \in [Askers -> Asking]
  BY DEF SendFirst, OrdersInv, OrdersTypeOK, Asking
<1> HIDE DEF a, to
<1>5. /\ OrdersInv'
      /\ \A x \in Sensors : Listed(x)' \subseteq Listed(x)
      /\ \A x \in Sensors : \A c \in Listeners :
            x # a.s \/ c \notin to => told'[x][c] = told[x][c]
      /\ \A c \in to : told'[a.s][c] \in {NotTold, Missed, value[a.s]}
  BY <1>1, <1>2, <1>3, <1>4, DeliverKeeps
<1> QED
  BY <1>5

\* A new consumer is put in front of the list, once.
LEMMA AddedShape ==
    ASSUME OrdersInv, NEW s \in Sensors, NEW c \in Listeners
    PROVE  /\ Added(s, c) \in Seq(Listeners)
           /\ Elements(Added(s, c)) = Listed(s) \cup {c}
           /\ Once(Added(s, c))
<1>1. clst[s] \in Seq(Listeners) /\ Once(clst[s])
  BY DEF OrdersInv, OrdersTypeOK, ListedHaveAttempts, Once
<1>2. CASE c \in Listed(s)
  BY <1>1, <1>2, ListedElements DEF Added
<1>3. CASE c \notin Listed(s)
  <2> DEFINE q == clst[s]
             r == <<c>> \o q
  <2>1. /\ r \in Seq(Listeners) /\ Len(r) = Len(q) + 1 /\ Len(q) \in Nat
        /\ r[1] = c /\ \A i \in 1..Len(q) : r[i + 1] = q[i]
    BY <1>1
  <2>2. Added(s, c) = r
    BY <1>3 DEF Added
  <2>3. \A i \in 1..Len(q) : q[i] # c
    BY <1>3 DEF Listed
  <2> HIDE DEF q, r
  <2>4. \A i \in 1..Len(r) : i = 1 \/ (i - 1 \in 1..Len(q) /\ r[i] = q[i - 1])
    <3> TAKE i \in 1..Len(r)
    <3>1. CASE i # 1
      <4>1. i - 1 \in 1..Len(q) /\ (i - 1) + 1 = i
        BY <2>1, <3>1
      <4> QED
        BY <2>1, <4>1
    <3> QED
      BY <3>1
  <2>5. Elements(r) = Elements(q) \cup {c}
    <3>1. Elements(r) \subseteq Elements(q) \cup {c}
      BY <2>1, <2>4 DEF Elements
    <3>2. c \in Elements(r)
      <4>1. 1 \in 1..Len(r)
        BY <2>1
      <4> QED
        BY <2>1, <4>1 DEF Elements
    <3>3. ASSUME NEW i \in 1..Len(q) PROVE q[i] \in Elements(r)
      <4>1. i + 1 \in 1..Len(r) /\ r[i + 1] = q[i]
        BY <2>1
      <4> QED
        BY <4>1 DEF Elements
    <3> QED
      BY <3>1, <3>2, <3>3 DEF Elements
  <2>6. Once(r)
    <3> SUFFICES ASSUME NEW i \in 1..Len(r), NEW j \in 1..Len(r), r[i] = r[j]
                 PROVE  i = j
      BY DEF Once
    <3>1. CASE i = 1 \/ j = 1
      BY <2>1, <2>3, <2>4, <3>1
    <3>2. CASE i # 1 /\ j # 1
      <4>1. i - 1 \in 1..Len(q) /\ j - 1 \in 1..Len(q) /\ q[i - 1] = q[j - 1]
        BY <2>4, <3>2
      <4>2. i - 1 = j - 1
        BY <1>1, <4>1 DEF Once, q
      <4> QED
        BY <4>2
    <3> QED
      BY <3>1, <3>2
  <2> QED
    BY <2>1, <2>2, <2>5, <2>6, ListedElements DEF q
<1> QED
  BY <1>2, <1>3

LEMMA AskSensorKeeps ==
    ASSUME OrdersInv, NEW t \in Askers, NEW s \in Sensors, NEW c \in Listeners,
           NEW cmd \in AskCommands, AskSensor(t, s, c, cmd)
    PROVE  /\ OrdersInv'
           /\ \A x \in Sensors : Listed(x)' \subseteq Listed(x) \cup {y \in {c} : x = s}
           /\ \A x \in Sensors : \A y \in Listeners :
                 \/ told'[x][y] = told[x][y]
                 \/ told'[x][y] = NotTold
           /\ c \notin Listed(s) => told'[s][c] = NotTold
<1>1. /\ clst' = [clst EXCEPT ![s] = Added(s, c)]
      /\ told' = [told EXCEPT ![s][c] = IF c \in Listed(s) THEN told[s][c] ELSE NotTold]
      /\ attempt' = [attempt EXCEPT ![s] =
            [x \in Consumers |-> IF x = c THEN maxAttemtps ELSE attempt[s][x]]]
      /\ lost' = [x \in Consumers |-> lost[x] /\ x # c]
      /\ asking' = [asking EXCEPT ![t] = [pc |-> "check", s |-> s, c |-> c, cmd |-> cmd]]
      /\ closed' = closed
  BY DEF AskSensor, OrdersInv, OrdersTypeOK
<1>2. /\ clst' \in [Sensors -> Seq(Listeners)]
      /\ clst'[s] = Added(s, c)
      /\ \A x \in Sensors : x # s => clst'[x] = clst[x]
  BY <1>1, AddedShape DEF OrdersInv, OrdersTypeOK
<1>3. \A x \in Sensors : Listed(x)' \subseteq Listed(x) \cup {y \in {c} : x = s}
  <2>1. Elements(clst'[s]) = Listed(s) \cup {c}
    BY <1>2, AddedShape
  <2> QED
    BY <1>2, <2>1 DEF Listed, Elements
<1>4. /\ \A x \in Sensors : \A y \in Listeners :
            told'[x][y] = told[x][y] \/ told'[x][y] = NotTold
      /\ c \notin Listed(s) => told'[s][c] = NotTold
      /\ told' \in [Sensors -> [Listeners -> Values \cup {NotTold, Missed}]]
  BY <1>1 DEF OrdersInv, OrdersTypeOK
<1>5. /\ attempt' \in [Sensors -> [Consumers -> 0..maxAttemtps]]
      /\ \A x \in Sensors : \A y \in Consumers :
            attempt'[x][y] = IF x = s /\ y = c THEN maxAttemtps ELSE attempt[x][y]
  <2>1. maxAttemtps \in 0..maxAttemtps
    BY ConfigAssumption
  <2> QED
    BY <1>1, <2>1 DEF OrdersInv, OrdersTypeOK
<1>6. asking' \in [Askers -> Asking]
  <2>1. [pc |-> "check", s |-> s, c |-> c, cmd |-> cmd] \in Asking
    BY DEF Asking
  <2> QED
    BY <1>1, <2>1 DEF OrdersInv, OrdersTypeOK
<1>7. OrdersTypeOK'
  BY <1>1, <1>2, <1>4, <1>5, <1>6 DEF OrdersInv, OrdersTypeOK
<1>8. ListedHaveAttempts'
  <2> SUFFICES ASSUME NEW x \in Sensors
               PROVE  /\ maxAttemtps > 0 =>
                            \A y \in Listed(x)' \cap Consumers : attempt'[x][y] > 0
                      /\ Once(clst'[x])
    BY DEF ListedHaveAttempts, Once
  <2>1. Once(clst'[x])
    <3>1. Once(clst'[s])
      BY <1>2, AddedShape
    <3>2. Once(clst[x])
      BY DEF OrdersInv, ListedHaveAttempts, Once
    <3> QED
      BY <1>2, <3>1, <3>2
  <2>2. ASSUME maxAttemtps > 0, NEW y \in Listed(x)' \cap Consumers
        PROVE  attempt'[x][y] > 0
    BY <1>3, <1>5, <2>2 DEF OrdersInv, ListedHaveAttempts
  <2> QED
    BY <2>1, <2>2
<1> QED
  BY <1>3, <1>4, <1>7, <1>8 DEF OrdersInv

LEMMA DontNotifyKeeps ==
    ASSUME OrdersInv, NEW t \in Askers, NEW s \in Sensors, NEW c \in Listeners,
           DontNotify(t, s, c)
    PROVE  /\ OrdersInv'
           /\ \A x \in Sensors : Listed(x)' \subseteq Listed(x)
           /\ \A x \in Sensors : \A y \in Listeners :
                 told'[x][y] = told[x][y] \/ told'[x][y] = NotTold
<1>1. /\ clst' = [clst EXCEPT ![s] = Without(clst[s], {c})]
      /\ told' = [told EXCEPT ![s][c] = NotTold]
      /\ UNCHANGED <<asking, attempt, lost, closed>>
  BY DEF DontNotify
<1>2. clst[s] \in Seq(Listeners) /\ Once(clst[s])
  BY DEF OrdersInv, OrdersTypeOK, ListedHaveAttempts, Once
<1>3. /\ Without(clst[s], {c}) \in Seq(Listeners)
      /\ Elements(Without(clst[s], {c})) \subseteq Elements(clst[s])
      /\ Once(Without(clst[s], {c}))
  BY <1>2, WithoutShape
<1>4. /\ clst' \in [Sensors -> Seq(Listeners)]
      /\ clst'[s] = Without(clst[s], {c})
      /\ \A x \in Sensors : x # s => clst'[x] = clst[x]
  BY <1>1, <1>3 DEF OrdersInv, OrdersTypeOK
<1>5. \A x \in Sensors : Listed(x)' \subseteq Listed(x)
  BY <1>3, <1>4 DEF Listed, Elements
<1>6. /\ \A x \in Sensors : \A y \in Listeners :
            told'[x][y] = told[x][y] \/ told'[x][y] = NotTold
      /\ told' \in [Sensors -> [Listeners -> Values \cup {NotTold, Missed}]]
  BY <1>1 DEF OrdersInv, OrdersTypeOK
<1>7. OrdersTypeOK'
  BY <1>1, <1>4, <1>6 DEF OrdersInv, OrdersTypeOK
<1>8. ListedHaveAttempts'
  <2>1. \A x \in Sensors : Once(clst'[x])
    BY <1>3, <1>4 DEF OrdersInv, ListedHaveAttempts, Once
  <2>2. \A x \in Sensors : maxAttemtps > 0 =>
           \A y \in Listed(x)' \cap Consumers : attempt'[x][y] > 0
    BY <1>1, <1>5 DEF OrdersInv, ListedHaveAttempts
  <2> QED
    BY <2>1, <2>2 DEF ListedHaveAttempts, Once
<1> QED
  BY <1>5, <1>6, <1>7, <1>8 DEF OrdersInv

LEMMA CheckFirstKeeps ==
    ASSUME OrdersInv, NEW t \in Askers, CheckFirst(t) PROVE OrdersInv'
<1>1. asking[t] \in [pc: {"check", "first"}, s: Sensors, c: Listeners, cmd: AskCommands]
  BY AskIsRecord DEF CheckFirst, OrdersInv
<1>2. [asking[t] EXCEPT !.pc = "first"]
        \in [pc: {"check", "first"}, s: Sensors, c: Listeners, cmd: AskCommands]
  BY <1>1
<1>3. asking' \in [Askers -> Asking]
  BY <1>2 DEF CheckFirst, OrdersInv, OrdersTypeOK, Asking
<1> QED
  BY <1>3, OrdersUntouched DEF CheckFirst

LEMMA CloseClientKeeps ==
    ASSUME OrdersInv, NEW c \in Clients, CloseClient(c) PROVE OrdersInv'
<1>1. clst' = clst /\ attempt' = attempt /\ lost' = lost /\ asking' = asking /\ told' = told
  BY DEF CloseClient, askVars
<1>2. OrdersTypeOK'
  BY <1>1 DEF CloseClient, OrdersInv, OrdersTypeOK
<1>3. ListedHaveAttempts'
  BY <1>1 DEF OrdersInv, ListedHaveAttempts, Listed
<1> QED
  BY <1>2, <1>3 DEF OrdersInv

LEMMA InitOrdersInv == Init => OrdersInv
<1> SUFFICES ASSUME Init PROVE OrdersInv
  OBVIOUS
<1>1. \A s \in Sensors : clst[s] = <<>> /\ Len(clst[s]) = 0
  BY DEF Init
<1>2. ListedHaveAttempts
  BY <1>1 DEF ListedHaveAttempts, Listed
<1>3. maxAttemtps \in 0..maxAttemtps
  BY ConfigAssumption
<1>4. asking \in [Askers -> Asking]
  BY DEF Init, Asking
<1>5. OrdersTypeOK
  BY <1>3, <1>4 DEF Init, OrdersTypeOK
<1> QED
  BY <1>2, <1>5 DEF OrdersInv

\* The steps of a writer other than Send touch no order.
LEMMA WriterOrders ==
    ASSUME NEW t \in Writers, WriterCall(t) \/ WriterStep(t)
    PROVE  Send(t) \/ UNCHANGED <<asking, askVars>>
  BY DEF WriterCall, WriterStep, SetValue, FreezeValue, ReadPrev, Write, Emit, ReadReal,
         EmitDone, CheckDepend, ReturnUnchanged, LockThresholds, CheckThreshold,
         ThresholdsDone

LEMMA NextOrdersInv == StoreTypeOK /\ OrdersInv /\ [Next]_vars => OrdersInv'
<1> SUFFICES ASSUME StoreTypeOK, OrdersInv, [Next]_vars PROVE OrdersInv'
  OBVIOUS
<1>0. asking \in [Askers -> Asking]
  BY DEF OrdersInv, OrdersTypeOK
<1>1. CASE UNCHANGED vars
  BY <1>0, <1>1, OrdersUntouched DEF vars
<1>2. ASSUME NEW t \in Writers, WriterCall(t) \/ WriterStep(t) PROVE OrdersInv'
  <2>1. CASE Send(t)
    BY <2>1, SendKeeps
  <2>2. CASE UNCHANGED <<asking, askVars>>
    BY <1>0, <2>2, OrdersUntouched
  <2> QED
    BY <1>2, <2>1, <2>2, WriterOrders
<1>3. ASSUME NEW t \in Askers, AskerCall(t) PROVE OrdersInv'
  <2>1. PICK o \in Orders :
           \/ DontNotify(t, o[1], o[2])
           \/ \E cmd \in AskCommands : AskSensor(t, o[1], o[2], cmd)
    BY <1>3 DEF AskerCall
  <2>2. o[1] \in Sensors /\ o[2] \in Listeners
    BY SensorsAssumption DEF Listeners
  <2> QED
    BY <2>1, <2>2, DontNotifyKeeps, AskSensorKeeps
<1>4. ASSUME NEW t \in Askers, AskerStep(t) PROVE OrdersInv'
  BY <1>4, CheckFirstKeeps, SendFirstKeeps DEF AskerStep
<1>5. ASSUME NEW c \in Clients, CloseClient(c) PROVE OrdersInv'
  BY <1>5, CloseClientKeeps
<1> QED
  BY <1>1, <1>2, <1>3, <1>4, <1>5 DEF Next

LEMMA OrdersAlways == Spec => []OrdersInv
  BY StoreTypeCorrect, InitOrdersInv, NextOrdersInv, PTL DEF Spec

\* Sensors, call stacks, lists of consumers and messages keep their types, for any
\* threads: no send() leaves a number of attempts below 0.
THEOREM NotifyControllerTyped == Spec => []TypeOK
<1>1. StoreTypeOK /\ OrdersInv => TypeOK
  BY DEF OrdersInv, TypeOK
<1> QED
  BY <1>1, StoreTypeCorrect, OrdersAlways, PTL

\* For any threads, consumers and clients and any failures of sending: a consumer
\* is on the list of a sensor once, however often it asks (addConsumer), and as
\* long as it is listed it has attempts left (send erases it with the last one).
THEOREM ListedAlwaysHaveAttempts == Spec => []ListedHaveAttempts
<1>1. OrdersInv => ListedHaveAttempts
  BY DEF OrdersInv
<1> QED
  BY <1>1, OrdersAlways, PTL
-----------------------------------------------------------------------------
(* Stacks: the top and its callers *)

LEMMA FramesSplit ==
    ASSUME NEW q \in Seq(Frame), q # <<>>
    PROVE  FramesOf(q) = CallersOf(q) \cup {q[Len(q)]}
<1>1. Len(q) \in Nat /\ Len(q) \in 1..Len(q)
  OBVIOUS
<1>2. \A i \in 1..Len(q) : i \in 1..(Len(q) - 1) \/ i = Len(q)
  BY <1>1
<1>3. 1..(Len(q) - 1) \subseteq 1..Len(q)
  BY <1>1
<1> QED
  BY <1>1, <1>2, <1>3 DEF FramesOf, CallersOf

LEMMA PushShape ==
    ASSUME NEW q \in Seq(Frame), NEW f \in Frame
    PROVE  /\ Push(q, f) # <<>>
           /\ Push(q, f)[Len(Push(q, f))] = f
           /\ CallersOf(Push(q, f)) = FramesOf(q)
<1>1. /\ Len(Push(q, f)) = Len(q) + 1 /\ Len(q) \in Nat
      /\ \A i \in 1..Len(q) : Push(q, f)[i] = q[i]
      /\ Push(q, f)[Len(q) + 1] = f
  BY DEF Push
<1>2. Len(Push(q, f)) - 1 = Len(q)
  BY <1>1
<1>3. Push(q, f) # <<>>
  BY DEF Push
<1> QED
  BY <1>1, <1>2, <1>3 DEF CallersOf, FramesOf

LEMMA SetTopShape ==
    ASSUME NEW q \in Seq(Frame), q # <<>>, NEW f \in Frame
    PROVE  /\ SetTop(q, f) # <<>>
           /\ SetTop(q, f)[Len(SetTop(q, f))] = f
           /\ CallersOf(SetTop(q, f)) = CallersOf(q)
<1>1. Len(q) \in Nat /\ Len(q) > 0 /\ Len(q) \in 1..Len(q)
  OBVIOUS
<1>2. /\ Len(SetTop(q, f)) = Len(q)
      /\ \A i \in 1..Len(q) : i # Len(q) => SetTop(q, f)[i] = q[i]
      /\ SetTop(q, f)[Len(q)] = f
  BY <1>1 DEF SetTop
<1>3. \A i \in 1..(Len(q) - 1) : i \in 1..Len(q) /\ i # Len(q)
  BY <1>1
<1>4. \A i \in 1..(Len(q) - 1) : SetTop(q, f)[i] = q[i]
  BY <1>2, <1>3
<1>5. SetTop(q, f) # <<>>
  BY SetTopFrames
<1> QED
  BY <1>2, <1>4, <1>5 DEF CallersOf

LEMMA PopShape ==
    ASSUME NEW q \in Seq(Frame), q # <<>>
    PROVE  /\ FramesOf(Pop(q)) = CallersOf(q)
           /\ CallersOf(Pop(q)) \subseteq CallersOf(q)
           /\ Pop(q) = <<>> \/ Pop(q)[Len(Pop(q))] \in CallersOf(q)
<1> DEFINE n == Len(q) - 1
<1>1. n \in Nat /\ n + 1 = Len(q)
  OBVIOUS
<1>2. \A i \in 1..n : q[i] \in Frame
  <2> TAKE i \in 1..n
  <2>1. i \in 1..Len(q)
    BY <1>1
  <2> QED
    BY <2>1
<1>3. Pop(q) = SubSeq(q, 1, n)
  BY DEF Pop
<1> HIDE DEF n
<1>4. /\ Len(Pop(q)) = IF 1 <= n THEN n - 1 + 1 ELSE 0
      /\ \A i \in 1..(n - 1 + 1) : Pop(q)[i] = q[1 + i - 1]
  BY <1>1, <1>2, <1>3, SubSeqProperties
<1>5. Len(Pop(q)) = n
  BY <1>1, <1>4
<1>6. \A i \in 1..n : Pop(q)[i] = q[i]
  <2> TAKE i \in 1..n
  <2>1. i \in 1..(n - 1 + 1) /\ 1 + i - 1 = i
    BY <1>1
  <2> QED
    BY <2>1, <1>4
<1>7. CallersOf(q) = {q[i] : i \in 1..n}
  BY DEF CallersOf, n
<1>8. FramesOf(Pop(q)) = CallersOf(q)
  BY <1>5, <1>6, <1>7 DEF FramesOf
<1>9. 1..(n - 1) \subseteq 1..n
  BY <1>1
<1>10. CallersOf(Pop(q)) \subseteq CallersOf(q)
  BY <1>5, <1>6, <1>7, <1>9 DEF CallersOf
<1>11. ASSUME Pop(q) # <<>> PROVE Pop(q)[Len(Pop(q))] \in CallersOf(q)
  <2>1. Pop(q) \in Seq(Frame)
    BY PopFrames
  <2>2. n \in 1..n
    BY <1>1, <1>5, <1>11, <2>1
  <2> QED
    BY <1>5, <1>6, <1>7, <2>2
<1> QED
  BY <1>8, <1>10, <1>11

\* After the step the top of t is g, and it was called by the frames of C.
TopBecomes(t, C, g) ==
    /\ stk'[t] # <<>>
    /\ Top(t)' = g
    /\ Callers(t)' = C
    /\ Frames(t)' = C \cup {g}

\* After the step the top of t is gone.
Returns(t) ==
    /\ Frames(t)' = Callers(t)
    /\ Callers(t)' \subseteq Callers(t)
    /\ stk'[t] = <<>> \/ Top(t)' \in Callers(t)

LEMMA FramesAre ==
    ASSUME StoreTypeOK, NEW t \in Writers
    PROVE  /\ stk[t] = <<>> => Frames(t) = {} /\ Callers(t) = {}
           /\ stk[t] # <<>> => Frames(t) = Callers(t) \cup {Top(t)}
<1>1. stk[t] \in Seq(Frame)
  BY DEF StoreTypeOK
<1>2. stk[t] = <<>> => Frames(t) = {} /\ Callers(t) = {}
  BY DEF Frames, FramesOf, Callers, CallersOf
<1> QED
  BY <1>1, <1>2, FramesSplit DEF Frames, Callers, Top

LEMMA MoveBecomes ==
    ASSUME StoreTypeOK, NEW t \in Writers, NEW f \in Frame, stk[t] # <<>>,
           stk' = [stk EXCEPT ![t] = SetTop(stk[t], f)]
    PROVE  TopBecomes(t, Callers(t), f)
<1>1. stk[t] \in Seq(Frame) /\ stk'[t] = SetTop(stk[t], f)
  BY DEF StoreTypeOK
<1>2. SetTop(stk[t], f) \in Seq(Frame)
  BY <1>1, SetTopFrames
<1>3. /\ SetTop(stk[t], f) # <<>>
      /\ SetTop(stk[t], f)[Len(SetTop(stk[t], f))] = f
      /\ CallersOf(SetTop(stk[t], f)) = CallersOf(stk[t])
  BY <1>1, SetTopShape
<1>4. FramesOf(SetTop(stk[t], f)) = CallersOf(stk[t]) \cup {f}
  BY <1>2, <1>3, FramesSplit
<1> QED
  BY <1>1, <1>3, <1>4 DEF TopBecomes, Top, Callers, Frames

LEMMA NestedBecomes ==
    ASSUME StoreTypeOK, NEW t \in Writers, NEW f \in Frame, NEW g \in Frame, stk[t] # <<>>,
           stk' = [stk EXCEPT ![t] = Push(SetTop(stk[t], f), g)]
    PROVE  TopBecomes(t, Callers(t) \cup {f}, g)
<1> DEFINE q == SetTop(stk[t], f)
<1>1. stk[t] \in Seq(Frame) /\ stk'[t] = Push(q, g)
  BY DEF StoreTypeOK
<1>2. q \in Seq(Frame)
  BY <1>1, SetTopFrames
<1>3. FramesOf(q) = CallersOf(stk[t]) \cup {f}
  BY <1>1, <1>2, SetTopShape, FramesSplit
<1> HIDE DEF q
<1>4. /\ Push(q, g) # <<>> /\ Push(q, g)[Len(Push(q, g))] = g
      /\ CallersOf(Push(q, g)) = FramesOf(q)
      /\ FramesOf(Push(q, g)) = FramesOf(q) \cup {g}
  BY <1>2, PushShape, PushFrames
<1> QED
  BY <1>1, <1>3, <1>4 DEF TopBecomes, Top, Callers, Frames

LEMMA StartBecomes ==
    ASSUME StoreTypeOK, NEW t \in Writers, NEW f \in Frame, stk[t] = <<>>,
           stk' = [stk EXCEPT ![t] = Push(stk[t], f)]
    PROVE  TopBecomes(t, {}, f)
<1>1. stk[t] \in Seq(Frame) /\ stk'[t] = Push(stk[t], f)
  BY DEF StoreTypeOK
<1>2. FramesOf(stk[t]) = {}
  BY FramesAre DEF Frames
<1>3. /\ Push(stk[t], f) # <<>> /\ Push(stk[t], f)[Len(Push(stk[t], f))] = f
      /\ CallersOf(Push(stk[t], f)) = FramesOf(stk[t])
      /\ FramesOf(Push(stk[t], f)) = FramesOf(stk[t]) \cup {f}
  BY <1>1, PushShape, PushFrames
<1> QED
  BY <1>1, <1>2, <1>3 DEF TopBecomes, Top, Callers, Frames

LEMMA PopReturns ==
    ASSUME StoreTypeOK, NEW t \in Writers, stk[t] # <<>>,
           stk' = [stk EXCEPT ![t] = Pop(stk[t])]
    PROVE  Returns(t)
<1>1. stk[t] \in Seq(Frame) /\ stk'[t] = Pop(stk[t])
  BY DEF StoreTypeOK
<1> QED
  BY <1>1, PopShape DEF Returns, Top, Callers, Frames
-----------------------------------------------------------------------------
(* What a step of the only writer that is inside a call keeps *)

\* Writer t takes a step while no other is inside a call.
Alone(t) == \A u \in Writers : u = t \/ (stk[u] = <<>> /\ stk'[u] = <<>>)

\* Writer u has no part in the step.
NoCalls(u) ==
    /\ Frames(u) = {} /\ Callers(u) = {} /\ \A h : ~Sets(u, h)
    /\ Frames(u)' = {} /\ Callers(u)' = {} /\ \A h : ~Sets(u, h)'
    /\ ~At(u, "write")'

LEMMA OnlyWriter ==
    ASSUME NEW t \in Writers, Alone(t) PROVE \A u \in Writers : u = t \/ NoCalls(u)
  BY DEF Alone, NoCalls, Frames, FramesOf, Callers, CallersOf, Sets, At

\* The parts of ChangeInv that a new stack has to meet by itself.
LEMMA StackKept ==
    ASSUME StoreTypeOK, NEW skips \in BOOLEAN, ChangeInv(skips),
           NEW t \in Writers, Alone(t), NEW C, NEW g,
           TopBecomes(t, C, g),
           \A f \in C : f.pc \in {"depend", "threshold"},
           \A f \in C \cup {g} : \/ f \in Callers(t)
                                 \/ f.pc = "threshold" => f.todo \subseteq ThresholdsOf(f.s),
           g.pc = "write" => g.prev = value'[g.s]
    PROVE  (CallersWait /\ TodoIsOwn /\ PrevIsCurrent)'
<1>1. \A u \in Writers : u = t \/ NoCalls(u)
  BY OnlyWriter
<1>2. CallersWait'
  BY <1>1 DEF CallersWait, TopBecomes, NoCalls
<1>3. TodoIsOwn'
  <2> SUFFICES ASSUME NEW f \in Frames(t)', f.pc = "threshold"
               PROVE  f.todo \subseteq ThresholdsOf(f.s)
    BY <1>1 DEF TodoIsOwn, ThresholdsOf, NoCalls
  <2>1. f \in C \cup {g}
    BY DEF TopBecomes
  <2>2. f \in Callers(t) => f \in Frames(t)
    BY FramesAre
  <2> QED
    BY <2>1, <2>2 DEF ChangeInv, TodoIsOwn
<1>4. PrevIsCurrent'
  BY <1>1 DEF PrevIsCurrent, TopBecomes, At, NoCalls
<1> QED
  BY <1>2, <1>3, <1>4

\* The frames of C and g above them may replace the stack of t.
StackFits(t, C, g) ==
    /\ Callers(t) \subseteq C
    /\ \A f \in C : f.pc \in {"depend", "threshold"}
    /\ \A f \in C \cup {g} : \/ f \in Callers(t)
                             \/ f.pc = "threshold" => f.todo \subseteq ThresholdsOf(f.s)
    /\ g.pc = "write" => g.prev = value[g.s]

\* What the top of t was going to do, f is going to do.
DoesFor(t, f) ==
    /\ f.s = Top(t).s
    /\ WillNotify(Top(t)) => WillNotify(f)
    /\ \A h \in Thresholds : WillEvaluate(Top(t), h) => WillEvaluate(f, h)

\* With g as the new top, the threshold sensors are written as before.
SetsFor(t, g) ==
    /\ \A h \in Thresholds : OwnSensor(h) /\ g.s = thr[h].sid /\ g.pc \in {"prev", "write"}
                                => g.val = Tripped(tstate[h])
    /\ \A h \in Thresholds : Sets(t, h) => g.s = thr[h].sid /\ g.pc \in {"prev", "write"}

Carries(t, C, g) ==
    /\ StackFits(t, C, g)
    /\ stk[t] = <<>> \/ \E f \in C \cup {g} : DoesFor(t, f)
    /\ SetsFor(t, g)

\* A step that changes no value, no state of a threshold and no order.
LEMMA QuietStep ==
    ASSUME StoreTypeOK, NEW skips \in BOOLEAN, ChangeInv(skips),
           NEW t \in Writers, Alone(t), NEW C, NEW g,
           TopBecomes(t, C, g),
           UNCHANGED <<value, real_value, tstate, clst, told, closed>>,
           Carries(t, C, g)
    PROVE  ChangeInv(skips)'
<1>1. \A u \in Writers : u = t \/ NoCalls(u)
  BY OnlyWriter
<1>2. (CallersWait /\ TodoIsOwn /\ PrevIsCurrent)'
  BY StackKept DEF Carries, StackFits, DoesFor, SetsFor
<1>3. Frames(t)' = C \cup {g}
  BY DEF TopBecomes
<1>4. ChangeIsSent(skips)'
  <2> SUFFICES ASSUME NEW s \in Sensors, NEW f \in Frames(t), f.s = s, WillNotify(f)
               PROVE  \E k \in Frames(t)' : k.s = s /\ WillNotify(k)
    BY <1>1 DEF ChangeInv, ChangeIsSent, Listed, NoCalls
  <2>1. f \in Callers(t) \/ (stk[t] # <<>> /\ f = Top(t))
    BY FramesAre
  <2> QED
    BY <1>3, <2>1 DEF Carries, StackFits, DoesFor, SetsFor
<1>5. StateFollows'
  <2> SUFFICES ASSUME NEW h \in Thresholds, NEW f \in Frames(t), WillEvaluate(f, h)
               PROVE  \E k \in Frames(t)' : WillEvaluate(k, h)
    BY <1>1 DEF ChangeInv, StateFollows, NoCalls
  <2>1. f \in Callers(t) \/ (stk[t] # <<>> /\ f = Top(t))
    BY FramesAre
  <2> QED
    BY <1>3, <2>1 DEF Carries, StackFits, DoesFor, SetsFor
<1>6. SensorFollows'
  <2> SUFFICES ASSUME NEW h \in Thresholds, OwnSensor(h)
               PROVE  /\ Sets(t, h)' => Top(t)'.val = Tripped(tstate[h])
                      /\ \/ real_value[thr[h].sid] = Tripped(tstate[h])
                         \/ Sets(t, h)' /\ \E f \in Callers(t)' :
                                              f.s = thr[h].ai /\ f.pc = "threshold"
    BY <1>1 DEF SensorFollows, NoCalls
  <2>1. Sets(t, h)' <=> g.s = thr[h].sid /\ g.pc \in {"prev", "write"}
    BY DEF Sets, At, TopBecomes
  <2>2. Top(t)' = g /\ Callers(t) \subseteq Callers(t)'
    BY DEF TopBecomes, Carries, StackFits
  <2> QED
    BY <1>1, <2>1, <2>2 DEF Carries, StackFits, DoesFor, SetsFor, ChangeInv, SensorFollows, NoCalls
<1> QED
  BY <1>2, <1>4, <1>5, <1>6 DEF ChangeInv

\* A call returns that has nothing left to do.
LEMMA ReturnStep ==
    ASSUME StoreTypeOK, NEW skips \in BOOLEAN, ChangeInv(skips),
           NEW t \in Writers, Alone(t), stk[t] # <<>>,
           Returns(t), UNCHANGED <<value, real_value, tstate, clst, told, closed>>,
           ~WillNotify(Top(t)), \A h \in Thresholds : ~WillEvaluate(Top(t), h),
           Top(t).pc \notin {"prev", "write"}
    PROVE  ChangeInv(skips)'
<1>1. \A u \in Writers : u = t \/ NoCalls(u)
  BY OnlyWriter
<1>2. /\ Frames(t)' = Callers(t) /\ Callers(t)' \subseteq Callers(t)
      /\ stk'[t] = <<>> \/ Top(t)' \in Callers(t)
      /\ Frames(t) = Callers(t) \cup {Top(t)}
      /\ \A f \in Callers(t) : f.pc \in {"depend", "threshold"}
  BY FramesAre DEF Returns, ChangeInv, CallersWait
<1>3. CallersWait'
  BY <1>1, <1>2 DEF CallersWait, NoCalls
<1>4. TodoIsOwn'
  BY <1>1, <1>2 DEF ChangeInv, TodoIsOwn, ThresholdsOf, NoCalls
<1>5. PrevIsCurrent' /\ \A h \in Thresholds : ~Sets(t, h)'
  BY <1>1, <1>2 DEF PrevIsCurrent, Sets, At, NoCalls
<1>6. ChangeIsSent(skips)'
  BY <1>1, <1>2 DEF ChangeInv, ChangeIsSent, Listed, NoCalls
<1>7. StateFollows'
  BY <1>1, <1>2 DEF ChangeInv, StateFollows, NoCalls
<1>8. SensorFollows'
  <2>1. \A h \in Thresholds : ~Sets(t, h)
    BY DEF Sets, At
  <2> QED
    BY <1>1, <1>5, <2>1 DEF ChangeInv, SensorFollows, NoCalls
<1> QED
  BY <1>3, <1>4, <1>5, <1>6, <1>7, <1>8 DEF ChangeInv

\* The top moves on to f, which is still going to do what it was going to do.
LEMMA MoveStep ==
    ASSUME StoreTypeOK, NEW skips \in BOOLEAN, ChangeInv(skips),
           NEW t \in Writers, Alone(t), stk[t] # <<>>,
           NEW f \in Frame, stk' = [stk EXCEPT ![t] = SetTop(stk[t], f)],
           UNCHANGED <<value, real_value, tstate, clst, told, closed>>,
           f.s = Top(t).s,
           f.pc = "threshold" => f.todo \subseteq ThresholdsOf(f.s),
           f.pc = "write" => f.prev = value[f.s],
           WillNotify(Top(t)) => WillNotify(f),
           \A h \in Thresholds : WillEvaluate(Top(t), h) => WillEvaluate(f, h),
           \A h \in Thresholds : OwnSensor(h) /\ f.s = thr[h].sid /\ f.pc \in {"prev", "write"}
                                    => f.val = Tripped(tstate[h]),
           \A h \in Thresholds : Sets(t, h) => f.pc \in {"prev", "write"}
    PROVE  ChangeInv(skips)'
<1>1. TopBecomes(t, Callers(t), f)
  BY MoveBecomes
<1>2. \A k \in Callers(t) : k.pc \in {"depend", "threshold"}
  BY DEF ChangeInv, CallersWait
<1>3. StackFits(t, Callers(t), f)
  BY <1>2 DEF StackFits
<1>4. DoesFor(t, f)
  BY DEF DoesFor
<1>5. SetsFor(t, f)
  BY DEF SetsFor, Sets
<1>6. Carries(t, Callers(t), f)
  BY <1>3, <1>4, <1>5 DEF Carries
<1> QED
  BY <1>1, <1>6, QuietStep

\* The top moves on to f and calls g, for which no value is chosen yet.
LEMMA CallStep ==
    ASSUME StoreTypeOK, NEW skips \in BOOLEAN, ChangeInv(skips),
           NEW t \in Writers, Alone(t), stk[t] # <<>>,
           NEW f \in Frame, NEW g \in Frame,
           stk' = [stk EXCEPT ![t] = Push(SetTop(stk[t], f), g)],
           UNCHANGED <<value, real_value, tstate, clst, told, closed>>,
           f.s = Top(t).s, f.pc = "depend", g.pc = "real",
           WillNotify(Top(t)) => WillNotify(f),
           \A h \in Thresholds : WillEvaluate(Top(t), h) => WillEvaluate(f, h),
           \A h \in Thresholds : ~Sets(t, h)
    PROVE  ChangeInv(skips)'
<1> DEFINE C == Callers(t) \cup {f}
<1>1. TopBecomes(t, C, g) /\ Callers(t) \subseteq C
  BY NestedBecomes
<1>2. \A k \in C : k.pc \in {"depend", "threshold"}
  BY DEF ChangeInv, CallersWait
<1>3. StackFits(t, C, g)
  BY <1>1, <1>2 DEF StackFits
<1>4. DoesFor(t, f) /\ f \in C
  BY DEF DoesFor
<1>5. SetsFor(t, g)
  BY DEF SetsFor
<1> HIDE DEF C
<1>6. Carries(t, C, g)
  BY <1>3, <1>4, <1>5 DEF Carries
<1> QED
  BY <1>1, <1>6, QuietStep
-----------------------------------------------------------------------------
(* One lemma per action of the writer *)

LEMMA SetValueFollowed ==
    ASSUME StoreTypeOK, NEW skips \in BOOLEAN, ChangeInv(skips),
           NEW t \in Writers, Alone(t),
           NEW i \in Inputs, SetValue(t, i[1], i[2])
    PROVE  ChangeInv(skips)'
<1> DEFINE f == NewFrame(i[1], "prev", i[2], "set")
<1>1. f \in Frame /\ f.pc = "prev" /\ f.s = i[1]
  BY SensorsAssumption DEF Frame, NewFrame, FramePC, Origins
<1>2. stk[t] = <<>> /\ stk' = [stk EXCEPT ![t] = Push(stk[t], f)]
  BY DEF SetValue, Idle
<1>3. UNCHANGED <<value, real_value, tstate, clst, told, closed>>
  BY DEF SetValue, sensorVars, askVars
<1> HIDE DEF f
<1>4. TopBecomes(t, {}, f) /\ Callers(t) = {}
  BY <1>1, <1>2, StartBecomes, FramesAre
<1>5. \A h \in Thresholds : (OwnSensor(h) => f.s # thr[h].sid) /\ ~Sets(t, h)
  BY <1>1, <1>2 DEF OwnSensor, Sets, At
<1>6. Carries(t, {}, f)
  BY <1>1, <1>2, <1>4, <1>5 DEF Carries, StackFits, SetsFor
<1> QED
  BY <1>3, <1>4, <1>6, QuietStep

LEMMA FreezeValueFollowed ==
    ASSUME StoreTypeOK, NEW skips \in BOOLEAN, ChangeInv(skips),
           NEW t \in Writers, Alone(t),
           NEW i \in Inputs, NEW set \in BOOLEAN, FreezeValue(t, i[1], set, i[2])
    PROVE  ChangeInv(skips)'
<1> DEFINE f == NewFrame(i[1], "prev", real_value[i[1]], "freeze")
<1>1. f \in Frame /\ f.pc = "prev" /\ f.s = i[1]
  BY SensorsAssumption DEF Frame, NewFrame, FramePC, Origins, StoreTypeOK
<1>2. stk[t] = <<>> /\ stk' = [stk EXCEPT ![t] = Push(stk[t], f)]
  BY DEF FreezeValue, Idle
<1>3. UNCHANGED <<value, real_value, tstate, clst, told, closed>>
  BY DEF FreezeValue, askVars
<1> HIDE DEF f
<1>4. TopBecomes(t, {}, f) /\ Callers(t) = {}
  BY <1>1, <1>2, StartBecomes, FramesAre
<1>5. \A h \in Thresholds : (OwnSensor(h) => f.s # thr[h].sid) /\ ~Sets(t, h)
  BY <1>1, <1>2 DEF OwnSensor, Sets, At
<1>6. Carries(t, {}, f)
  BY <1>1, <1>2, <1>4, <1>5 DEF Carries, StackFits, SetsFor
<1> QED
  BY <1>3, <1>4, <1>6, QuietStep

\* What is known of the top of the writer and of its callers.
LEMMA TopKnown ==
    ASSUME StoreTypeOK, NEW skips \in BOOLEAN, ChangeInv(skips),
           NEW t \in Writers, stk[t] # <<>>
    PROVE  /\ Top(t) \in Frame /\ Top(t) \in Frames(t)
           /\ Frames(t) = Callers(t) \cup {Top(t)}
           /\ \A f \in Callers(t) : f.pc \in {"depend", "threshold"}
  BY TopFrame, FramesAre DEF StoreTypeOK, ChangeInv, CallersWait

LEMMA ReadPrevFollowed ==
    ASSUME StoreTypeOK, NEW skips \in BOOLEAN, ChangeInv(skips),
           NEW t \in Writers, Alone(t), ReadPrev(t)
    PROVE  ChangeInv(skips)'
<1> DEFINE f == [Top(t) EXCEPT !.prev = value[Top(t).s], !.pc = "write"]
<1>1. stk[t] # <<>> /\ Top(t).pc = "prev"
  BY DEF ReadPrev, At
<1>2. Top(t) \in Frame
  BY <1>1, TopKnown
<1>3. /\ f \in Frame /\ f.pc = "write" /\ f.s = Top(t).s /\ f.val = Top(t).val
      /\ f.prev = value[f.s]
  BY <1>2 DEF Frame, FramePC, StoreTypeOK
<1>4. stk' = [stk EXCEPT ![t] = SetTop(stk[t], f)]
  BY DEF ReadPrev
<1>5. UNCHANGED <<value, real_value, tstate, clst, told, closed>>
  BY DEF ReadPrev, sensorVars, askVars
<1> HIDE DEF f
<1>7. \A h \in Thresholds : /\ Sets(t, h) <=> Top(t).s = thr[h].sid
                            /\ OwnSensor(h) /\ Sets(t, h) => Top(t).val = Tripped(tstate[h])
  BY <1>1 DEF Sets, At, ChangeInv, SensorFollows
<1>8. ~WillNotify(Top(t)) /\ \A h \in Thresholds : ~WillEvaluate(Top(t), h)
  BY <1>1 DEF WillNotify, WillEvaluate
<1> QED
  BY <1>1, <1>3, <1>4, <1>5, <1>7, <1>8, MoveStep

\* checkDepend() writes back the real value, the one its threshold has set.
LEMMA ReadRealFollowed ==
    ASSUME StoreTypeOK, NEW skips \in BOOLEAN, ChangeInv(skips),
           NEW t \in Writers, Alone(t), ReadReal(t)
    PROVE  ChangeInv(skips)'
<1> DEFINE f == [Top(t) EXCEPT !.val = real_value[Top(t).s], !.pc = "prev"]
<1>1. stk[t] # <<>> /\ Top(t).pc = "real"
  BY DEF ReadReal, At
<1>2. Top(t) \in Frame
  BY <1>1, TopKnown
<1>3. f \in Frame /\ f.pc = "prev" /\ f.s = Top(t).s /\ f.val = real_value[f.s]
  BY <1>2 DEF Frame, FramePC, StoreTypeOK
<1>4. stk' = [stk EXCEPT ![t] = SetTop(stk[t], f)]
  BY DEF ReadReal
<1>5. UNCHANGED <<value, real_value, tstate, clst, told, closed>>
  BY DEF ReadReal, sensorVars, askVars
<1> HIDE DEF f
<1>7. \A h \in Thresholds : ~Sets(t, h)
  BY <1>1 DEF Sets, At
<1>8. \A h \in Thresholds : OwnSensor(h) => real_value[thr[h].sid] = Tripped(tstate[h])
  BY <1>7, OnlyWriter DEF ChangeInv, SensorFollows, NoCalls
<1>9. ~WillNotify(Top(t)) /\ \A h \in Thresholds : ~WillEvaluate(Top(t), h)
  BY <1>1 DEF WillNotify, WillEvaluate
<1> QED
  BY <1>1, <1>3, <1>4, <1>5, <1>7, <1>8, <1>9, MoveStep

LEMMA EmitFollowed ==
    ASSUME StoreTypeOK, NEW skips \in BOOLEAN, ChangeInv(skips),
           NEW t \in Writers, Alone(t), Emit(t)
    PROVE  ChangeInv(skips)'
<1> DEFINE f == [Top(t) EXCEPT !.todo = Dependents(Top(t).s), !.pc = "depend"]
<1>1. stk[t] # <<>> /\ Top(t).pc = "emit"
  BY DEF Emit, At
<1>2. Top(t) \in Frame
  BY <1>1, TopKnown
<1>3. /\ f \in Frame /\ f.pc = "depend" /\ f.s = Top(t).s
      /\ f.prev = Top(t).prev /\ f.cur = Top(t).cur
  BY <1>2 DEF Frame, FramePC, Dependents
<1>4. stk' = [stk EXCEPT ![t] = SetTop(stk[t], f)]
  BY DEF Emit
<1>5. UNCHANGED <<value, real_value, tstate, clst, told, closed>>
  BY DEF Emit, sensorVars, askVars
<1> HIDE DEF f
<1>7. \A h \in Thresholds : ~Sets(t, h)
  BY <1>1 DEF Sets, At
<1>8. /\ WillNotify(Top(t)) => WillNotify(f)
      /\ \A h \in Thresholds : WillEvaluate(Top(t), h) => WillEvaluate(f, h)
  BY <1>1, <1>3 DEF WillNotify, WillEvaluate
<1> QED
  BY <1>1, <1>3, <1>4, <1>5, <1>7, <1>8, MoveStep

LEMMA EmitDoneFollowed ==
    ASSUME StoreTypeOK, NEW skips \in BOOLEAN, ChangeInv(skips),
           NEW t \in Writers, Alone(t), EmitDone(t)
    PROVE  ChangeInv(skips)'
<1> DEFINE f == [Top(t) EXCEPT !.pc = "send"]
<1>1. stk[t] # <<>> /\ Top(t).pc = "depend"
  BY DEF EmitDone, At
<1>2. Top(t) \in Frame
  BY <1>1, TopKnown
<1>3. /\ f \in Frame /\ f.pc = "send" /\ f.s = Top(t).s
      /\ f.prev = Top(t).prev /\ f.cur = Top(t).cur
  BY <1>2 DEF Frame, FramePC
<1>4. stk' = [stk EXCEPT ![t] = SetTop(stk[t], f)]
  BY DEF EmitDone
<1>5. UNCHANGED <<value, real_value, tstate, clst, told, closed>>
  BY DEF EmitDone, sensorVars, askVars
<1> HIDE DEF f
<1>7. \A h \in Thresholds : ~Sets(t, h)
  BY <1>1 DEF Sets, At
<1>8. /\ WillNotify(Top(t)) => WillNotify(f)
      /\ \A h \in Thresholds : WillEvaluate(Top(t), h) => WillEvaluate(f, h)
  BY <1>1, <1>3 DEF WillNotify, WillEvaluate
<1> QED
  BY <1>1, <1>3, <1>4, <1>5, <1>7, <1>8, MoveStep

LEMMA CheckDependFollowed ==
    ASSUME StoreTypeOK, NEW skips \in BOOLEAN, ChangeInv(skips),
           NEW t \in Writers, Alone(t), NEW x \in Sensors,
           CheckDepend(t, x)
    PROVE  ChangeInv(skips)'
<1> DEFINE f == [Top(t) EXCEPT !.todo = @ \ {x}]
           g == NewFrame(x, "real", 0, "depend")
           block == value[Top(t).s] # d_value[x]
<1>1. stk[t] # <<>> /\ Top(t).pc = "depend"
  BY DEF CheckDepend, At
<1>2. Top(t) \in Frame
  BY <1>1, TopKnown
<1>3. /\ f \in Frame /\ f.pc = "depend" /\ f.s = Top(t).s
      /\ f.prev = Top(t).prev /\ f.cur = Top(t).cur
  BY <1>1, <1>2 DEF Frame, FramePC
<1>4. g \in Frame /\ g.pc = "real"
  BY SensorsAssumption DEF Frame, NewFrame, FramePC, Origins
<1>5. stk' = [stk EXCEPT ![t] = IF block # blocked[x]
                                 THEN Push(SetTop(stk[t], f), g)
                                 ELSE SetTop(stk[t], f)]
  BY DEF CheckDepend
<1>6. UNCHANGED <<value, real_value, tstate, clst, told, closed>>
  BY DEF CheckDepend, sensorVars, askVars
<1> HIDE DEF f, g, block
<1>7. \A h \in Thresholds : ~Sets(t, h)
  BY <1>1 DEF Sets, At
<1>8. /\ WillNotify(Top(t)) => WillNotify(f)
      /\ \A h \in Thresholds : WillEvaluate(Top(t), h) => WillEvaluate(f, h)
  BY <1>1, <1>3 DEF WillNotify, WillEvaluate
<1>9. CASE block # blocked[x]
  <2>1. stk' = [stk EXCEPT ![t] = Push(SetTop(stk[t], f), g)]
    BY <1>5, <1>9
  <2> QED
    BY <1>1, <1>3, <1>4, <1>6, <1>7, <1>8, <2>1, CallStep
<1>10. CASE ~(block # blocked[x])
  <2>1. stk' = [stk EXCEPT ![t] = SetTop(stk[t], f)]
    BY <1>5, <1>10
  <2> QED
    BY <1>1, <1>3, <1>6, <1>7, <1>8, <2>1, MoveStep
<1> QED
  BY <1>9, <1>10

LEMMA ReturnUnchangedFollowed ==
    ASSUME StoreTypeOK, NEW skips \in BOOLEAN, ChangeInv(skips),
           NEW t \in Writers, Alone(t), ReturnUnchanged(t)
    PROVE  ChangeInv(skips)'
<1>1. stk[t] # <<>> /\ Top(t).pc = "send" /\ Top(t).prev = Top(t).cur
  BY DEF ReturnUnchanged, At
<1>2. Returns(t) /\ UNCHANGED <<value, real_value, tstate, clst, told, closed>>
  BY <1>1, PopReturns DEF ReturnUnchanged, sensorVars, askVars
<1>3. ~WillNotify(Top(t)) /\ \A h \in Thresholds : ~WillEvaluate(Top(t), h)
  BY <1>1 DEF WillNotify, WillEvaluate
<1> QED
  BY <1>1, <1>2, <1>3, ReturnStep

LEMMA ThresholdsDoneFollowed ==
    ASSUME StoreTypeOK, NEW skips \in BOOLEAN, ChangeInv(skips),
           NEW t \in Writers, Alone(t), ThresholdsDone(t)
    PROVE  ChangeInv(skips)'
<1>1. stk[t] # <<>> /\ Top(t).pc = "threshold" /\ Top(t).todo = {}
  BY DEF ThresholdsDone, At
<1>2. Returns(t) /\ UNCHANGED <<value, real_value, tstate, clst, told, closed>>
  BY <1>1, PopReturns DEF ThresholdsDone, sensorVars, askVars
<1>3. ~WillNotify(Top(t)) /\ \A h \in Thresholds : ~WillEvaluate(Top(t), h)
  BY <1>1 DEF WillNotify, WillEvaluate
<1> QED
  BY <1>1, <1>2, <1>3, ReturnStep

LEMMA LockThresholdsFollowed ==
    ASSUME StoreTypeOK, NEW skips \in BOOLEAN, ChangeInv(skips),
           NEW t \in Writers, Alone(t), LockThresholds(t)
    PROVE  ChangeInv(skips)'
<1> DEFINE f == [Top(t) EXCEPT !.todo = ThresholdsOf(Top(t).s), !.pc = "threshold"]
<1>1. stk[t] # <<>> /\ Top(t).pc = "limits"
  BY DEF LockThresholds, At
<1>2. Top(t) \in Frame
  BY <1>1, TopKnown
<1>3. /\ f \in Frame /\ f.pc = "threshold" /\ f.s = Top(t).s
      /\ f.todo = ThresholdsOf(f.s)
  BY <1>2 DEF Frame, FramePC, ThresholdsOf
<1>4. UNCHANGED <<value, real_value, tstate, clst, told, closed>>
  BY DEF LockThresholds, sensorVars, askVars
<1>5. ~WillNotify(Top(t))
  BY <1>1 DEF WillNotify
<1>6. \A h \in Thresholds : WillEvaluate(Top(t), h) => h \in ThresholdsOf(Top(t).s)
  BY DEF WillEvaluate, ThresholdsOf
<1>7. CASE ThresholdsOf(Top(t).s) = {}
  <2>1. stk' = [stk EXCEPT ![t] = Pop(stk[t])]
    BY <1>7 DEF LockThresholds, StoreTypeOK
  <2>2. Returns(t)
    BY <1>1, <2>1, PopReturns
  <2> QED
    BY <1>1, <1>4, <1>5, <1>6, <1>7, <2>2, ReturnStep
<1>8. CASE ThresholdsOf(Top(t).s) # {}
  <2>1. stk' = [stk EXCEPT ![t] = SetTop(stk[t], f)]
    BY <1>8 DEF LockThresholds, StoreTypeOK
  <2> HIDE DEF f
  <2>3. \A h \in Thresholds : ~Sets(t, h)
    BY <1>1 DEF Sets, At
  <2>4. \A h \in Thresholds : WillEvaluate(Top(t), h) => WillEvaluate(f, h)
    BY <1>3, <1>6 DEF WillEvaluate
  <2> QED
    BY <1>1, <1>3, <1>4, <1>5, <2>1, <2>3, <2>4, MoveStep
<1> QED
  BY <1>7, <1>8

\* What localSetValue() writes: the frame f that goes on is going to notify, or the
\* value is the one that was there before.
LEMMA WrittenStep ==
    ASSUME StoreTypeOK, NEW skips \in BOOLEAN, ChangeInv(skips),
           NEW t \in Writers, Alone(t), At(t, "write"),
           NEW f \in Frame, stk' = [stk EXCEPT ![t] = SetTop(stk[t], f)],
           f.s = Top(t).s, f.pc \in {"emit", "send"},
           \A x \in Sensors : x # f.s => /\ value'[x] = value[x]
                                         /\ real_value'[x] = real_value[x],
           real_value'[f.s] = Top(t).val,
           value'[f.s] = value[f.s] \/ WillNotify(f),
           UNCHANGED <<tstate, clst, told, closed>>
    PROVE  ChangeInv(skips)'
<1>1. \A u \in Writers : u = t \/ NoCalls(u)
  BY OnlyWriter
<1>2. stk[t] # <<>> /\ Top(t).pc = "write"
  BY DEF At
<1>3. TopBecomes(t, Callers(t), f)
  BY <1>2, MoveBecomes
<1>4. /\ Frames(t) = Callers(t) \cup {Top(t)}
      /\ \A k \in Callers(t) : k.pc \in {"depend", "threshold"}
  BY <1>2, TopKnown
<1>5. (CallersWait /\ TodoIsOwn /\ PrevIsCurrent)'
  BY <1>3, <1>4, StackKept
<1>6. Frames(t)' = Callers(t) \cup {f}
  BY <1>3 DEF TopBecomes
<1>7. ~WillNotify(Top(t)) /\ \A h \in Thresholds : ~WillEvaluate(Top(t), h)
  BY <1>2 DEF WillNotify, WillEvaluate
<1>8. ChangeIsSent(skips)'
  <2> SUFFICES ASSUME NEW x \in Sensors, ~skips,
                      \A k \in Frames(t)' : ~(k.s = x /\ WillNotify(k)),
                      NEW c \in Listed(x)
               PROVE  told[x][c] \in {NotTold, Missed, value'[x]}
    BY <1>1 DEF ChangeIsSent, Listed
  <2>1. \A k \in Frames(t) : ~(k.s = x /\ WillNotify(k))
    BY <1>4, <1>6, <1>7
  <2>2. told[x][c] \in {NotTold, Missed, value[x]}
    BY <1>1, <2>1 DEF ChangeInv, ChangeIsSent, NoCalls
  <2>3. value'[x] = value[x]
    BY <1>6
  <2> QED
    BY <2>2, <2>3
<1>9. StateFollows'
  <2> SUFFICES ASSUME NEW h \in Thresholds, \A k \in Frames(t)' : ~WillEvaluate(k, h)
               PROVE  tstate[h] = NextState(h, tstate[h], value'[thr[h].ai])
    BY <1>1 DEF StateFollows
  <2>1. \A k \in Frames(t) : ~WillEvaluate(k, h)
    BY <1>4, <1>6, <1>7
  <2>2. tstate[h] = NextState(h, tstate[h], value[thr[h].ai])
    BY <1>1, <2>1 DEF ChangeInv, StateFollows, NoCalls
  <2>3. thr[h].ai = f.s => ~WillNotify(f)
    BY <1>6 DEF WillEvaluate
  <2>4. thr[h].ai \in Sensors
    BY ConfigAssumption
  <2>5. value'[thr[h].ai] = value[thr[h].ai]
    BY <2>3, <2>4
  <2> QED
    BY <2>2, <2>5
<1>10. SensorFollows'
  <2>1. \A h \in Thresholds : ~Sets(t, h)'
    BY <1>3 DEF Sets, At, TopBecomes
  <2>2. ASSUME NEW h \in Thresholds, OwnSensor(h)
        PROVE  real_value'[thr[h].sid] = Tripped(tstate[h])
    <3>1. thr[h].sid \in Sensors
      BY ConfigAssumption
    <3>2. CASE thr[h].sid = f.s
      BY <1>2, <2>2, <3>2 DEF Sets, At, ChangeInv, SensorFollows
    <3>3. CASE thr[h].sid # f.s
      <4>1. ~Sets(t, h)
        BY <3>3 DEF Sets
      <4> QED
        BY <1>1, <2>2, <3>1, <3>3, <4>1 DEF ChangeInv, SensorFollows, NoCalls
    <3> QED
      BY <3>2, <3>3
  <2> QED
    BY <1>1, <2>1, <2>2 DEF SensorFollows, NoCalls
<1> QED
  BY <1>5, <1>8, <1>9, <1>10 DEF ChangeInv

LEMMA WriteFollowed ==
    ASSUME StoreTypeOK, NEW skips \in BOOLEAN, ChangeInv(skips),
           NEW t \in Writers, Alone(t), Write(t)
    PROVE  ChangeInv(skips)'
<1> DEFINE s == Top(t).s
           v == Top(t).val
           new == Shown(s, frozen[s], frozen_value[s], blocked[s], v)
           f == [Top(t) EXCEPT !.val = new, !.cur = new, !.pc = "emit"]
           g == [Top(t) EXCEPT !.cur = v, !.pc = "send"]
<1>1. At(t, "write") /\ stk[t] # <<>>
  BY DEF Write, At
<1>2. Top(t) \in Frame /\ s \in Sensors /\ v \in Values
  BY <1>1, TopKnown DEF Frame
<1>3. Top(t).prev = value[s]
  BY <1>1 DEF ChangeInv, PrevIsCurrent
<1>4. new \in Values
  BY <1>2, ConfigAssumption DEF Shown, StoreTypeOK
<1>5. UNCHANGED <<tstate, clst, told, closed>>
  BY DEF Write, askVars
<1>6. CASE Changes(s, v)
  <2>1. /\ real_value' = [real_value EXCEPT ![s] = v]
        /\ value' = [value EXCEPT ![s] = new]
        /\ stk' = [stk EXCEPT ![t] = SetTop(stk[t], f)]
    BY <1>6 DEF Write
  <2> HIDE DEF new
  <2>2. /\ f \in Frame /\ f.s = s /\ f.pc = "emit"
        /\ f.prev = Top(t).prev /\ f.cur = new
    BY <1>2, <1>4 DEF Frame, FramePC
  <2> HIDE DEF f
  <2>3. /\ \A x \in Sensors : x # s => value'[x] = value[x] /\ real_value'[x] = real_value[x]
        /\ real_value'[s] = v /\ value'[s] = new
    BY <1>2, <2>1 DEF StoreTypeOK
  <2>4. value'[s] = value[s] \/ WillNotify(f)
    BY <1>3, <2>2, <2>3 DEF WillNotify
  <2> HIDE DEF s, v
  <2> QED
    BY <1>1, <1>5, <2>1, <2>2, <2>3, <2>4, WrittenStep DEF s, v
<1>7. CASE ~Changes(s, v)
  <2>1. /\ UNCHANGED <<real_value, value>>
        /\ stk' = [stk EXCEPT ![t] = SetTop(stk[t], g)]
    BY <1>7 DEF Write
  <2>2. g \in Frame /\ g.s = s /\ g.pc = "send"
    BY <1>2 DEF Frame, FramePC
  <2>3. real_value[s] = v
    BY <1>7 DEF Changes
  <2> HIDE DEF g
  <2> QED
    BY <1>1, <1>5, <2>1, <2>2, <2>3, WrittenStep
<1> QED
  BY <1>6, <1>7

\* The notification: every listed consumer has the value now, or nothing.
LEMMA SendFollowed ==
    ASSUME StoreTypeOK, OrdersInv, NEW skips \in BOOLEAN, ChangeInv(skips),
           NEW t \in Writers, Alone(t), Send(t), skips \/ NoneBehindClosed(Top(t).s)
    PROVE  ChangeInv(skips)'
<1> DEFINE s == Top(t).s
           f == [Top(t) EXCEPT !.prev = Top(t).cur, !.pc = "limits"]
<1>1. stk[t] # <<>> /\ Top(t).pc = "send"
  BY DEF Send, At
<1>2. /\ Top(t) \in Frame /\ s \in Sensors /\ value[s] \in Values
      /\ Frames(t) = Callers(t) \cup {Top(t)}
      /\ \A k \in Callers(t) : k.pc \in {"depend", "threshold"}
  BY <1>1, TopKnown DEF Frame, StoreTypeOK
<1>3. f \in Frame /\ f.s = s /\ f.pc = "limits"
  BY <1>2 DEF Frame, FramePC
<1>4. stk' = [stk EXCEPT ![t] = SetTop(stk[t], f)]
  BY DEF Send
<1>5. UNCHANGED <<value, real_value, tstate, closed>>
  BY DEF Send, sensorVars
<1>7. /\ \A x \in Sensors : Listed(x)' \subseteq Listed(x)
      /\ \A x \in Sensors : \A c \in Listeners : x # s => told'[x][c] = told[x][c]
      /\ NoneBehindClosed(s) => \A c \in Listed(s) : told'[s][c] \in {NotTold, Missed, value[s]}
  BY SendKeeps
<1>8. \A x \in Sensors : Listed(x) \subseteq Listeners
  BY DEF Listed, OrdersInv, OrdersTypeOK
<1> HIDE DEF f
<1>10. \A u \in Writers : u = t \/ NoCalls(u)
  BY OnlyWriter
<1>11. TopBecomes(t, Callers(t), f)
  BY <1>1, <1>3, <1>4, MoveBecomes
<1>12. Frames(t)' = Callers(t) \cup {f}
  BY <1>11 DEF TopBecomes
<1>13. (CallersWait /\ TodoIsOwn /\ PrevIsCurrent)'
  BY <1>2, <1>3, <1>11, StackKept
<1>14. ChangeIsSent(skips)'
  <2> SUFFICES ASSUME NEW x \in Sensors, ~skips,
                      \A k \in Frames(t)' : ~(k.s = x /\ WillNotify(k)),
                      NEW c \in Listed(x)'
               PROVE  told'[x][c] \in {NotTold, Missed, value[x]}
    BY <1>5, <1>10 DEF ChangeIsSent
  <2>1. c \in Listed(x) /\ c \in Listeners
    BY <1>7, <1>8
  <2>2. CASE x = s
    BY <1>7, <2>1, <2>2
  <2>3. CASE x # s
    <3>1. \A k \in Frames(t) : ~(k.s = x /\ WillNotify(k))
      BY <1>2, <1>12, <2>3
    <3>2. told[x][c] \in {NotTold, Missed, value[x]}
      BY <1>10, <2>1, <3>1 DEF ChangeInv, ChangeIsSent, NoCalls
    <3> QED
      BY <1>7, <2>1, <2>3, <3>2
  <2> QED
    BY <2>2, <2>3
<1>15. StateFollows'
  <2> SUFFICES ASSUME NEW h \in Thresholds, NEW k \in Frames(t), WillEvaluate(k, h)
               PROVE  \E j \in Frames(t)' : WillEvaluate(j, h)
    BY <1>5, <1>10 DEF ChangeInv, StateFollows, NoCalls
  <2>1. WillEvaluate(Top(t), h) => WillEvaluate(f, h)
    BY <1>3 DEF WillEvaluate
  <2> QED
    BY <1>2, <1>12, <2>1
<1>16. SensorFollows'
  <2>1. \A h \in Thresholds : ~Sets(t, h)' /\ ~Sets(t, h)
    BY <1>1, <1>3, <1>11 DEF Sets, At, TopBecomes
  <2> QED
    BY <1>5, <1>10, <2>1 DEF ChangeInv, SensorFollows, NoCalls
<1> QED
  BY <1>13, <1>14, <1>15, <1>16 DEF ChangeInv

\* Evaluating a threshold twice at one value changes nothing the second time.
LEMMA NextStateTwice ==
    \A h, st, v : NextState(h, NextState(h, st, v), v) = NextState(h, st, v)
  BY DEF NextState

\* The threshold has the state of the present value, and the call above the walk
\* over the thresholds is about to write it into its sensor.
LEMMA CheckThresholdFollowed ==
    ASSUME StoreTypeOK, NEW skips \in BOOLEAN, ChangeInv(skips),
           NEW t \in Writers, Alone(t),
           NEW h \in Thresholds, CheckThreshold(t, h)
    PROVE  ChangeInv(skips)'
<1> DEFINE s == Top(t).s
           state == NextState(h, tstate[h], value[s])
           f == [Top(t) EXCEPT !.todo = @ \ {h}]
           g == NewFrame(thr[h].sid, "prev", Tripped(state), "threshold")
<1>1. stk[t] # <<>> /\ Top(t).pc = "threshold" /\ h \in Top(t).todo
  BY DEF CheckThreshold, At
<1>2. /\ Top(t) \in Frame /\ Top(t) \in Frames(t)
      /\ Frames(t) = Callers(t) \cup {Top(t)}
      /\ \A k \in Callers(t) : k.pc \in {"depend", "threshold"}
  BY <1>1, TopKnown
<1>3. Top(t).todo \subseteq ThresholdsOf(s) /\ thr[h].ai = s
  BY <1>1, <1>2 DEF ChangeInv, TodoIsOwn, ThresholdsOf
<1>4. f \in Frame /\ f.pc = "threshold" /\ f.s = s /\ f.todo = Top(t).todo \ {h}
  BY <1>1, <1>2 DEF Frame
<1>5. g \in Frame /\ g.pc = "prev" /\ g.s = thr[h].sid /\ g.val = Tripped(state)
  BY SensorsAssumption, ConfigAssumption DEF Frame, NewFrame, FramePC, Origins, Tripped
<1>6. /\ tstate' = [tstate EXCEPT ![h] = state]
      /\ stk' = [stk EXCEPT ![t] = IF state # tstate[h]
                                   THEN Push(SetTop(stk[t], f), g)
                                   ELSE SetTop(stk[t], f)]
      /\ UNCHANGED <<value, real_value, clst, told, closed>>
  BY DEF CheckThreshold, sensorVars, askVars
<1>7. state = NextState(h, state, value[s])
  BY NextStateTwice
<1>8. tstate'[h] = state /\ \A x \in Thresholds : x # h => tstate'[x] = tstate[x]
  BY <1>6 DEF StoreTypeOK
<1> HIDE DEF f, g, state, s
<1>9. \A u \in Writers : u = t \/ NoCalls(u)
  BY OnlyWriter
<1>10. \A x \in Thresholds : OwnSensor(x) => real_value[thr[x].sid] = Tripped(tstate[x])
  <2>1. \A x \in Thresholds : ~Sets(t, x)
    BY <1>1 DEF Sets, At
  <2> QED
    BY <1>9, <2>1 DEF ChangeInv, SensorFollows, NoCalls
<1>11. \E C, k : /\ TopBecomes(t, C, k) /\ Callers(t) \subseteq C
                 /\ f \in C \cup {k} /\ C \cup {k} \subseteq Callers(t) \cup {f, g}
                 /\ \A j \in C : j.pc \in {"depend", "threshold"}
                 /\ \/ k = g /\ f \in C
                    \/ k = f /\ state = tstate[h]
  <2>1. CASE state # tstate[h]
    <3>1. TopBecomes(t, Callers(t) \cup {f}, g)
      BY <1>1, <1>4, <1>5, <1>6, <2>1, NestedBecomes
    <3>2. \A j \in Callers(t) \cup {f} : j.pc \in {"depend", "threshold"}
      BY <1>2, <1>4
    <3> QED
      BY <3>1, <3>2
  <2>2. CASE state = tstate[h]
    <3>1. TopBecomes(t, Callers(t), f)
      BY <1>1, <1>4, <1>6, <2>2, MoveBecomes
    <3> QED
      BY <1>2, <2>2, <3>1
  <2> QED
    BY <2>1, <2>2
<1>12. PICK C, k : /\ TopBecomes(t, C, k) /\ Callers(t) \subseteq C
                   /\ f \in C \cup {k} /\ C \cup {k} \subseteq Callers(t) \cup {f, g}
                   /\ \A j \in C : j.pc \in {"depend", "threshold"}
                   /\ \/ k = g /\ f \in C
                      \/ k = f /\ state = tstate[h]
  BY <1>11
<1>13. Frames(t)' = C \cup {k} /\ Callers(t)' = C /\ Top(t)' = k /\ stk'[t] # <<>>
  BY <1>12 DEF TopBecomes
<1>14. (CallersWait /\ TodoIsOwn /\ PrevIsCurrent)'
  <2>1. k.pc # "write"
    BY <1>4, <1>5, <1>12
  <2>2. \A j \in C \cup {k} :
           j \in Callers(t) \/ (j.pc = "threshold" => j.todo \subseteq ThresholdsOf(j.s))
    BY <1>3, <1>4, <1>5, <1>12
  <2> QED
    BY <1>12, <2>1, <2>2, StackKept
<1>15. ChangeIsSent(skips)'
  <2> SUFFICES ASSUME NEW x \in Sensors, NEW j \in Frames(t), j.s = x, WillNotify(j)
               PROVE  \E i \in Frames(t)' : i.s = x /\ WillNotify(i)
    BY <1>6, <1>9 DEF ChangeInv, ChangeIsSent, Listed, NoCalls
  <2>1. ~WillNotify(Top(t))
    BY <1>1 DEF WillNotify
  <2> QED
    BY <1>2, <1>12, <1>13, <2>1
<1>16. StateFollows'
  <2> SUFFICES ASSUME NEW x \in Thresholds
               PROVE  \/ \E j \in Frames(t)' : WillEvaluate(j, x)
                      \/ tstate'[x] = NextState(x, tstate'[x], value[thr[x].ai])
    BY <1>6, <1>9 DEF StateFollows
  <2>1. CASE x = h
    BY <1>3, <1>7, <1>8, <2>1
  <2>2. CASE x # h
    <3>1. WillEvaluate(Top(t), x) => WillEvaluate(f, x)
      BY <1>1, <1>4, <2>2 DEF WillEvaluate, WillNotify, s
    <3>2. ASSUME NEW j \in Frames(t), WillEvaluate(j, x)
          PROVE  \E i \in Frames(t)' : WillEvaluate(i, x)
      BY <1>2, <1>12, <1>13, <3>1, <3>2
    <3> QED
      BY <1>8, <1>9, <2>2, <3>2 DEF ChangeInv, StateFollows, NoCalls
  <2> QED
    BY <2>1, <2>2
<1>17. SensorFollows'
  <2> SUFFICES ASSUME NEW x \in Thresholds, OwnSensor(x)
               PROVE  /\ Sets(t, x)' => Top(t)'.val = Tripped(tstate'[x])
                      /\ \/ real_value[thr[x].sid] = Tripped(tstate'[x])
                         \/ Sets(t, x)' /\ \E j \in Callers(t)' :
                                             j.s = thr[x].ai /\ j.pc = "threshold"
    BY <1>6, <1>9 DEF SensorFollows, NoCalls
  <2>1. Sets(t, x)' <=> k.s = thr[x].sid /\ k.pc \in {"prev", "write"}
    BY <1>13 DEF Sets, At
  <2>2. CASE k = g /\ f \in C
    <3>1. CASE x = h
      BY <1>3, <1>4, <1>5, <1>8, <1>13, <2>1, <2>2, <3>1
    <3>2. CASE x # h
      <4>1. ~Sets(t, x)'
        BY <1>5, <2>1, <2>2, <3>2 DEF OwnSensor
      <4> QED
        BY <1>8, <1>10, <3>2, <4>1
    <3> QED
      BY <3>1, <3>2
  <2>3. CASE k = f /\ state = tstate[h]
    <3>1. ~Sets(t, x)'
      BY <1>4, <2>1, <2>3
    <3>2. tstate'[x] = tstate[x]
      BY <1>8, <2>3
    <3> QED
      BY <1>10, <3>1, <3>2
  <2> QED
    BY <1>12, <2>2, <2>3
<1> QED
  BY <1>14, <1>15, <1>16, <1>17 DEF ChangeInv
-----------------------------------------------------------------------------
(* Orders and first messages, the initial state, and the theorems *)

\* A step that leaves sensors and calls alone and tells nobody an old value.
LEMMA OrdersStep ==
    ASSUME NEW skips \in BOOLEAN, ChangeInv(skips),
           UNCHANGED <<value, real_value, tstate, stk>>,
           \A x \in Sensors : \A y \in Listed(x)' :
              \/ told'[x][y] \in {NotTold, Missed, value[x]}
              \/ y \in Listed(x) /\ told'[x][y] = told[x][y]
    PROVE  ChangeInv(skips)'
<1>1. (CallersWait /\ TodoIsOwn /\ PrevIsCurrent /\ StateFollows /\ SensorFollows)'
  BY DEF ChangeInv, CallersWait, TodoIsOwn, PrevIsCurrent, StateFollows, SensorFollows,
         Callers, Frames, Sets, At, Top
<1>2. ChangeIsSent(skips)'
  BY DEF ChangeInv, ChangeIsSent, Frames
<1> QED
  BY <1>1, <1>2 DEF ChangeInv

LEMMA AskerFollowed ==
    ASSUME StoreTypeOK, OrdersInv, NEW skips \in BOOLEAN, ChangeInv(skips), NEW t \in Askers,
           AskerCall(t) \/ AskerStep(t)
    PROVE  ChangeInv(skips)'
<1>0. \A x \in Sensors : Listed(x) \subseteq Listeners
  BY DEF Listed, OrdersInv, OrdersTypeOK
<1>1. UNCHANGED <<value, real_value, tstate, stk, closed>>
  BY DEF AskerCall, AskerStep, DontNotify, AskSensor, CheckFirst, SendFirst, sensorVars,
         askVars
<1>2. ASSUME NEW s \in Sensors, NEW c \in Listeners, DontNotify(t, s, c)
      PROVE  ChangeInv(skips)'
  BY <1>0, <1>1, <1>2, DontNotifyKeeps, OrdersStep
<1>3. ASSUME NEW s \in Sensors, NEW c \in Listeners, NEW cmd \in AskCommands,
             AskSensor(t, s, c, cmd)
      PROVE  ChangeInv(skips)'
  <2>2. /\ \A x \in Sensors : Listed(x)' \subseteq Listed(x) \cup {y \in {c} : x = s}
        /\ \A x \in Sensors : \A y \in Listeners :
              told'[x][y] = told[x][y] \/ told'[x][y] = NotTold
        /\ c \notin Listed(s) => told'[s][c] = NotTold
    BY <1>3, AskSensorKeeps
  <2> QED
    BY <1>0, <1>1, <2>2, OrdersStep
<1>4. CASE CheckFirst(t)
  <2>1. UNCHANGED <<clst, told>>
    BY <1>4 DEF CheckFirst, askVars
  <2> QED
    BY <1>1, <2>1, OrdersStep DEF Listed
<1>5. CASE SendFirst(t)
  BY <1>0, <1>1, <1>5, SendFirstKeeps, OrdersStep
<1>6. \A o \in Orders : o[1] \in Sensors /\ o[2] \in Listeners
  BY SensorsAssumption DEF Listeners
<1> QED
  BY <1>2, <1>3, <1>4, <1>5, <1>6 DEF AskerCall, AskerStep

LEMMA InitChangeInv ==
    ASSUME Init, NEW skips \in BOOLEAN PROVE ChangeInv(skips)
<1>1. \A t \in Writers : /\ stk[t] = <<>> /\ Frames(t) = {} /\ Callers(t) = {}
                         /\ \A pc : ~At(t, pc)
  <2> SUFFICES ASSUME NEW t \in Writers
               PROVE  /\ stk[t] = <<>> /\ Frames(t) = {} /\ Callers(t) = {}
                      /\ \A pc : ~At(t, pc)
    OBVIOUS
  <2>1. stk[t] = <<>> /\ Len(stk[t]) = 0
    BY DEF Init
  <2> QED
    BY <2>1 DEF Frames, FramesOf, Callers, CallersOf, At
<1>2. \A s \in Sensors : Listed(s) = {}
  <2>1. \A s \in Sensors : Len(clst[s]) = 0
    BY DEF Init
  <2> QED
    BY <2>1 DEF Listed
<1>3. StateFollows
  <2>1. \A h \in Thresholds : tstate[h] = NextState(h, "Normal", value[thr[h].ai])
    BY DEF Init
  <2> QED
    BY <2>1, NextStateTwice DEF StateFollows
<1>4. SensorFollows
  <2> SUFFICES ASSUME NEW h \in Thresholds, OwnSensor(h)
               PROVE  real_value[thr[h].sid] = Tripped(tstate[h])
    BY <1>1 DEF SensorFollows, Sets
  <2>1. thr[h].sid \in Sensors
    BY ConfigAssumption
  <2>2. real_value[thr[h].sid] \in {0, 1}
    BY <2>1 DEF Init
  <2>3. real_value[thr[h].sid] = 1 <=>
           \E g \in Thresholds : thr[g].sid = thr[h].sid /\ tstate[g] # "Normal"
    BY <2>1 DEF Init
  <2>4. real_value[thr[h].sid] = 1 <=> tstate[h] # "Normal"
    BY <2>3 DEF OwnSensor
  <2> QED
    BY <2>2, <2>4 DEF Tripped
<1> QED
  BY <1>1, <1>2, <1>3, <1>4 DEF ChangeInv, CallersWait, TodoIsOwn, PrevIsCurrent, ChangeIsSent

LEMMA CallFrame ==
    ASSUME StoreTypeOK, NEW t \in Writers, WriterCall(t)
    PROVE  \E f \in Frame : stk' = [stk EXCEPT ![t] = Push(stk[t], f)]
<1>1. PICK i \in Inputs :
         SetValue(t, i[1], i[2]) \/ \E set \in BOOLEAN : FreezeValue(t, i[1], set, i[2])
  BY DEF WriterCall
<1>2. /\ NewFrame(i[1], "prev", i[2], "set") \in Frame
      /\ NewFrame(i[1], "prev", real_value[i[1]], "freeze") \in Frame
  BY SensorsAssumption DEF Frame, NewFrame, FramePC, Origins, StoreTypeOK
<1> QED
  BY <1>1, <1>2 DEF SetValue, FreezeValue

\* Where calls do not overlap, the writer that takes a step is alone.
LEMMA WriterAlone ==
    ASSUME StoreTypeOK, OneAtATime, OneAtATime', NEW t \in Writers,
           WriterCall(t) \/ WriterStep(t)
    PROVE  Alone(t)
<1>1. \A u \in Writers : u = t \/ stk'[u] = stk[u]
  BY DEF StoreTypeOK, WriterCall, WriterStep, SetValue, FreezeValue, ReadPrev, Write, Emit,
         ReadReal, EmitDone, CheckDepend, ReturnUnchanged, Send, LockThresholds,
         CheckThreshold, ThresholdsDone
<1>2. CASE WriterStep(t)
  <2>1. ~Idle(t)
    BY <1>2 DEF WriterStep, ReadPrev, Write, Emit, ReadReal, EmitDone, CheckDepend,
                ReturnUnchanged, Send, LockThresholds, CheckThreshold, ThresholdsDone,
                At, Idle
  <2> QED
    BY <1>1, <2>1 DEF OneAtATime, Idle, Alone
<1>3. CASE WriterCall(t)
  <2>1. PICK f \in Frame : stk' = [stk EXCEPT ![t] = Push(stk[t], f)]
    BY <1>3, CallFrame
  <2>2. stk[t] \in Seq(Frame) /\ stk'[t] = Push(stk[t], f)
    BY <2>1 DEF StoreTypeOK
  <2>3. ~Idle(t)'
    BY <2>2, PushShape DEF Idle
  <2> QED
    BY <1>1, <2>3 DEF OneAtATime, Idle, Alone
<1> QED
  BY <1>2, <1>3

LEMMA NextChangeInv ==
    ASSUME OneAtATime, OneAtATime', StoreTypeOK, OrdersInv, NEW skips \in BOOLEAN, ChangeInv(skips),
           [Next]_vars, skips \/ [NoneSkipped]_vars
    PROVE  ChangeInv(skips)'
<1>1. CASE UNCHANGED vars
  BY <1>1, OrdersStep DEF vars, sensorVars, askVars, Listed
<1>2. ASSUME NEW t \in Writers, WriterCall(t) PROVE ChangeInv(skips)'
  BY <1>2, WriterAlone, SetValueFollowed, FreezeValueFollowed DEF WriterCall
<1>3. ASSUME NEW t \in Writers, Send(t) PROVE ChangeInv(skips)'
  <2>1. CASE skips \/ NoneSkipped
    BY <1>3, <2>1, WriterAlone, SendFollowed DEF NoneSkipped, WriterStep
  <2> QED
    BY <1>1, <2>1
<1>4. ASSUME NEW t \in Writers, WriterStep(t) PROVE ChangeInv(skips)'
  BY <1>3, <1>4, WriterAlone, ReadPrevFollowed, WriteFollowed, EmitFollowed, ReadRealFollowed,
     EmitDoneFollowed, CheckDependFollowed, ReturnUnchangedFollowed,
     LockThresholdsFollowed, CheckThresholdFollowed, ThresholdsDoneFollowed
     DEF WriterStep
<1>5. ASSUME NEW t \in Askers, AskerCall(t) \/ AskerStep(t) PROVE ChangeInv(skips)'
  BY <1>5, AskerFollowed
<1>6. ASSUME NEW c \in Clients, CloseClient(c) PROVE ChangeInv(skips)'
  BY <1>6, OrdersStep DEF CloseClient, sensorVars, Listed
<1> QED
  BY <1>1, <1>2, <1>4, <1>5, <1>6 DEF Next

\* A stream that is closed stays closed.
LEMMA ClosedStays == ASSUME [Next]_vars PROVE closed \subseteq closed'
<1>1. \A t \in Writers : Send(t) => closed' = closed
  BY DEF Send
<1>2. \A t \in Writers : WriterCall(t) \/ WriterStep(t) => closed' = closed
  BY <1>1, WriterOrders DEF askVars
<1>3. \A t \in Askers : AskerCall(t) \/ AskerStep(t) => closed' = closed
  BY DEF AskerCall, AskerStep, DontNotify, AskSensor, CheckFirst, SendFirst, askVars
<1>4. \A c \in Clients : CloseClient(c) => closed \subseteq closed'
  BY DEF CloseClient
<1> QED
  BY <1>2, <1>3, <1>4 DEF Next, vars, askVars

\* What is listed was told the present value, or a call is on its way to tell it.
LEMMA SentIsCurrent == ChangeInv(FALSE) => NotifiedCurrent
  BY DEF ChangeInv, ChangeIsSent, NotifiedCurrent, WillNotify, InCall

\* If the setValue and freezeValue calls of the threads do not overlap, whatever
\* askSensor calls come between their steps, for any dependencies, thresholds and
\* failed sends: once the calls on a sensor have notified, a listed consumer has
\* its present value, was told nothing, or every try to tell it failed; unless a
\* walk of send() has passed over the entry behind a closed client.
THEOREM NotifiedAlwaysCurrent ==
    Spec /\ []OneAtATime /\ [][NoneSkipped]_vars => []NotifiedCurrent
<1>1. Init => ChangeInv(FALSE)
  BY InitChangeInv
<1>2. /\ OneAtATime /\ OneAtATime' /\ StoreTypeOK /\ OrdersInv /\ ChangeInv(FALSE)
      /\ [Next]_vars /\ [NoneSkipped]_vars
      => ChangeInv(FALSE)'
  BY NextChangeInv
<1> QED
  BY <1>1, <1>2, SentIsCurrent, StoreTypeCorrect, OrdersAlways, PTL DEF Spec

\* If the setValue and freezeValue calls do not overlap: until the first client
\* closes its stream, send() reaches every entry, and every listed consumer has the
\* present value, was told nothing, or every try to tell it failed.
THEOREM NotifiedUntilClosed ==
    Spec /\ []OneAtATime => [](closed = {} => NotifiedCurrent)
<1> DEFINE Inv == closed = {} => ChangeInv(FALSE)
<1>1. Init => Inv
  BY InitChangeInv
<1>2. OneAtATime /\ OneAtATime' /\ StoreTypeOK /\ OrdersInv /\ Inv /\ [Next]_vars => Inv'
  <2> SUFFICES ASSUME OneAtATime, OneAtATime', StoreTypeOK, OrdersInv, Inv, [Next]_vars,
                      closed' = {}
               PROVE  ChangeInv(FALSE)'
    OBVIOUS
  <2>1. closed = {}
    BY ClosedStays
  <2>2. NoneSkipped
    BY <2>1 DEF NoneSkipped, NoneBehindClosed
  <2> QED
    BY <2>1, <2>2, NextChangeInv
<1>3. Inv => (closed = {} => NotifiedCurrent)
  BY SentIsCurrent
<1> HIDE DEF Inv
<1> QED
  BY <1>1, <1>2, <1>3, StoreTypeCorrect, OrdersAlways, PTL DEF Spec

\* If the setValue and freezeValue calls do not overlap and there is one consumer or
\* client only: it is never passed over, whether or not its stream closes, and has
\* the present value, was told nothing, or every try to tell it failed.
THEOREM OnlyListenerNotified ==
    (\A c, d \in Listeners : c = d) => (Spec /\ []OneAtATime => []NotifiedCurrent)
<1> SUFFICES ASSUME \A c, d \in Listeners : c = d
             PROVE  Spec /\ []OneAtATime => []NotifiedCurrent
  OBVIOUS
<1>1. StoreTypeOK /\ OrdersInv /\ [Next]_vars => [NoneSkipped]_vars
  <2> SUFFICES ASSUME StoreTypeOK, OrdersInv, NEW t \in Writers, Send(t)
               PROVE  NoneBehindClosed(Top(t).s)
    BY DEF NoneSkipped
  <2> DEFINE q == clst[Top(t).s]
  <2>1. Top(t).s \in Sensors
    BY TopFrame DEF Send, At, StoreTypeOK, Frame
  <2>2. q \in Seq(Listeners) /\ \A i, j \in 1..Len(q) : q[i] = q[j] => i = j
    BY <2>1 DEF OrdersInv, OrdersTypeOK, ListedHaveAttempts
  <2> HIDE DEF q
  <2>3. \A i, j \in 1..Len(q) : i = j
    BY <2>2
  <2>4. \A i \in 1 .. Len(q) - 1 : i \in 1..Len(q) /\ i + 1 \in 1..Len(q) /\ i # i + 1
    BY <2>2
  <2>5. ~\E i \in 1 .. Len(q) - 1 : TRUE
    BY <2>3, <2>4
  <2> QED
    BY <2>5 DEF NoneBehindClosed, q
<1> QED
  BY <1>1, NotifiedAlwaysCurrent, StoreTypeCorrect, OrdersAlways, PTL DEF Spec

\* If the calls that set values do not overlap and each threshold has a sensor of its
\* own, for chains of thresholds, dependencies and freezing in any order: after
\* checkThreshold() a threshold has the state its analog sensor calls for, and its
\* own sensor shows that state.
THEOREM ThresholdsAlwaysCurrent ==
    OwnSensors => (Spec /\ []OneAtATime => []ThresholdsCurrent)
<1> SUFFICES ASSUME OwnSensors PROVE Spec /\ []OneAtATime => []ThresholdsCurrent
  OBVIOUS
<1>1. Init => ChangeInv(TRUE)
  BY InitChangeInv
<1>2. OneAtATime /\ OneAtATime' /\ StoreTypeOK /\ OrdersInv /\ ChangeInv(TRUE) /\ [Next]_vars
      => ChangeInv(TRUE)'
  BY NextChangeInv
<1>3. ChangeInv(TRUE) => ThresholdsCurrent
  <2> SUFFICES ASSUME ChangeInv(TRUE), NEW h \in Thresholds,
                      ~InCall(thr[h].ai, {"emit", "depend", "send", "limits", "threshold"})
               PROVE  /\ tstate[h] = NextState(h, tstate[h], value[thr[h].ai])
                      /\ real_value[thr[h].sid] = Tripped(tstate[h])
    BY DEF ThresholdsCurrent
  <2>1. \A t \in Writers : \A f \in Frames(t) : ~WillEvaluate(f, h)
    BY DEF WillEvaluate, WillNotify, InCall
  <2>2. \A t \in Writers : \A f \in Callers(t) : ~(f.s = thr[h].ai /\ f.pc = "threshold")
    <3>1. \A t \in Writers : Callers(t) \subseteq Frames(t)
      BY DEF Callers, CallersOf, Frames, FramesOf
    <3> QED
      BY <3>1 DEF InCall
  <2> QED
    BY <2>1, <2>2 DEF ChangeInv, StateFollows, SensorFollows, OwnSensors
<1> QED
  BY <1>1, <1>2, <1>3, StoreTypeCorrect, OrdersAlways, PTL DEF Spec
=============================================================================
