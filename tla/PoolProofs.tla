------------------------------ MODULE PoolProofs ------------------------------
(* Proofs about Pool, for any clients and sizes.                               *)
EXTENDS Pool, SequenceTheorems, FiniteSetTheorems, TLAPS

(***************************************************************************)
(* The strengthenings.                                                     *)
(***************************************************************************)

Injective(s) == \A i, j \in 1..Len(s) : s[i] = s[j] => i = j

\* LentOnce, element by element.
Lent ==
    /\ made + creating <= MaxSize
    /\ \A i \in 1..Len(available) : available[i] \in 1..made
    /\ Injective(available)
    /\ \A c \in Clients : holds[c] \in 0..made
    /\ \A c \in Clients, i \in 1..Len(available) : available[i] # holds[c]
    /\ \A c, d \in Clients : holds[c] = holds[d] /\ holds[c] # 0 => c = d

\* What a client is at agrees with what it has and where it is queued.
Places ==
    /\ \A c \in Clients : pc[c] \in {"opening", "handed", "using"} <=> holds[c] # 0
    /\ \A c \in Clients : pc[c] = "waiting" <=> c \in Elements(waiting)
    /\ Injective(waiting)
    /\ kind = "Pool" => creating = 0

IInv == TypeOK /\ Lent /\ Places /\ WaitsForSomething /\ ClosedWhenIdle

LEMMA InitIInv == Init => IInv
BY PoolAssumption DEF Init, IInv, TypeOK, Lent, Places, WaitsForSomething, ClosedWhenIdle,
   Resources, Injective, Elements

-----------------------------------------------------------------------------
(* What _dispense() of generic-pool does *)

\* What a handler may give to Dispense: the objects that are free and the queue, with
\* the clients in out in neither.
Dispensable(objects, pending, free, queue, out) ==
    /\ objects \in Nat /\ pending \in Nat /\ objects + pending <= MaxSize
    /\ free \in Seq(1..objects) /\ Injective(free)
    /\ queue \in Seq(Clients) /\ Injective(queue)
    /\ out \subseteq Clients
    /\ \A c \in Clients \ out :
          /\ holds[c] \in 0..objects
          /\ \A i \in 1..Len(free) : free[i] # holds[c]
          /\ pc[c] = "waiting" => c \in Elements(queue)
    /\ \A c \in Elements(queue) : c \notin out /\ holds[c] = 0

\* A sequence of one set whose elements are in another.
LEMMA IsInSeq ==
    ASSUME NEW S, NEW T, NEW s \in Seq(S), \A i \in 1..Len(s) : s[i] \in T
    PROVE  s \in Seq(T)
<1>1. /\ SubSeq(s, 1, Len(s)) \in Seq(T)
      /\ SubSeq(s, 1, Len(s)) = s
  BY SubSeqProperties, SubSeqFull
<1> QED
  BY <1>1

\* What is left of a sequence without its first n elements.
LEMMA Rest ==
    ASSUME NEW S, NEW s \in Seq(S), NEW n \in Nat, n <= Len(s)
    PROVE  /\ SubSeq(s, n + 1, Len(s)) \in Seq(S)
           /\ Len(SubSeq(s, n + 1, Len(s))) = Len(s) - n
           /\ \A i \in 1..(Len(s) - n) : SubSeq(s, n + 1, Len(s))[i] = s[n + i]
<1>1. Len(s) \in Nat /\ n + 1 \in Int /\ Len(s) \in Int
  OBVIOUS
<1>2. \A i \in (n + 1)..Len(s) : s[i] \in S
  BY ElementOfSeq
<1>3. /\ SubSeq(s, n + 1, Len(s)) \in Seq(S)
      /\ Len(SubSeq(s, n + 1, Len(s))) = IF n + 1 <= Len(s) THEN Len(s) - (n + 1) + 1 ELSE 0
      /\ \A i \in 1..(Len(s) - (n + 1) + 1) : SubSeq(s, n + 1, Len(s))[i] = s[n + 1 + i - 1]
  BY <1>1, <1>2, SubSeqProperties
<1>4. Len(SubSeq(s, n + 1, Len(s))) = Len(s) - n
  BY <1>1, <1>3
<1>5. ASSUME NEW i \in 1..(Len(s) - n)
      PROVE  SubSeq(s, n + 1, Len(s))[i] = s[n + i]
  <2>1. i \in 1..(Len(s) - (n + 1) + 1) /\ n + 1 + i - 1 = n + i
    BY <1>1
  <2>2. SubSeq(s, n + 1, Len(s))[i] = s[n + 1 + i - 1]
    BY <1>3, <2>1
  <2> QED
    BY <2>1, <2>2
<1> QED
  BY <1>3, <1>4, <1>5

LEMMA DispenseEffect ==
    ASSUME IInv, NEW objects, NEW pending, NEW free, NEW queue, NEW out,
           kind = "BasePool", Dispensable(objects, pending, free, queue, out),
           Dispense(objects, pending, free, queue, out)
    PROVE  TypeOK' /\ Lent' /\ Places' /\ WaitsForSomething'
<1> DEFINE served == Least(Len(free), Len(queue))
<1> DEFINE short == Len(queue) - Least(Len(queue), Len(free) + pending)
<1> DEFINE Turn(c) == {i \in 1..served : queue[i] = c}
<1>1. /\ objects \in Nat /\ pending \in Nat /\ objects + pending <= MaxSize
      /\ free \in Seq(1..objects) /\ Len(free) \in Nat
      /\ queue \in Seq(Clients) /\ Len(queue) \in Nat
      /\ MaxSize \in Nat
  BY PoolAssumption DEF Dispensable
<1>2. served \in Nat /\ served <= Len(free) /\ served <= Len(queue)
      /\ (served = Len(free) \/ served = Len(queue))
  BY <1>1 DEF Least
<1>3. short \in Nat /\ short <= Len(queue) /\ (short >= Len(queue) - Len(free) - pending)
  BY <1>1 DEF Least
<1>4. /\ made' = objects
      /\ creating' = pending + Least(short, MaxSize - (objects + pending))
      /\ available' = SubSeq(free, served + 1, Len(free))
      /\ waiting' = SubSeq(queue, served + 1, Len(queue))
      /\ UNCHANGED <<kind, session, closer, reachable>>
  BY DEF Dispense
<1> HIDE DEF served, short
<1>5. creating' \in Nat /\ made' + creating' <= MaxSize
      /\ (creating' >= pending + short \/ made' + creating' = MaxSize)
  BY <1>1, <1>3, <1>4 DEF Least
<1>6. /\ available' \in Seq(1..objects)
      /\ Len(available') = Len(free) - served
      /\ \A i \in 1..Len(available') : available'[i] = free[served + i]
  BY <1>1, <1>2, <1>4, Rest, ZenonT(30)
<1>7. /\ waiting' \in Seq(Clients)
      /\ Len(waiting') = Len(queue) - served
      /\ \A i \in 1..Len(waiting') : waiting'[i] = queue[served + i]
  BY <1>1, <1>2, <1>4, Rest, ZenonT(30)
<1>8. Injective(free) /\ Injective(queue)
  BY DEF Dispensable
<1>9. Injective(available)' /\ Injective(waiting)'
  <2>1. ASSUME NEW i \in 1..Len(available'), NEW j \in 1..Len(available'),
               available'[i] = available'[j]
        PROVE  i = j
    <3>a. free[served + i] = free[served + j]
      BY <1>6, <2>1
    <3>b. served + i \in 1..Len(free) /\ served + j \in 1..Len(free)
      BY <1>1, <1>2, <1>6
    <3>1. /\ served + i \in 1..Len(free) /\ served + j \in 1..Len(free)
          /\ free[served + i] = free[served + j]
      BY <3>a, <3>b
    <3>2. served + i = served + j
      BY <1>8, <3>1 DEF Injective
    <3> QED
      BY <1>2, <3>2
  <2>2. ASSUME NEW i \in 1..Len(waiting'), NEW j \in 1..Len(waiting'),
               waiting'[i] = waiting'[j]
        PROVE  i = j
    <3>1. /\ served + i \in 1..Len(queue) /\ served + j \in 1..Len(queue)
          /\ queue[served + i] = queue[served + j]
      BY <1>1, <1>2, <1>7, <2>2
    <3>2. served + i = served + j
      BY <1>8, <3>1 DEF Injective
    <3> QED
      BY <1>2, <3>2
  <2> QED
    BY <2>1, <2>2 DEF Injective
<1>10. ASSUME NEW c \in Clients
       PROVE  /\ pc'[c] = IF Turn(c) # {} THEN "using"
                          ELSE IF c \in out THEN "idle"
                          ELSE IF c \in Elements(queue) THEN "waiting"
                          ELSE pc[c]
              /\ holds'[c] = IF Turn(c) # {} THEN free[CHOOSE i \in Turn(c) : TRUE]
                             ELSE IF c \in out THEN 0
                             ELSE holds[c]
  BY DEF Dispense, served
<1>11. ASSUME NEW c \in Clients, Turn(c) # {}
       PROVE  /\ pc'[c] = "using" /\ c \in Elements(queue)
              /\ \E i \in 1..served : queue[i] = c /\ holds'[c] = free[i]
  <2>1. PICK i \in Turn(c) : holds'[c] = free[i]
    BY <1>10, <1>11
  <2>2. i \in 1..served /\ queue[i] = c
    BY <2>1
  <2> QED
    BY <1>1, <1>2, <1>10, <1>11, <2>1, <2>2 DEF Elements
<1>12. ASSUME NEW c \in Clients, Turn(c) = {}, c \in out
       PROVE  pc'[c] = "idle" /\ holds'[c] = 0 /\ c \notin Elements(queue)
  BY <1>10, <1>12 DEF Dispensable
<1>13. ASSUME NEW c \in Clients, Turn(c) = {}, c \notin out, c \in Elements(queue)
       PROVE  /\ pc'[c] = "waiting" /\ holds'[c] = 0
              /\ \E i \in 1..Len(queue) : i > served /\ queue[i] = c
  <2>1. pc'[c] = "waiting" /\ holds'[c] = holds[c]
    BY <1>10, <1>13
  <2>2. holds[c] = 0
    BY <1>13 DEF Dispensable
  <2>3. PICK i \in 1..Len(queue) : queue[i] = c
    BY <1>13 DEF Elements
  <2>4. i \notin 1..served
    BY <1>13, <2>3
  <2> QED
    BY <1>1, <1>2, <2>1, <2>2, <2>3, <2>4
<1>14. ASSUME NEW c \in Clients, Turn(c) = {}, c \notin out, c \notin Elements(queue)
       PROVE  pc'[c] = pc[c] /\ holds'[c] = holds[c]
  BY <1>10, <1>14
<1>15. \A c \in Clients : c \in Elements(waiting') <=> Turn(c) = {} /\ c \in Elements(queue)
  <2> SUFFICES ASSUME NEW c \in Clients
               PROVE  c \in Elements(waiting') <=> Turn(c) = {} /\ c \in Elements(queue)
    OBVIOUS
  <2>1. ASSUME c \in Elements(waiting') PROVE Turn(c) = {} /\ c \in Elements(queue)
    <3>1. PICK i \in 1..Len(waiting') : waiting'[i] = c
      BY <2>1 DEF Elements
    <3>2. queue[served + i] = c /\ served + i \in 1..Len(queue)
      BY <1>1, <1>2, <1>7, <3>1
    <3>3. \A j \in 1..served : queue[j] # c
      BY <1>1, <1>2, <1>8, <3>1, <3>2 DEF Injective
    <3> QED
      BY <3>2, <3>3 DEF Elements
  <2>2. ASSUME Turn(c) = {}, c \in Elements(queue) PROVE c \in Elements(waiting')
    <3>1. PICK i \in 1..Len(queue) : queue[i] = c
      BY <2>2 DEF Elements
    <3>2. i > served
      BY <1>1, <1>2, <2>2, <3>1
    <3>3. i - served \in 1..Len(waiting') /\ waiting'[i - served] = c
      BY <1>1, <1>2, <1>7, <3>1, <3>2
    <3> QED
      BY <3>3 DEF Elements
  <2> QED
    BY <2>1, <2>2
<1> HIDE DEF Turn
<1>16. pc' \in [Clients -> {"idle", "opening", "waiting", "handed", "using"}]
  <2>1. \A c \in Clients : pc'[c] \in {"idle", "opening", "waiting", "handed", "using"}
    BY <1>11, <1>12, <1>13, <1>14 DEF IInv, TypeOK
  <2>2. pc' = [c \in Clients |-> pc'[c]]
    BY DEF Dispense
  <2> QED
    BY <2>1, <2>2
<1>17. \A c \in Clients : holds'[c] \in 0..objects
  <2> SUFFICES ASSUME NEW c \in Clients PROVE holds'[c] \in 0..objects
    OBVIOUS
  <2>1. CASE Turn(c) # {}
    BY <1>1, <1>2, <1>11, <2>1
  <2>2. CASE Turn(c) = {} /\ c \in out
    BY <1>1, <1>12, <2>2
  <2>3. CASE Turn(c) = {} /\ c \notin out
    BY <1>1, <1>13, <1>14, <2>3 DEF Dispensable
  <2> QED
    BY <2>1, <2>2, <2>3
<1>18. TypeOK'
  <2>1. holds' = [c \in Clients |-> holds'[c]]
    BY DEF Dispense
  <2>2. holds' \in [Clients -> 0..MaxSize]
    BY <1>1, <1>17, <2>1
  <2>3. available' \in Seq(Resources)
    BY <1>1, <1>6, SeqMonotonic DEF Resources
  <2>4. made' \in 0..MaxSize /\ creating' \in 0..MaxSize
    BY <1>1, <1>4, <1>5
  <2> QED
    BY <1>4, <1>7, <1>16, <2>2, <2>3, <2>4 DEF TypeOK, IInv
<1>19. Lent'
  <2>1. \A i \in 1..Len(available') : available'[i] \in 1..made'
    BY <1>4, <1>6, LenProperties
  <2>2. ASSUME NEW c \in Clients, NEW i \in 1..Len(available')
        PROVE  available'[i] # holds'[c]
    <3>1. available'[i] = free[served + i] /\ served + i \in 1..Len(free) /\ served + i > served
      BY <1>1, <1>2, <1>6, <2>2
    <3>2. free[served + i] \in 1..objects
      BY <1>1, <3>1
    <3>3. CASE Turn(c) # {}
      <4>1. PICK j \in 1..served : holds'[c] = free[j]
        BY <1>11, <3>3
      <4> QED
        BY <1>1, <1>2, <1>8, <3>1, <4>1 DEF Injective
    <3>4. CASE Turn(c) = {} /\ (c \in out \/ c \in Elements(queue))
      BY <1>12, <1>13, <3>1, <3>2, <3>4
    <3>5. CASE Turn(c) = {} /\ c \notin out /\ c \notin Elements(queue)
      BY <1>14, <3>1, <3>5 DEF Dispensable
    <3> QED
      BY <3>3, <3>4, <3>5
  <2>3. ASSUME NEW c \in Clients, NEW d \in Clients, holds'[c] = holds'[d], holds'[c] # 0
        PROVE  c = d
    <3>1. ASSUME NEW e \in Clients, holds'[e] # 0
          PROVE  \/ \E i \in 1..served : queue[i] = e /\ holds'[e] = free[i]
                 \/ /\ holds'[e] = holds[e] /\ e \notin out
      BY <1>11, <1>12, <1>13, <1>14, <3>1
    <3>2. \A e \in Clients, i \in 1..served : e \notin out => holds[e] # free[i]
      BY <1>1, <1>2 DEF Dispensable
    <3>3. ASSUME NEW i \in 1..served, NEW j \in 1..served, free[i] = free[j] PROVE i = j
      BY <1>1, <1>2, <1>8, <3>3 DEF Injective
    <3>4. holds[c] = holds[d] /\ holds[c] # 0 => c = d
      BY DEF IInv, Lent
    <3> QED
      BY <2>3, <3>1, <3>2, <3>3, <3>4
  <2> QED
    BY <1>4, <1>5, <1>9, <1>17, <2>1, <2>2, <2>3 DEF Lent
<1>20. Places'
  <2>1. ASSUME NEW c \in Clients
        PROVE  /\ pc'[c] \in {"opening", "handed", "using"} <=> holds'[c] # 0
               /\ pc'[c] = "waiting" <=> c \in Elements(waiting')
    <3>1. CASE Turn(c) # {}
      <4>1. PICK j \in 1..served : holds'[c] = free[j]
        BY <1>11, <3>1
      <4>2. free[j] # 0
        BY <1>1, <1>2, <4>1
      <4> QED
        BY <1>11, <1>15, <3>1, <4>1, <4>2
    <3>2. CASE Turn(c) = {} /\ c \in out
      BY <1>12, <1>15, <3>2
    <3>3. CASE Turn(c) = {} /\ c \notin out /\ c \in Elements(queue)
      BY <1>13, <1>15, <3>3
    <3>4. CASE Turn(c) = {} /\ c \notin out /\ c \notin Elements(queue)
      <4>1. pc[c] # "waiting"
        BY <3>4 DEF Dispensable
      <4>2. pc[c] \in {"opening", "handed", "using"} <=> holds[c] # 0
        BY DEF IInv, Places
      <4> QED
        BY <1>14, <1>15, <3>4, <4>1, <4>2
    <3> QED
      BY <3>1, <3>2, <3>3, <3>4
  <2>2. kind' # "Pool"
    BY <1>4
  <2>3. Elements(waiting)' = Elements(waiting')
    BY DEF Elements
  <2> QED
    BY <1>9, <2>1, <2>2, <2>3 DEF Places
<1>21. WaitsForSomething'
  <2> SUFFICES ASSUME waiting' # <<>>
               PROVE  /\ available' = <<>>
                      /\ made' + creating' = MaxSize \/ creating' >= Len(waiting')
    BY DEF WaitsForSomething
  <2>1. Len(waiting') \in Nat \ {0}
    BY <1>7, EmptySeq
  <2>2. served # Len(queue)
    BY <1>1, <1>2, <1>7, <2>1
  <2>3. served = Len(free)
    BY <1>2, <2>2
  <2>4. Len(available') = 0
    BY <1>1, <1>6, <2>3
  <2>5. creating' >= Len(waiting') \/ made' + creating' = MaxSize
    BY <1>1, <1>3, <1>5, <1>7, <2>3
  <2> QED
    BY <1>6, <2>4, <2>5, EmptySeq
<1> QED
  BY <1>18, <1>19, <1>20, <1>21

-----------------------------------------------------------------------------
(* The steps of the deprecated Pool *)

LEMMA AcquireAvailableStep ==
    ASSUME IInv, NEW c \in Clients, AcquireAvailable(c)
    PROVE  IInv'
<1>1. /\ kind = "Pool" /\ closer = "no" /\ pc[c] = "idle" /\ available # <<>>
      /\ available' = Tail(available) /\ Opens(c, Head(available))
      /\ UNCHANGED <<kind, made, creating, waiting, closer, reachable>>
  BY DEF AcquireAvailable
<1>2. /\ Len(available) \in Nat \ {0} /\ Head(available) = available[1]
      /\ available' \in Seq(Resources) /\ Len(available') = Len(available) - 1
      /\ \A i \in 1..Len(available') : available'[i] = available[i + 1]
  BY <1>1, HeadTailProperties DEF IInv, TypeOK
<1>3. Head(available) \in 1..made /\ 1..made \subseteq Resources
  BY <1>2, PoolAssumption DEF IInv, Lent, TypeOK, Resources
<1>4. waiting = <<>> /\ Len(waiting) = 0
  BY <1>1 DEF IInv, WaitsForSomething
<1>5. TypeOK'
  BY <1>1, <1>2, <1>3 DEF IInv, TypeOK, Opens, Resources
<1>6. Lent'
  <2>1. \A i \in 1..Len(available') : /\ i + 1 \in 1..Len(available)
                                      /\ available'[i] = available[i + 1]
    BY <1>2
  <2>2. \A d \in Clients : holds'[d] = IF d = c THEN Head(available) ELSE holds[d]
    BY <1>1 DEF Opens, IInv, TypeOK
  <2>3. \A d \in Clients : Head(available) # holds[d]
    BY <1>2 DEF IInv, Lent
  <2>4. \A i \in 1..Len(available') : available'[i] # Head(available)
    BY <1>2, <2>1 DEF IInv, Lent, Injective
  <2>5. Injective(available)'
    BY <1>2, <2>1 DEF IInv, Lent, Injective
  <2>6. \A d \in Clients, i \in 1..Len(available') : available'[i] # holds'[d]
    BY <2>1, <2>2, <2>4 DEF IInv, Lent
  <2>7. \A d, e \in Clients : holds'[d] = holds'[e] /\ holds'[d] # 0 => d = e
    BY <2>2, <2>3 DEF IInv, Lent
  <2>8. \A d \in Clients : holds'[d] \in 0..made
    BY <1>3, <2>2 DEF IInv, Lent, TypeOK
  <2> QED
    BY <1>1, <2>1, <2>5, <2>6, <2>7, <2>8 DEF IInv, Lent
<1>7. Places'
  <2>1. \A d \in Clients : /\ d = c => pc'[d] \in {"using", "opening"} /\ holds'[d] = Head(available)
                           /\ d # c => pc'[d] = pc[d] /\ holds'[d] = holds[d]
    BY <1>1 DEF Opens, IInv, TypeOK
  <2>2. Head(available) # 0
    BY <1>3 DEF IInv, TypeOK
  <2>3. Elements(waiting) = {} /\ Elements(waiting)' = {}
    BY <1>1, <1>4 DEF Elements
  <2> QED
    BY <1>1, <1>4, <2>1, <2>2, <2>3 DEF IInv, Places, Injective
<1>8. WaitsForSomething' /\ ClosedWhenIdle'
  BY <1>1, <1>4 DEF WaitsForSomething, ClosedWhenIdle
<1> QED
  BY <1>5, <1>6, <1>7, <1>8 DEF IInv

LEMMA AcquireNewStep ==
    ASSUME IInv, NEW c \in Clients, AcquireNew(c)
    PROVE  IInv'
<1>1. /\ kind = "Pool" /\ closer = "no" /\ pc[c] = "idle" /\ available = <<>>
      /\ made < MaxSize /\ made' = made + 1 /\ Opens(c, made + 1)
      /\ UNCHANGED <<kind, creating, available, waiting, closer, reachable>>
  BY DEF AcquireNew
<1>2. creating = 0 /\ made \in Nat /\ MaxSize \in Nat /\ made + 1 \in Resources
  BY <1>1, PoolAssumption DEF IInv, TypeOK, Places, Resources
<1>3. waiting = <<>> /\ Len(waiting) = 0
  <2>1. made + creating # MaxSize /\ (waiting # <<>> => ~(creating >= Len(waiting)))
    BY <1>1, <1>2, EmptySeq DEF IInv, TypeOK
  <2> QED
    BY <2>1 DEF IInv, WaitsForSomething
<1>4. TypeOK'
  BY <1>1, <1>2 DEF IInv, TypeOK, Opens, Resources
<1>5. Lent'
  <2>1. \A d \in Clients : holds'[d] = IF d = c THEN made + 1 ELSE holds[d]
    BY <1>1 DEF Opens, IInv, TypeOK
  <2>2. \A d \in Clients : holds[d] \in 0..made
    BY DEF IInv, Lent
  <2>3. \A d, e \in Clients : holds'[d] = holds'[e] /\ holds'[d] # 0 => d = e
    BY <1>2, <2>1, <2>2 DEF IInv, Lent
  <2>4. \A d \in Clients : holds'[d] \in 0..made'
    BY <1>1, <1>2, <2>1, <2>2
  <2>5. Len(available') = 0
    BY <1>1
  <2> QED
    BY <1>1, <1>2, <2>3, <2>4, <2>5 DEF Lent, Injective
<1>6. Places'
  BY <1>1, <1>2, <1>3 DEF Opens, IInv, TypeOK, Places, Injective, Elements
<1>7. WaitsForSomething' /\ ClosedWhenIdle'
  BY <1>1, <1>3 DEF WaitsForSomething, ClosedWhenIdle
<1> QED
  BY <1>4, <1>5, <1>6, <1>7 DEF IInv

LEMMA AcquireWaitsStep ==
    ASSUME IInv, NEW c \in Clients, AcquireWaits(c)
    PROVE  IInv'
<1>1. /\ kind = "Pool" /\ closer = "no" /\ pc[c] = "idle" /\ available = <<>>
      /\ made >= MaxSize /\ waiting' = Append(waiting, c)
      /\ pc' = [pc EXCEPT ![c] = "waiting"]
      /\ UNCHANGED <<kind, made, creating, session, available, holds, closer, reachable>>
  BY DEF AcquireWaits
<1>2. c \notin Elements(waiting) /\ holds[c] = 0
  BY <1>1 DEF IInv, Places
<1>3. /\ waiting' \in Seq(Clients) /\ Len(waiting') = Len(waiting) + 1 /\ Len(waiting) \in Nat
      /\ \A i \in 1..Len(waiting) : waiting'[i] = waiting[i]
      /\ waiting'[Len(waiting) + 1] = c
  BY <1>1 DEF IInv, TypeOK
<1>4. TypeOK'
  BY <1>1, <1>3 DEF IInv, TypeOK
<1>5. Lent'
  BY <1>1 DEF IInv, Lent, Injective
<1>6. Places'
  <2>1. Elements(waiting)' = Elements(waiting) \cup {c}
    BY <1>3 DEF Elements
  <2>2. Injective(waiting)'
    BY <1>2, <1>3 DEF IInv, Places, Injective, Elements
  <2>3. \A d \in Clients : pc'[d] = IF d = c THEN "waiting" ELSE pc[d]
    BY <1>1 DEF IInv, TypeOK
  <2> QED
    BY <1>1, <1>2, <2>1, <2>2, <2>3 DEF IInv, Places
<1>7. WaitsForSomething' /\ ClosedWhenIdle'
  BY <1>1, PoolAssumption DEF IInv, TypeOK, Lent, Places, WaitsForSomething, ClosedWhenIdle
<1> QED
  BY <1>4, <1>5, <1>6, <1>7 DEF IInv

LEMMA OpenStep ==
    ASSUME IInv, NEW c \in Clients, OpenReply(c) \/ OpenFails(c)
    PROVE  IInv'
<1>1. /\ kind = "Pool" /\ pc[c] = "opening"
      /\ pc' \in {[pc EXCEPT ![c] = "using"], [pc EXCEPT ![c] = "idle"]}
      /\ holds' = IF pc'[c] = "using" THEN holds ELSE [holds EXCEPT ![c] = 0]
      /\ UNCHANGED <<kind, made, creating, available, waiting, closer, reachable>>
  BY DEF OpenReply, OpenFails, IInv, TypeOK
<1>2. holds[c] # 0 /\ closer \notin {"clearing", "closed"}
  BY <1>1 DEF IInv, Places, ClosedWhenIdle
<1>3. /\ \A d \in Clients \ {c} : pc'[d] = pc[d] /\ holds'[d] = holds[d]
      /\ \/ pc'[c] = "using" /\ holds'[c] = holds[c]
         \/ pc'[c] = "idle" /\ holds'[c] = 0
  <2>1. CASE OpenReply(c)
    BY <2>1 DEF OpenReply, IInv, TypeOK
  <2>2. CASE OpenFails(c)
    BY <2>2 DEF OpenFails, IInv, TypeOK
  <2> QED
    BY <2>1, <2>2
<1>4. TypeOK'
  <2>1. CASE OpenReply(c)
    BY <2>1 DEF OpenReply, IInv, TypeOK
  <2>2. CASE OpenFails(c)
    <3>1. /\ session \in [Resources -> {"none", "opening", "open", "rejected"}]
          /\ session' = [session EXCEPT ![holds[c]] = "rejected"]
      BY <2>2 DEF OpenFails, IInv, TypeOK
    <3>2. session' \in [Resources -> {"none", "opening", "open", "rejected"}]
      BY <3>1
    <3>3. holds' \in [Clients -> 0..MaxSize]
      BY <2>2, PoolAssumption DEF OpenFails, IInv, TypeOK
    <3> QED
      BY <2>2, <3>2, <3>3 DEF OpenFails, IInv, TypeOK
  <2> QED
    BY <2>1, <2>2
<1>5. Lent'
  <2>1. \A d \in Clients : holds'[d] = holds[d] \/ holds'[d] = 0
    BY <1>3
  <2>2. /\ \A i \in 1..Len(available) : available[i] \in 1..made
        /\ made \in Nat
    BY DEF IInv, Lent, TypeOK
  <2>3. \A d \in Clients, i \in 1..Len(available') : available'[i] # holds'[d]
    BY <1>1, <2>1, <2>2 DEF IInv, Lent
  <2>4. \A d, e \in Clients : holds'[d] = holds'[e] /\ holds'[d] # 0 => d = e
    BY <2>1 DEF IInv, Lent
  <2>5. \A d \in Clients : holds'[d] \in 0..made'
    BY <1>1, <2>1, <2>2 DEF IInv, Lent
  <2> QED
    BY <1>1, <2>2, <2>3, <2>4, <2>5 DEF IInv, Lent, Injective
<1>6. Places'
  BY <1>1, <1>2, <1>3 DEF IInv, Places, Injective, Elements
<1>7. WaitsForSomething' /\ ClosedWhenIdle'
  BY <1>1, <1>2 DEF IInv, WaitsForSomething, ClosedWhenIdle
<1> QED
  BY <1>4, <1>5, <1>6, <1>7 DEF IInv

\* What is appended to what is available, and is held no more.
LEMMA GivenBack ==
    ASSUME IInv, NEW c \in Clients, holds[c] # 0
    PROVE  LET free == Append(available, holds[c])
           IN  /\ free \in Seq(1..made) /\ free \in Seq(Resources) /\ Injective(free)
               /\ Len(free) = Len(available) + 1
               /\ \A d \in Clients \ {c}, i \in 1..Len(free) : free[i] # holds[d]
<1> DEFINE free == Append(available, holds[c])
<1>1. /\ made \in Nat /\ made <= MaxSize /\ MaxSize \in Nat
      /\ Len(available) \in Nat /\ available \in Seq(Resources)
      /\ holds[c] \in 1..made
  BY PoolAssumption DEF IInv, TypeOK, Lent
<1>2. available \in Seq(1..made)
  BY <1>1, IsInSeq DEF IInv, Lent
<1>3. /\ free \in Seq(1..made) /\ Len(free) = Len(available) + 1
      /\ \A i \in 1..Len(available) : free[i] = available[i]
      /\ free[Len(available) + 1] = holds[c]
  BY <1>1, <1>2
<1>4. 1..made \subseteq Resources
  BY <1>1 DEF Resources
<1>5. free \in Seq(Resources)
  BY <1>3, <1>4, SeqMonotonic
<1>6. ASSUME NEW i \in 1..Len(free)
      PROVE  \/ i \in 1..Len(available) /\ free[i] = available[i]
             \/ i = Len(available) + 1 /\ free[i] = holds[c]
  BY <1>1, <1>3
<1>7. \A i \in 1..Len(available) : available[i] # holds[c]
  BY DEF IInv, Lent
<1>8. Injective(free)
  BY <1>6, <1>7 DEF IInv, Lent, Injective
<1>9. \A d \in Clients \ {c}, i \in 1..Len(free) : free[i] # holds[d]
  BY <1>1, <1>6 DEF IInv, Lent
<1> QED
  BY <1>3, <1>5, <1>8, <1>9

\* The queue without its first.
LEMMA FirstLeaves ==
    ASSUME IInv, waiting # <<>>
    PROVE  /\ Len(waiting) \in Nat \ {0} /\ Head(waiting) = waiting[1] /\ Head(waiting) \in Clients
           /\ Tail(waiting) \in Seq(Clients) /\ Len(Tail(waiting)) = Len(waiting) - 1
           /\ Injective(Tail(waiting))
           /\ \A c : c \in Elements(Tail(waiting)) <=> c \in Elements(waiting) /\ c # Head(waiting)
<1>1. waiting \in Seq(Clients) /\ Injective(waiting)
  BY DEF IInv, TypeOK, Places
<1>2. /\ Len(waiting) \in Nat \ {0} /\ Head(waiting) = waiting[1] /\ Head(waiting) \in Clients
      /\ Tail(waiting) \in Seq(Clients) /\ Len(Tail(waiting)) = Len(waiting) - 1
      /\ \A i \in 1..Len(Tail(waiting)) : Tail(waiting)[i] = waiting[i + 1]
  BY <1>1, HeadTailProperties
<1>3. \A i \in 1..Len(Tail(waiting)) : i + 1 \in 2..Len(waiting)
  BY <1>2
<1>4. \A i \in 2..Len(waiting) : i - 1 \in 1..Len(Tail(waiting)) /\ Tail(waiting)[i - 1] = waiting[i]
  BY <1>2
<1>5. Injective(Tail(waiting))
  BY <1>1, <1>2, <1>3 DEF Injective
<1>6. ASSUME NEW c
      PROVE  c \in Elements(Tail(waiting)) <=> c \in Elements(waiting) /\ c # Head(waiting)
  <2>1. ASSUME c \in Elements(Tail(waiting)) PROVE c \in Elements(waiting) /\ c # Head(waiting)
    <3>1. PICK i \in 1..Len(Tail(waiting)) : c = waiting[i + 1]
      BY <1>2, <2>1 DEF Elements
    <3> QED
      BY <1>1, <1>2, <1>3, <3>1 DEF Elements, Injective
  <2>2. ASSUME c \in Elements(waiting), c # Head(waiting) PROVE c \in Elements(Tail(waiting))
    <3>1. PICK i \in 1..Len(waiting) : c = waiting[i] /\ i # 1
      BY <1>2, <2>2 DEF Elements
    <3>2. i \in 2..Len(waiting)
      BY <1>2, <3>1
    <3> QED
      BY <1>4, <3>1, <3>2 DEF Elements
  <2> QED
    BY <2>1, <2>2
<1> QED
  BY <1>2, <1>5, <1>6

LEMMA ReleaseStep ==
    ASSUME IInv, NEW c \in Clients, Release(c)
    PROVE  IInv'
<1>1. /\ kind = "Pool" /\ pc[c] = "using"
      /\ UNCHANGED <<kind, made, creating, session, closer, reachable>>
  BY DEF Release
<1>2. holds[c] # 0 /\ closer \notin {"clearing", "closed"} /\ c \notin Elements(waiting)
  BY <1>1 DEF IInv, Places, ClosedWhenIdle
<1>3. ClosedWhenIdle'
  BY <1>1, <1>2 DEF ClosedWhenIdle
<1>4. CASE waiting = <<>>
  <2> DEFINE free == Append(available, holds[c])
  <2>1. /\ available' = free /\ pc' = [pc EXCEPT ![c] = "idle"]
        /\ holds' = [holds EXCEPT ![c] = 0] /\ waiting' = waiting
    BY <1>4 DEF Release
  <2>2. /\ free \in Seq(1..made) /\ free \in Seq(Resources) /\ Injective(free)
        /\ \A d \in Clients \ {c}, i \in 1..Len(free) : free[i] # holds[d]
    BY <1>2, GivenBack
  <2> HIDE DEF free
  <2>3. /\ \A d \in Clients \ {c} : pc'[d] = pc[d] /\ holds'[d] = holds[d]
        /\ pc'[c] = "idle" /\ holds'[c] = 0
    BY <2>1 DEF IInv, TypeOK
  <2>4. TypeOK'
    BY <1>1, <2>1, <2>2, PoolAssumption DEF IInv, TypeOK
  <2>5. Lent'
    <3>1. made \in Nat /\ \A i \in 1..Len(free) : free[i] \in 1..made
      BY <2>2, ElementOfSeq DEF IInv, TypeOK
    <3>2. \A d \in Clients, i \in 1..Len(free) : free[i] # holds'[d]
      BY <2>2, <2>3, <3>1
    <3>3. \A d \in Clients : holds'[d] \in 0..made
      BY <2>3, <3>1 DEF IInv, Lent
    <3>4. \A d, e \in Clients : holds'[d] = holds'[e] /\ holds'[d] # 0 => d = e
      BY <2>3 DEF IInv, Lent
    <3>5. Injective(available)'
      BY <2>1, <2>2 DEF Injective
    <3>6. made' + creating' <= MaxSize
      BY <1>1 DEF IInv, Lent
    <3> QED
      BY <1>1, <2>1, <3>1, <3>2, <3>3, <3>4, <3>5, <3>6 DEF Lent
  <2>6. Places'
    <3>1. Elements(waiting)' = Elements(waiting) /\ Injective(waiting)'
      BY <2>1 DEF Elements, IInv, Places, Injective
    <3> QED
      BY <1>1, <1>2, <2>3, <3>1 DEF IInv, Places
  <2>7. WaitsForSomething'
    BY <1>4, <2>1 DEF WaitsForSomething
  <2> QED
    BY <1>3, <2>4, <2>5, <2>6, <2>7 DEF IInv
<1>5. CASE waiting # <<>>
  <2> DEFINE w == Head(waiting)
  <2>1. /\ waiting' = Tail(waiting) /\ available' = available
        /\ pc' = [pc EXCEPT ![c] = "idle", ![w] = "handed"]
        /\ holds' = [holds EXCEPT ![c] = 0, ![w] = holds[c]]
    BY <1>5 DEF Release
  <2>2. /\ Len(waiting) \in Nat \ {0} /\ w = waiting[1] /\ w \in Clients
        /\ waiting' \in Seq(Clients) /\ Len(waiting') = Len(waiting) - 1
        /\ Injective(Tail(waiting))
        /\ \A d : d \in Elements(Tail(waiting)) <=> d \in Elements(waiting) /\ d # w
    BY <1>5, <2>1, FirstLeaves
  <2>3. w \in Elements(waiting) /\ w # c
    BY <1>2, <2>2 DEF Elements
  <2>4. holds[w] = 0 /\ pc[w] = "waiting"
    BY <2>2, <2>3 DEF IInv, Places
  <2>5. available = <<>> /\ Len(available) = 0
    BY <1>5 DEF IInv, WaitsForSomething
  <2> HIDE DEF w
  <2>6. /\ \A d \in Clients \ {c, w} : pc'[d] = pc[d] /\ holds'[d] = holds[d]
        /\ pc'[c] = "idle" /\ holds'[c] = 0
        /\ pc'[w] = "handed" /\ holds'[w] = holds[c]
    BY <2>1, <2>2, <2>3 DEF IInv, TypeOK
  <2>7. TypeOK'
    <3>1. holds \in [Clients -> 0..MaxSize] /\ holds[c] \in 0..MaxSize /\ 0 \in 0..MaxSize
      BY PoolAssumption DEF IInv, TypeOK
    <3>2. holds' \in [Clients -> 0..MaxSize]
      BY <2>1, <2>2, <3>1
    <3>3. pc' \in [Clients -> {"idle", "opening", "waiting", "handed", "using"}]
      BY <2>1, <2>2 DEF IInv, TypeOK
    <3> QED
      BY <1>1, <2>1, <2>2, <3>2, <3>3 DEF IInv, TypeOK
  <2>8. Lent'
    <3>1. \A d \in Clients : holds'[d] \in 0..made
      <4>1. made \in Nat /\ \A d \in Clients : holds[d] \in 0..made
        BY DEF IInv, Lent, TypeOK
      <4>2. \A d \in Clients : holds'[d] \in {0, holds[c], holds[d]}
        BY <2>6
      <4> QED
        BY <4>1, <4>2
    <3>2. \A d, e \in Clients : holds'[d] = holds'[e] /\ holds'[d] # 0 => d = e
      <4>1. \A d, e \in Clients : holds[d] = holds[e] /\ holds[d] # 0 => d = e
        BY DEF IInv, Lent
      <4>2. \A d \in Clients :
                \/ d \notin {c, w} /\ holds'[d] = holds[d]
                \/ d = c /\ holds'[d] = 0
                \/ d = w /\ holds'[d] = holds[c]
        BY <2>6
      <4>3. \A d \in Clients : holds'[d] # 0 => holds[IF d = w THEN c ELSE d] = holds'[d] /\ d # c
        BY <4>2, <2>3
      <4> QED
        BY <4>1, <4>3
    <3>3. /\ made' + creating' <= MaxSize /\ Injective(available)'
          /\ \A i \in 1..Len(available') : available'[i] \in 1..made'
          /\ \A d \in Clients, i \in 1..Len(available') : available'[i] # holds'[d]
      BY <1>1, <2>1, <2>5 DEF IInv, Lent, Injective
    <3> QED
      BY <1>1, <3>1, <3>2, <3>3 DEF Lent
  <2>9. Places'
    <3>1. Elements(waiting)' = Elements(Tail(waiting)) /\ Injective(waiting)'
      BY <2>1, <2>2 DEF Elements, Injective
    <3> QED
      BY <1>1, <1>2, <2>2, <2>3, <2>4, <2>6, <3>1 DEF IInv, Places
  <2>10. WaitsForSomething'
    BY <1>1, <1>5, <2>1, <2>2 DEF IInv, WaitsForSomething, TypeOK
  <2> QED
    BY <1>3, <2>7, <2>8, <2>9, <2>10 DEF IInv
<1> QED
  BY <1>4, <1>5

LEMMA NextTickStep ==
    ASSUME IInv, NEW c \in Clients, NextTick(c)
    PROVE  IInv'
<1>1. /\ pc[c] = "handed" /\ pc' = [pc EXCEPT ![c] = "using"]
      /\ UNCHANGED <<kind, made, creating, session, available, waiting, holds, closer, reachable>>
  BY DEF NextTick
<1>2. holds[c] # 0 /\ closer \notin {"clearing", "closed"} /\ c \notin Elements(waiting)
  BY <1>1 DEF IInv, Places, ClosedWhenIdle
<1>3. \A d \in Clients : pc'[d] = IF d = c THEN "using" ELSE pc[d]
  BY <1>1 DEF IInv, TypeOK
<1>4. TypeOK'
  BY <1>1 DEF IInv, TypeOK
<1>5. Lent'
  BY <1>1 DEF IInv, Lent, Injective
<1>6. Places'
  <2>1. Elements(waiting)' = Elements(waiting) /\ Injective(waiting)'
    BY <1>1 DEF Elements, IInv, Places, Injective
  <2> QED
    BY <1>1, <1>2, <1>3, <2>1 DEF IInv, Places
<1>7. WaitsForSomething' /\ ClosedWhenIdle'
  BY <1>1, <1>2 DEF IInv, WaitsForSomething, ClosedWhenIdle
<1> QED
  BY <1>4, <1>5, <1>6, <1>7 DEF IInv

\* _checkWaiting takes one request out of the queue.
LEMMA OneLeaves ==
    ASSUME IInv, NEW i \in 1..Len(waiting)
    PROVE  LET rest == SubSeq(waiting, 1, i - 1) \o SubSeq(waiting, i + 1, Len(waiting))
           IN  /\ rest \in Seq(Clients) /\ Len(rest) = Len(waiting) - 1
               /\ Injective(rest)
               /\ \A c : c \in Elements(rest) <=> c \in Elements(waiting) /\ c # waiting[i]
<1> DEFINE left == SubSeq(waiting, 1, i - 1)
<1> DEFINE right == SubSeq(waiting, i + 1, Len(waiting))
<1> DEFINE rest == left \o right
<1>1. waiting \in Seq(Clients) /\ Injective(waiting) /\ Len(waiting) \in Nat /\ i \in Nat \ {0}
      /\ i <= Len(waiting)
  BY DEF IInv, TypeOK, Places
<1>2. /\ left \in Seq(Clients) /\ Len(left) = i - 1
      /\ \A j \in 1..(i - 1) : left[j] = waiting[j]
  <2>1. \A j \in 1..(i - 1) : waiting[j] \in Clients
    BY <1>1
  <2>2. /\ left \in Seq(Clients)
        /\ Len(left) = IF 1 <= i - 1 THEN i - 1 - 1 + 1 ELSE 0
        /\ \A j \in 1..(i - 1 - 1 + 1) : left[j] = waiting[1 + j - 1]
    BY <1>1, <2>1, SubSeqProperties
  <2>3. Len(left) = i - 1
    BY <1>1, <2>2
  <2>4. ASSUME NEW j \in 1..(i - 1) PROVE left[j] = waiting[j]
    <3>1. j \in 1..(i - 1 - 1 + 1) /\ 1 + j - 1 = j
      BY <1>1
    <3> QED
      BY <2>2, <3>1
  <2> QED
    BY <2>2, <2>3, <2>4
<1>3. /\ right \in Seq(Clients) /\ Len(right) = Len(waiting) - i
      /\ \A j \in 1..(Len(waiting) - i) : right[j] = waiting[i + j]
  BY <1>1, Rest
<1> HIDE DEF left, right
<1>4. /\ rest \in Seq(Clients) /\ Len(rest) = Len(waiting) - 1
      /\ \A j \in 1..Len(rest) : rest[j] = IF j <= i - 1 THEN left[j] ELSE right[j - (i - 1)]
  <2>1. /\ rest \in Seq(Clients) /\ Len(rest) = Len(left) + Len(right)
        /\ \A j \in 1..(Len(left) + Len(right)) :
              rest[j] = IF j <= Len(left) THEN left[j] ELSE right[j - Len(left)]
    BY <1>2, <1>3, ConcatProperties
  <2> HIDE DEF rest
  <2>2. Len(left) + Len(right) = Len(waiting) - 1
    BY <1>1, <1>2, <1>3
  <2> QED
    BY <1>2, <2>1, <2>2
<1>5. ASSUME NEW j \in 1..Len(rest)
      PROVE  rest[j] = waiting[IF j <= i - 1 THEN j ELSE j + 1]
  <2>1. CASE j <= i - 1
    BY <1>1, <1>2, <1>4, <2>1
  <2>2. CASE j > i - 1
    <3>1. j - (i - 1) \in 1..(Len(waiting) - i) /\ i + (j - (i - 1)) = j + 1
      BY <1>1, <1>4, <2>2
    <3>2. right[j - (i - 1)] = waiting[j + 1]
      BY <1>3, <3>1
    <3> QED
      BY <1>1, <1>4, <2>2, <3>2
  <2> QED
    BY <1>1, <1>4, <2>1, <2>2
<1> HIDE DEF rest
<1>6. Injective(rest)
  <2> SUFFICES ASSUME NEW j \in 1..Len(rest), NEW k \in 1..Len(rest), rest[j] = rest[k]
               PROVE  j = k
    BY DEF Injective
  <2>1. /\ (IF j <= i - 1 THEN j ELSE j + 1) \in 1..Len(waiting)
        /\ (IF k <= i - 1 THEN k ELSE k + 1) \in 1..Len(waiting)
    BY <1>1, <1>4
  <2>2. (IF j <= i - 1 THEN j ELSE j + 1) = (IF k <= i - 1 THEN k ELSE k + 1)
    BY <1>1, <1>5, <2>1 DEF Injective
  <2> QED
    BY <1>1, <1>4, <2>2
<1>7. ASSUME NEW c
      PROVE  c \in Elements(rest) <=> c \in Elements(waiting) /\ c # waiting[i]
  <2>1. ASSUME c \in Elements(rest) PROVE c \in Elements(waiting) /\ c # waiting[i]
    <3>1. PICK j \in 1..Len(rest) : c = rest[j]
      BY <2>1 DEF Elements
    <3> DEFINE k == IF j <= i - 1 THEN j ELSE j + 1
    <3>2. k \in 1..Len(waiting) /\ k # i /\ c = waiting[k]
      BY <1>1, <1>4, <1>5, <3>1
    <3> QED
      BY <1>1, <3>2 DEF Elements, Injective
  <2>2. ASSUME c \in Elements(waiting), c # waiting[i] PROVE c \in Elements(rest)
    <3>1. PICK k \in 1..Len(waiting) : c = waiting[k] /\ k # i
      BY <2>2 DEF Elements
    <3> DEFINE j == IF k <= i - 1 THEN k ELSE k - 1
    <3>2. j \in 1..Len(rest) /\ (IF j <= i - 1 THEN j ELSE j + 1) = k
      BY <1>1, <1>4, <3>1
    <3>3. rest[j] = c
      BY <1>5, <3>1, <3>2
    <3> QED
      BY <3>2, <3>3 DEF Elements
  <2> QED
    BY <2>1, <2>2
<1> QED
  BY <1>4, <1>6, <1>7 DEF rest, left, right

LEMMA TimeoutStep ==
    ASSUME IInv, NEW c \in Clients, Timeout(c)
    PROVE  IInv'
<1>1. PICK i \in 1..Len(waiting) :
          /\ waiting[i] = c
          /\ waiting' = SubSeq(waiting, 1, i - 1) \o SubSeq(waiting, i + 1, Len(waiting))
  BY DEF Timeout
<1>2. /\ pc' = [pc EXCEPT ![c] = "idle"]
      /\ UNCHANGED <<kind, made, creating, session, available, holds, closer, reachable>>
  BY DEF Timeout
<1>3. /\ waiting' \in Seq(Clients) /\ Len(waiting') = Len(waiting) - 1
      /\ Injective(waiting')
      /\ \A d : d \in Elements(waiting') <=> d \in Elements(waiting) /\ d # c
  BY <1>1, OneLeaves
<1>4. c \in Elements(waiting) /\ pc[c] = "waiting" /\ holds[c] = 0 /\ waiting # <<>>
  <2>1. c \in Elements(waiting)
    BY <1>1 DEF Elements
  <2>2. pc[c] = "waiting" /\ holds[c] = 0
    BY <2>1 DEF IInv, Places
  <2>3. Len(waiting) # 0
    BY <1>1 DEF IInv, TypeOK
  <2> QED
    BY <2>1, <2>2, <2>3
<1>5. closer \notin {"clearing", "closed"}
  BY <1>4 DEF IInv, ClosedWhenIdle
<1>6. \A d \in Clients : pc'[d] = IF d = c THEN "idle" ELSE pc[d]
  BY <1>2 DEF IInv, TypeOK
<1>7. TypeOK'
  BY <1>2, <1>3 DEF IInv, TypeOK
<1>8. Lent'
  BY <1>2 DEF IInv, Lent, Injective
<1>9. Places'
  <2>1. Elements(waiting)' = Elements(waiting') /\ Injective(waiting)'
    BY <1>3 DEF Elements, Injective
  <2> QED
    BY <1>2, <1>3, <1>4, <1>6, <2>1 DEF IInv, Places
<1>10. WaitsForSomething'
  <2>1. Len(waiting) \in Nat /\ creating \in Nat
    BY DEF IInv, TypeOK
  <2>2. /\ available = <<>>
        /\ made + creating = MaxSize \/ creating >= Len(waiting)
    BY <1>4 DEF IInv, WaitsForSomething
  <2> QED
    BY <1>2, <1>3, <2>1, <2>2 DEF WaitsForSomething
<1>11. ClosedWhenIdle'
  BY <1>2, <1>5 DEF ClosedWhenIdle
<1> QED
  BY <1>7, <1>8, <1>9, <1>10, <1>11 DEF IInv

\* When as many are available as were made, nobody has one and nobody waits for one.
LEMMA AllAreBack ==
    ASSUME IInv, kind = "Pool", made = Len(available)
    PROVE  \A c \in Clients : pc[c] = "idle" /\ holds[c] = 0
<1>1. /\ made \in Nat /\ Injective(available) /\ available \in Seq(Resources)
      /\ \A i \in 1..made : available[i] \in 1..made
  BY DEF IInv, TypeOK, Lent
<1>2. \A c \in Clients : holds[c] = 0
  <2> SUFFICES ASSUME NEW c \in Clients, holds[c] # 0 PROVE FALSE
    OBVIOUS
  <2> DEFINE others == (1..made) \ {holds[c]}
  <2>1. holds[c] \in 1..made
    BY <1>1 DEF IInv, Lent
  <2>2. available \in [1..made -> others]
    BY <1>1 DEF IInv, Lent
  <2>3. IsFiniteSet(1..made) /\ Cardinality(1..made) = made
    <3>1. 1 \in Int /\ made \in Int /\ ~(1 > made) /\ made - 1 + 1 = made
      BY <1>1, <2>1
    <3>2. IsFiniteSet(1..made) /\ Cardinality(1..made) = IF 1 > made THEN 0 ELSE made - 1 + 1
      BY <3>1, FS_Interval
    <3> QED
      BY <3>1, <3>2
  <2>4. IsFiniteSet(others) /\ Cardinality(others) = made - 1
    BY <2>1, <2>3, FS_RemoveElement
  <2>5. \E x, y \in 1..made : x # y /\ available[x] = available[y]
    <3> HIDE DEF others
    <3>1. Cardinality(others) < Cardinality(1..made)
      BY <1>1, <2>3, <2>4
    <3> QED
      BY <2>2, <2>3, <2>4, <3>1, FS_PigeonHole
  <2> QED
    BY <1>1, <2>5 DEF Injective
<1>3. waiting = <<>>
  <2> SUFFICES ASSUME waiting # <<>> PROVE FALSE
    OBVIOUS
  <2>1. Len(available) = 0 /\ Len(waiting) \in Nat \ {0} /\ creating = 0
    BY EmptySeq DEF IInv, TypeOK, Places, WaitsForSomething
  <2> QED
    BY <1>1, <2>1, PoolAssumption DEF IInv, WaitsForSomething
<1>4. \A c \in Clients : pc[c] \notin {"opening", "handed", "using", "waiting"}
  <2>1. Elements(waiting) = {}
    BY <1>3 DEF Elements
  <2> QED
    BY <1>2, <2>1 DEF IInv, Places
<1> QED
  BY <1>2, <1>4 DEF IInv, TypeOK

\* The steps of close(), and those of the server.
LEMMA CloseStep ==
    ASSUME IInv, \/ Close \/ DrainPool \/ DrainPoolFails \/ Drain \/ Drained \/ ServerChanges
                 \/ \E r \in Resources : Reset(r)
    PROVE  IInv'
<1>1. UNCHANGED <<kind, made, creating, available, waiting, pc, holds>>
  BY DEF Close, DrainPool, DrainPoolFails, Drain, Drained, ServerChanges, Reset
<1>2. /\ session' \in [Resources -> {"none", "opening", "open", "rejected"}]
      /\ closer' \in {"no", "draining", "clearing", "closed", "failed"}
      /\ reachable' \in BOOLEAN
  <2>1. CASE DrainPoolFails
    BY <2>1 DEF DrainPoolFails, IInv, TypeOK
  <2>2. CASE \E r \in Resources : Reset(r)
    BY <2>2 DEF Reset, IInv, TypeOK
  <2>3. CASE Close \/ DrainPool \/ Drain \/ Drained \/ ServerChanges
    BY <2>3 DEF Close, DrainPool, Drain, Drained, ServerChanges, IInv, TypeOK
  <2> QED
    BY <2>1, <2>2, <2>3
<1>3. TypeOK' /\ Lent' /\ Places' /\ WaitsForSomething'
  BY <1>1, <1>2 DEF IInv, TypeOK, Lent, Places, WaitsForSomething, Injective, Elements
<1>4. ClosedWhenIdle'
  <2>1. CASE DrainPool
    BY <1>1, <2>1, AllAreBack DEF DrainPool, ClosedWhenIdle
  <2>2. CASE Drained
    BY <1>1, <2>2 DEF Drained, ClosedWhenIdle, IInv, Places
  <2>3. CASE Close \/ DrainPoolFails \/ Drain
    BY <2>3 DEF Close, DrainPoolFails, Drain, ClosedWhenIdle
  <2>4. CASE ServerChanges \/ \E r \in Resources : Reset(r)
    <3>1. closer' = closer
      BY <2>4 DEF ServerChanges, Reset
    <3> QED
      BY <1>1, <3>1 DEF IInv, ClosedWhenIdle
  <2> QED
    BY <2>1, <2>2, <2>3, <2>4
<1> QED
  BY <1>3, <1>4 DEF IInv

\* A pool that is closed starts over with nothing.
LEMMA ClosedStep ==
    ASSUME IInv, DrainPoolReply \/ Clear
    PROVE  IInv'
<1>1. /\ closer = "clearing" /\ closer' = "closed" /\ made' = 0 /\ available' = <<>>
      /\ UNCHANGED <<kind, creating, waiting, pc, holds, reachable>>
      /\ session' \in [Resources -> {"none", "opening", "open", "rejected"}]
  BY DEF DrainPoolReply, Clear, IInv, TypeOK
<1>2. \A c \in Clients : pc[c] = "idle" /\ holds[c] = 0
  BY <1>1 DEF IInv, ClosedWhenIdle
<1>3. Len(available') = 0 /\ available' \in Seq(Resources)
  BY <1>1
<1>4. TypeOK' /\ Lent'
  BY <1>1, <1>2, <1>3, PoolAssumption DEF IInv, TypeOK, Lent, Injective
<1>5. Places' /\ ClosedWhenIdle'
  BY <1>1, <1>2 DEF IInv, Places, ClosedWhenIdle, Injective, Elements
<1>6. waiting = <<>>
  <2>1. \A i \in 1..Len(waiting) : FALSE
    BY <1>2 DEF IInv, Places, Elements, TypeOK
  <2> QED
    BY <2>1, EmptySeq DEF IInv, TypeOK
<1>7. WaitsForSomething'
  BY <1>1, <1>6 DEF WaitsForSomething
<1> QED
  BY <1>4, <1>5, <1>7 DEF IInv

-----------------------------------------------------------------------------
(* The steps of BasePool *)

\* What IInv says of the state that a handler gives to Dispense.
LEMMA Facts ==
    ASSUME IInv
    PROVE  /\ made \in Nat /\ creating \in Nat /\ MaxSize \in Nat /\ made + creating <= MaxSize
           /\ available \in Seq(1..made) /\ Injective(available)
           /\ waiting \in Seq(Clients) /\ Injective(waiting)
           /\ \A c \in Clients : /\ holds[c] \in 0..made
                                 /\ \A i \in 1..Len(available) : available[i] # holds[c]
                                 /\ pc[c] = "waiting" <=> c \in Elements(waiting)
                                 /\ pc[c] \in {"opening", "handed", "using"} <=> holds[c] # 0
           /\ \A c \in Elements(waiting) : c \in Clients /\ holds[c] = 0
<1>1. available \in Seq(Resources) /\ \A i \in 1..Len(available) : available[i] \in 1..made
  BY DEF IInv, TypeOK, Lent
<1>2. available \in Seq(1..made)
  BY <1>1, IsInSeq
<1>3. \A c \in Elements(waiting) : c \in Clients
  BY DEF Elements, IInv, TypeOK
<1>4. \A c \in Elements(waiting) : holds[c] = 0
  BY <1>3 DEF IInv, Places
<1> QED
  BY <1>2, <1>3, <1>4, PoolAssumption DEF IInv, TypeOK, Lent, Places

\* Dispense gives nothing to anybody when nobody waits.
LEMMA DispenseToNobody ==
    ASSUME NEW objects, NEW pending, NEW free, NEW queue, NEW out, IInv,
           queue = <<>>, out = {}, Dispense(objects, pending, free, queue, out)
    PROVE  \A c \in Clients : pc'[c] = pc[c] /\ holds'[c] = holds[c]
<1> SUFFICES ASSUME NEW c \in Clients PROVE pc'[c] = pc[c] /\ holds'[c] = holds[c]
  OBVIOUS
<1>1. Len(queue) = 0 /\ Elements(queue) = {}
  BY DEF Elements
<1>2. \A i \in 1..Least(Len(free), Len(queue)) : FALSE
  BY <1>1 DEF Least
<1>3. {i \in 1..Least(Len(free), Len(queue)) : queue[i] = c} = {}
  BY <1>2
<1> QED
  BY <1>1, <1>3 DEF Dispense

\* The handlers of generic-pool keep the invariant, if nobody is on the way when the
\* pool is being cleared.
LEMMA DispenseKeeps ==
    ASSUME IInv, NEW objects, NEW pending, NEW free, NEW queue, NEW out,
           kind = "BasePool", Dispensable(objects, pending, free, queue, out),
           Dispense(objects, pending, free, queue, out),
           closer \in {"clearing", "closed"} => queue = <<>> /\ out = {}
    PROVE  IInv'
<1>1. closer' = closer
  BY DEF Dispense
<1>2. ClosedWhenIdle'
  BY <1>1, DispenseToNobody DEF IInv, ClosedWhenIdle
<1> QED
  BY <1>2, DispenseEffect DEF IInv

LEMMA NobodyWaitsWhenClearing ==
    ASSUME IInv, closer \in {"clearing", "closed"}
    PROVE  waiting = <<>>
<1>1. \A c \in Clients : pc[c] = "idle"
  BY DEF IInv, ClosedWhenIdle
<1>2. \A i \in 1..Len(waiting) : FALSE
  BY <1>1, SMTT(30) DEF IInv, Places, Elements, TypeOK
<1> QED
  BY <1>2, EmptySeq DEF IInv, TypeOK

LEMMA AcquireStep ==
    ASSUME IInv, NEW c \in Clients, Acquire(c)
    PROVE  IInv'
<1> DEFINE queue == Append(waiting, c)
<1>1. /\ kind = "BasePool" /\ closer = "no" /\ pc[c] = "idle"
      /\ Dispense(made, creating, available, queue, {})
  BY DEF Acquire
<1>2. c \notin Elements(waiting) /\ holds[c] = 0
  BY <1>1 DEF IInv, Places
<1>3. waiting \in Seq(Clients) /\ Injective(waiting) /\ Len(waiting) \in Nat
  BY Facts
<1>4. /\ queue \in Seq(Clients) /\ Len(queue) = Len(waiting) + 1
      /\ \A i \in 1..Len(queue) : queue[i] = IF i <= Len(waiting) THEN waiting[i] ELSE c
  BY <1>3
<1>5. Elements(queue) = Elements(waiting) \cup {c}
  BY <1>3, <1>4 DEF Elements
<1>6. Injective(queue)
  BY <1>2, <1>3, <1>4 DEF Injective, Elements
<1>7. Dispensable(made, creating, available, queue, {})
  BY <1>2, <1>4, <1>5, <1>6, Facts DEF Dispensable
<1> HIDE DEF queue
<1> QED
  BY <1>1, <1>7, DispenseKeeps

LEMMA CreatedStep ==
    ASSUME IInv, Created
    PROVE  IInv'
<1> DEFINE free == Append(available, made + 1)
<1>1. /\ kind = "BasePool" /\ creating > 0
      /\ Dispense(made + 1, creating - 1, free, waiting, {})
  BY DEF Created
<1>2. /\ made \in Nat /\ available \in Seq(1..made) /\ Injective(available)
      /\ Len(available) \in Nat
  BY Facts
<1>3. available \in Seq(1..(made + 1))
  BY <1>2, SeqMonotonic
<1>4. /\ free \in Seq(1..(made + 1)) /\ Len(free) = Len(available) + 1
      /\ \A i \in 1..Len(free) : free[i] = IF i <= Len(available) THEN available[i] ELSE made + 1
  BY <1>2, <1>3
<1>5. \A i \in 1..Len(available) : available[i] \in 1..made
  BY <1>2
<1>6. Injective(free)
  <2> SUFFICES ASSUME NEW i \in 1..Len(free), NEW j \in 1..Len(free), free[i] = free[j]
               PROVE  i = j
    BY DEF Injective
  <2>1. CASE i <= Len(available) /\ j <= Len(available)
    BY <1>2, <1>4, <2>1 DEF Injective
  <2>2. CASE i <= Len(available) /\ ~(j <= Len(available))
    <3>1. free[i] \in 1..made /\ free[j] = made + 1
      BY <1>2, <1>4, <1>5, <2>2
    <3> QED
      BY <1>2, <3>1
  <2>3. CASE ~(i <= Len(available)) /\ j <= Len(available)
    <3>1. free[j] \in 1..made /\ free[i] = made + 1
      BY <1>2, <1>4, <1>5, <2>3, SMTT(30)
    <3> QED
      BY <1>2, <3>1
  <2>4. CASE ~(i <= Len(available)) /\ ~(j <= Len(available))
    BY <1>2, <1>4, <2>4
  <2> QED
    BY <2>1, <2>2, <2>3, <2>4
<1>7. ASSUME NEW d \in Clients
      PROVE  /\ holds[d] \in 0..(made + 1)
             /\ \A i \in 1..Len(free) : free[i] # holds[d]
             /\ pc[d] = "waiting" => d \in Elements(waiting)
  <2>1. /\ holds[d] \in 0..made /\ \A i \in 1..Len(available) : available[i] # holds[d]
        /\ pc[d] = "waiting" => d \in Elements(waiting)
    BY Facts
  <2> QED
    BY <1>2, <1>4, <2>1
<1> HIDE DEF free
<1>8. /\ made + 1 \in Nat /\ creating - 1 \in Nat /\ made + 1 + (creating - 1) <= MaxSize
  BY <1>1, Facts
<1>9. Dispensable(made + 1, creating - 1, free, waiting, {})
  BY <1>4, <1>6, <1>7, <1>8, Facts DEF Dispensable
<1>10. closer \in {"clearing", "closed"} => waiting = <<>>
  BY NobodyWaitsWhenClearing
<1> QED
  BY <1>1, <1>9, <1>10, DispenseKeeps

LEMMA CreateFailsStep ==
    ASSUME IInv, CreateFails
    PROVE  IInv'
<1>1. /\ kind = "BasePool" /\ creating > 0 /\ creating - 1 \in Nat
      /\ made + (creating - 1) <= MaxSize
  BY Facts DEF CreateFails
<1>2. CASE waiting = <<>>
  <2>1. Dispense(made, creating - 1, available, waiting, {})
    BY <1>2 DEF CreateFails
  <2>2. Dispensable(made, creating - 1, available, waiting, {})
    BY <1>1, Facts DEF Dispensable
  <2> QED
    BY <1>1, <1>2, <2>1, <2>2, DispenseKeeps
<1>3. CASE waiting # <<>>
  <2> DEFINE w == Head(waiting)
  <2>1. Dispense(made, creating - 1, available, Tail(waiting), {w})
    BY <1>3 DEF CreateFails
  <2>2. /\ w \in Clients /\ Tail(waiting) \in Seq(Clients) /\ Injective(Tail(waiting))
        /\ \A c : c \in Elements(Tail(waiting)) <=> c \in Elements(waiting) /\ c # w
    BY <1>3, FirstLeaves
  <2> HIDE DEF w
  <2>3. Dispensable(made, creating - 1, available, Tail(waiting), {w})
    BY <1>1, <2>2, Facts DEF Dispensable
  <2>4. closer \notin {"clearing", "closed"}
    BY <1>3, NobodyWaitsWhenClearing
  <2> QED
    BY <1>1, <2>1, <2>3, <2>4, DispenseKeeps
<1> QED
  BY <1>2, <1>3

LEMMA GiveBackStep ==
    ASSUME IInv, NEW c \in Clients, GiveBack(c)
    PROVE  IInv'
<1> DEFINE free == Append(available, holds[c])
<1>1. /\ kind = "BasePool" /\ pc[c] = "using"
      /\ Dispense(made, creating, free, waiting, {c})
  BY DEF GiveBack
<1>2. holds[c] # 0 /\ closer \notin {"clearing", "closed"} /\ c \notin Elements(waiting)
  BY <1>1 DEF IInv, Places, ClosedWhenIdle
<1>3. /\ free \in Seq(1..made) /\ Injective(free)
      /\ \A d \in Clients \ {c}, i \in 1..Len(free) : free[i] # holds[d]
  BY <1>2, GivenBack
<1> HIDE DEF free
<1>4. Dispensable(made, creating, free, waiting, {c})
  BY <1>2, <1>3, Facts DEF Dispensable
<1> QED
  BY <1>1, <1>2, <1>4, DispenseKeeps

-----------------------------------------------------------------------------
(* The theorems *)

LEMMA StepIInv == IInv /\ [Next]_vars => IInv'
<1> SUFFICES ASSUME IInv, [Next]_vars PROVE IInv'
  OBVIOUS
<1>1. ASSUME NEW c \in Clients, AcquireAvailable(c) \/ AcquireNew(c) \/ AcquireWaits(c)
      PROVE  IInv'
  BY <1>1, AcquireAvailableStep, AcquireNewStep, AcquireWaitsStep
<1>2. ASSUME NEW c \in Clients, OpenReply(c) \/ OpenFails(c) PROVE IInv'
  BY <1>2, OpenStep
<1>3. ASSUME NEW c \in Clients, Release(c) \/ NextTick(c) \/ Timeout(c) PROVE IInv'
  BY <1>3, ReleaseStep, NextTickStep, TimeoutStep
<1>4. ASSUME NEW c \in Clients, Acquire(c) \/ GiveBack(c) PROVE IInv'
  BY <1>4, AcquireStep, GiveBackStep
<1>5. CASE Created \/ CreateFails
  BY <1>5, CreatedStep, CreateFailsStep
<1>6. CASE \/ Close \/ DrainPool \/ DrainPoolFails \/ Drain \/ Drained \/ ServerChanges
           \/ \E r \in Resources : Reset(r)
  BY <1>6, CloseStep
<1>7. CASE DrainPoolReply \/ Clear
  BY <1>7, ClosedStep
<1>8. CASE UNCHANGED vars
  BY <1>8 DEF vars, IInv, TypeOK, Lent, Places, WaitsForSomething, ClosedWhenIdle, Injective, Elements
<1>9. CASE PoolNext
  BY <1>1, <1>2, <1>3, <1>6, <1>7, <1>9 DEF PoolNext
<1>10. CASE BasePoolNext
  BY <1>4, <1>5, <1>6, <1>7, <1>10 DEF BasePoolNext
<1> QED
  BY <1>6, <1>8, <1>9, <1>10 DEF Next

THEOREM InvariantHolds == Spec => []IInv
BY InitIInv, StepIInv, PTL DEF Spec

\* The state of a pool is well-typed, whatever its size and its clients.
THEOREM PoolTypeCorrect == Spec => []TypeOK
<1>1. IInv => TypeOK
  BY DEF IInv
<1> QED
  BY InvariantHolds, <1>1, PTL

\* Neither pool lends anything twice, or more than max, for any size, any clients
\* and any order of requests, releases, timeouts and failures.
THEOREM LentOnceCorrect == Spec => []LentOnce
<1>1. IInv => LentOnce
  <2> SUFFICES ASSUME IInv PROVE LentOnce
    OBVIOUS
  <2>1. \A r \in Free : \E i \in 1..Len(available) : r = available[i] /\ r \in 1..made
    BY DEF Free, Elements, IInv, Lent
  <2>2. \A r \in Held : \E c \in Clients : r = holds[c] /\ r # 0 /\ holds[c] \in 0..made
    BY DEF Held, IInv, Lent
  <2>3. Free \cup Held \subseteq 1..made
    BY <2>1, <2>2 DEF IInv, TypeOK
  <2>4. Free \cap Held = {}
    BY <2>1, <2>2 DEF IInv, Lent
  <2> QED
    BY <2>3, <2>4 DEF LentOnce, IInv, Lent, Injective
<1> QED
  BY InvariantHolds, <1>1, PTL

\* A request waits only while everything is lent, or with a creation of its own under
\* way, however many creations and openings fail.
THEOREM WaitsForSomethingCorrect == Spec => []WaitsForSomething
<1>1. IInv => WaitsForSomething
  BY DEF IInv
<1> QED
  BY InvariantHolds, <1>1, PTL

\* close() clears a pool that nobody uses, although Pool only counts what is back:
\* what is lent once and counted once is back when the counts agree.
THEOREM ClosedWhenIdleCorrect == Spec => []ClosedWhenIdle
<1>1. IInv => ClosedWhenIdle
  BY DEF IInv
<1> QED
  BY InvariantHolds, <1>1, PTL

=============================================================================
