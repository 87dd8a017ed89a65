--------------------------- MODULE TransfersProofs ---------------------------
(***************************************************************************)
(* Where the data of a transfer go: the quanta of scullc, the I/O memory   *)
(* of lab5_silly.c, the sectors of the RAM disks and the records of the    *)
(* seq files, for any number of processes and requests and for any size of *)
(* the devices.                                                            *)
(***************************************************************************)
EXTENDS MCDevices, FiniteSetTheorems, TLAPS

-----------------------------------------------------------------------------
(* Scullc: a transfer is answered once                                     *)

AnswerTypes ==
  /\ answers \in [Procs -> Nat]
  /\ work \in [Procs -> {"idle", "pending", "free"}]
  /\ call = [p \in Procs |-> call[p]]
  /\ loaded \in BOOLEAN

\* A call that runs has its answer before it, no work item, and its file open.
CallsInv ==
  \A p \in Procs :
    call[p].pc # "user" => answers[p] = 0 /\ work[p] = "idle" /\ p \in opened

AnswersInv == AnswerTypes /\ CallsInv /\ AnsweredOnce

LEMMA AnswersStep == AnswersInv /\ [Quantized!Next]_scullcVars => AnswersInv'
<1> SUFFICES ASSUME AnswersInv, [Quantized!Next]_scullcVars PROVE AnswersInv'
  OBVIOUS
<1> USE DEF AnswersInv, AnswerTypes, CallsInv, AnsweredOnce, Quantized!AnsweredOnce
<1>1. ASSUME NEW p \in Procs,
             Quantized!Open(p) \/ Quantized!OpenTrim(p) \/ Quantized!Release(p)
      PROVE  AnswersInv'
  BY <1>1 DEF Quantized!Open, Quantized!OpenTrim, Quantized!Release
<1>2. ASSUME NEW p \in Procs, NEW quantum, NEW qset, Quantized!Ioctl(p, quantum, qset)
      PROVE  AnswersInv'
  BY <1>2 DEF Quantized!Ioctl
<1>3. ASSUME NEW p \in Procs, NEW op, NEW at, NEW count, Quantized!Start(p, op, at, count)
      PROVE  AnswersInv'
  BY <1>3 DEF Quantized!Start
<1>4. ASSUME NEW p \in Procs,
             Quantized!Interrupted(p) \/ Quantized!DoRead(p) \/ Quantized!DoWrite(p)
      PROVE  AnswersInv'
  <2>1. /\ call[p].pc = "lock"
        /\ call' = [call EXCEPT ![p] = [Quantized!Idle EXCEPT !.pc = "answer"]]
        /\ UNCHANGED <<loaded, opened, work, answers>>
    BY <1>4 DEF Quantized!Interrupted, Quantized!DoRead, Quantized!DoWrite
  <2> QED
    BY <2>1
<1>5. ASSUME NEW p \in Procs, Quantized!Answer(p) \/ Quantized!Defer(p) PROVE AnswersInv'
  <2>1. call[p].pc # "user" /\ call' = [call EXCEPT ![p] = Quantized!Idle]
    BY <1>5 DEF Quantized!Answer, Quantized!Defer
  <2>2. Quantized!Idle.pc = "user"
    BY DEF Quantized!Idle
  <2>3. CASE Quantized!Answer(p)
    BY <2>1, <2>2, <2>3 DEF Quantized!Answer
  <2>4. CASE Quantized!Defer(p)
    BY <2>1, <2>2, <2>4 DEF Quantized!Defer, Quantized!Up
  <2> QED
    BY <1>5, <2>3, <2>4
<1>6. ASSUME NEW p \in Procs, Quantized!Complete(p) \/ Quantized!DeferredEnd(p) PROVE AnswersInv'
  BY <1>6 DEF Quantized!Complete, Quantized!DeferredEnd
<1>7. CASE Quantized!Unload
  <2>1. \A p \in Procs : call[p].pc = "user" /\ work[p] # "pending"
    BY <1>7 DEF Quantized!Unload
  <2>2. loaded' = FALSE /\ UNCHANGED <<opened, call, work, answers>>
    BY <1>7 DEF Quantized!Unload
  <2> QED
    BY <2>1, <2>2
<1>8. CASE UNCHANGED scullcVars
  BY <1>8 DEF scullcVars
<1> QED
  BY <1>1, <1>2, <1>3, <1>4, <1>5, <1>6, <1>7, <1>8 DEF Quantized!Next

\* scullc_defer_op and scullc_do_deferred_op of lab6_aio.c: every transfer is
\* answered at most once, and the module is not unloaded while a work item still
\* has to answer, for any number of processes.
THEOREM TransfersAnsweredOnce == Quantized!Spec => []AnsweredOnce
<1>1. Quantized!Init => AnswersInv
  <2> SUFFICES ASSUME Quantized!Init PROVE AnswersInv
    OBVIOUS
  <2>1. AnswerTypes
    BY DEF Quantized!Init, AnswerTypes
  <2>2. CallsInv
    BY DEF Quantized!Init, Quantized!Idle, CallsInv
  <2>3. AnsweredOnce
    BY DEF Quantized!Init, AnsweredOnce, Quantized!AnsweredOnce
  <2> QED
    BY <2>1, <2>2, <2>3 DEF AnswersInv
<1>2. AnswersInv => AnsweredOnce
  BY DEF AnswersInv
<1> QED
  BY <1>1, <1>2, AnswersStep, PTL DEF Quantized!Spec, Quantized!vars, scullcVars

-----------------------------------------------------------------------------
(* Scullc: no quantum is lost                                              *)

\* The place of a position lies in the array, whatever its item.
LEMMA QuotientBelow ==
  ASSUME NEW x \in Nat, NEW q \in Nat \ {0}, NEW k \in Nat \ {0}, x < q * k
  PROVE  x \div q \in 0..(k - 1)
<1> DEFINE d == x \div q
<1>1. d \in Nat /\ q * d <= x
  OBVIOUS
<1> HIDE DEF d
<1>2. ASSUME d >= k PROVE FALSE
  <2>1. PICK e \in Nat : d = k + e
    BY <1>1, <1>2
  <2>2. q * d = q * k + q * e /\ q * e \in Nat /\ q * k \in Nat
    BY <2>1
  <2> QED
    BY <1>1, <2>2
<1> QED
  BY <1>1, <1>2 DEF d

LEMMA PlaceInArray ==
  ASSUME NEW c, c.pos \in Nat, c.quantum \in Nat \ {0}, c.qset \in Nat \ {0}
  PROVE  Quantized!Item(c) \in Nat /\ Quantized!Spos(c) \in 0..(c.qset - 1)
<1> DEFINE n == c.quantum * c.qset
<1>1. n \in Nat \ {0}
  OBVIOUS
<1> HIDE DEF n
<1>2. c.pos % n \in Nat /\ c.pos % n < n /\ c.pos \div n \in Nat
  BY <1>1
<1>3. (c.pos % n) \div c.quantum \in 0..(c.qset - 1)
  <2> DEFINE r == c.pos % n
  <2>1. r \in Nat /\ r < c.quantum * c.qset
    BY <1>2 DEF n
  <2> HIDE DEF r
  <2>2. r \div c.quantum \in 0..(c.qset - 1)
    BY <2>1, QuotientBelow
  <2> QED
    BY <2>2 DEF r
<1> QED
  BY <1>2, <1>3 DEF Quantized!Item, Quantized!Spos, n

\* scullc_follow appends empty items and leaves the others alone.
LEMMA FollowList ==
  ASSUME NEW items \in Seq(Seq(BOOLEAN)), NEW m \in Nat
  PROVE  /\ Quantized!Follow(items, m) \in Seq(Seq(BOOLEAN))
         /\ m + 1 \in 1..Len(Quantized!Follow(items, m))
         /\ Len(items) <= Len(Quantized!Follow(items, m))
         /\ \A i \in 1..Len(Quantized!Follow(items, m)) :
              Quantized!Follow(items, m)[i] = IF i <= Len(items) THEN items[i] ELSE <<>>
<1> DEFINE k == Quantized!Max({Len(items), m + 1})
           f == [i \in 1..k |-> IF i <= Len(items) THEN items[i] ELSE <<>>]
<1>1. k \in Nat /\ k >= Len(items) /\ k >= m + 1
  <2>1. \E x \in {Len(items), m + 1} : \A y \in {Len(items), m + 1} : x >= y
    OBVIOUS
  <2>2. /\ k \in {Len(items), m + 1}
        /\ \A y \in {Len(items), m + 1} : k >= y
    BY <2>1 DEF Quantized!Max
  <2> QED
    BY <2>2
<1> HIDE DEF k
<1>2. \A i \in 1..k : (IF i <= Len(items) THEN items[i] ELSE <<>>) \in Seq(BOOLEAN)
  <2>1. \A i \in 1..k : i <= Len(items) => items[i] \in Seq(BOOLEAN)
    BY <1>1
  <2>2. <<>> \in Seq(BOOLEAN)
    OBVIOUS
  <2> QED
    BY <2>1, <2>2
<1>3. f \in Seq(Seq(BOOLEAN)) /\ Len(f) = k
  BY <1>1, <1>2
<1>4. Quantized!Follow(items, m) = f
  BY DEF Quantized!Follow, k
<1> QED
  BY <1>1, <1>3, <1>4

\* The entries of the arrays that point to a quantum.
Places(items, q) ==
  {e \in (DOMAIN items) \X (1..q) : e[2] <= Len(items[e[1]]) /\ items[e[1]][e[2]]}

\* A list whose arrays have the length q.
Arrays(items, q) ==
  /\ items \in Seq(Seq(BOOLEAN))
  /\ \A i \in 1..Len(items) : items[i] = <<>> \/ Len(items[i]) = q

LEMMA PlacesCounted ==
  ASSUME NEW items \in Seq(Seq(BOOLEAN)), NEW q \in Nat
  PROVE  /\ IsFiniteSet(Places(items, q))
         /\ Quantized!Pointed(items, q) = Cardinality(Places(items, q))
<1>1. IsFiniteSet(1..Len(items)) /\ IsFiniteSet(1..q)
  BY FS_Interval
<1>2. IsFiniteSet((1..Len(items)) \X (1..q))
  BY <1>1, FS_Product
<1>3. Places(items, q) \subseteq (1..Len(items)) \X (1..q)
  BY DEF Places
<1>4. \A S : Quantized!Cardinality(S) = Cardinality(S)
  BY DEF Quantized!Cardinality, Cardinality
<1> QED
  BY <1>2, <1>3, <1>4, FS_Subset DEF Quantized!Pointed, Places

LEMMA InPlaces ==
  ASSUME NEW items \in Seq(Seq(BOOLEAN)), NEW q \in Nat, NEW i, NEW j
  PROVE  <<i, j>> \in Places(items, q) <=>
           i \in 1..Len(items) /\ j \in 1..q /\ j <= Len(items[i]) /\ items[i][j]
BY DEF Places

LEMMA PlacesPairs ==
  ASSUME NEW items, NEW q, NEW e \in Places(items, q)
  PROVE  \E i, j : e = <<i, j>>
BY DEF Places

LEMMA SamePairs ==
  ASSUME NEW one, NEW two, NEW q,
         \A i, j : <<i, j>> \in Places(one, q) <=> <<i, j>> \in Places(two, q)
  PROVE  Places(one, q) = Places(two, q)
<1>1. ASSUME NEW e \in Places(one, q) PROVE e \in Places(two, q)
  BY <1>1, PlacesPairs
<1>2. ASSUME NEW e \in Places(two, q) PROVE e \in Places(one, q)
  BY <1>2, PlacesPairs
<1> QED
  BY <1>1, <1>2

\* What a write does to the list that scullc_follow has extended and to the array of
\* its n-th item, which may be new: a new quantum adds one place, which was empty.
WriteEnds(items, q, list, n, s, data) ==
  /\ Arrays([list EXCEPT ![n] = data], q)
  /\ Places([list EXCEPT ![n] = data], q) = Places(items, q)
  /\ s \in 1..Len(data) /\ data[s] = FALSE =>
       /\ Arrays([list EXCEPT ![n] = [data EXCEPT ![s] = TRUE]], q)
       /\ Places([list EXCEPT ![n] = [data EXCEPT ![s] = TRUE]], q)
            = Places(items, q) \cup {<<n, s>>}
       /\ <<n, s>> \notin Places(items, q)

LEMMA WritePlaces ==
  ASSUME NEW items, NEW q \in Nat \ {0}, Arrays(items, q),
         NEW list \in Seq(Seq(BOOLEAN)), Len(items) <= Len(list),
         \A i \in 1..Len(list) : list[i] = IF i <= Len(items) THEN items[i] ELSE <<>>,
         NEW n \in 1..Len(list), NEW s \in 1..q,
         NEW data \in Seq(BOOLEAN),
         data = list[n] \/ (list[n] = <<>> /\ Len(data) = q /\ \A j \in 1..q : data[j] = FALSE)
  PROVE  WriteEnds(items, q, list, n, s, data)
<1> items \in Seq(Seq(BOOLEAN)) /\ \A i \in 1..Len(items) : items[i] = <<>> \/ Len(items[i]) = q
  BY DEF Arrays
<1>1. \A i \in 1..Len(list) : list[i] = <<>> \/ Len(list[i]) = q
  OBVIOUS
<1>2. data = <<>> \/ Len(data) = q
  BY <1>1
<1> DEFINE same == [list EXCEPT ![n] = data]
<1>3. /\ same \in Seq(Seq(BOOLEAN)) /\ Len(same) = Len(list)
      /\ \A i \in 1..Len(list) : same[i] = IF i = n THEN data ELSE list[i]
  OBVIOUS
<1>4. Arrays(same, q)
  BY <1>1, <1>2, <1>3 DEF Arrays
<1>5. Places(same, q) = Places(items, q)
  <2>1. ASSUME NEW i \in 1..Len(list), NEW j \in 1..q
        PROVE  (j <= Len(same[i]) /\ same[i][j])
                 <=> (i <= Len(items) /\ j <= Len(items[i]) /\ items[i][j])
    <3>1. CASE i # n
      BY <1>3, <3>1
    <3>2. CASE i = n /\ data = list[n]
      BY <1>3, <3>2
    <3>3. CASE i = n /\ list[n] = <<>> /\ \A k \in 1..q : data[k] = FALSE
      <4>1. same[i] = data /\ data[j] = FALSE
        BY <1>3, <3>3
      <4>2. i <= Len(items) => items[i] = <<>>
        BY <3>3
      <4>3. i <= Len(items) => ~(j <= Len(items[i]))
        BY <4>2
      <4> QED
        BY <4>1, <4>3
    <3> QED
      BY <3>1, <3>2, <3>3
  <2>2. \A i, j : <<i, j>> \in Places(same, q) <=> <<i, j>> \in Places(items, q)
    <3> SUFFICES ASSUME NEW i, NEW j
                 PROVE  <<i, j>> \in Places(same, q) <=> <<i, j>> \in Places(items, q)
      OBVIOUS
    <3>1. i \in 1..Len(items) <=> i \in 1..Len(list) /\ i <= Len(items)
      OBVIOUS
    <3> QED
      BY <1>3, <2>1, <3>1, InPlaces
  <2> HIDE DEF same
  <2> QED
    BY <2>2, SamePairs
<1>6. ASSUME s \in 1..Len(data), data[s] = FALSE
      PROVE  /\ Arrays([list EXCEPT ![n] = [data EXCEPT ![s] = TRUE]], q)
             /\ Places([list EXCEPT ![n] = [data EXCEPT ![s] = TRUE]], q)
                  = Places(items, q) \cup {<<n, s>>}
             /\ <<n, s>> \notin Places(items, q)
  <2> DEFINE more == [data EXCEPT ![s] = TRUE]
             new == [list EXCEPT ![n] = more]
  <2>1. /\ more \in Seq(BOOLEAN) /\ Len(more) = Len(data)
        /\ \A j \in 1..Len(data) : j # s => more[j] = data[j]
        /\ more[s] = TRUE
    <3>1. TRUE \in BOOLEAN
      OBVIOUS
    <3>2. \A b \in BOOLEAN : [data EXCEPT ![s] = b] \in Seq(BOOLEAN)
      BY <1>6
    <3>3. \A b \in BOOLEAN : Len([data EXCEPT ![s] = b]) = Len(data)
      BY <1>6
    <3> QED
      BY <1>6, <3>1, <3>2, <3>3
  <2> HIDE DEF more
  <2>2. /\ new \in Seq(Seq(BOOLEAN)) /\ Len(new) = Len(list)
        /\ \A i \in 1..Len(list) : new[i] = IF i = n THEN more ELSE list[i]
    BY <2>1
  <2> HIDE DEF new
  <2>3. Arrays(new, q)
    <3>1. Len(more) = q
      BY <1>2, <1>6, <2>1
    <3>2. \A i \in 1..Len(new) : new[i] = <<>> \/ Len(new[i]) = q
      BY <1>1, <2>2, <3>1
    <3> QED
      BY <2>2, <3>2 DEF Arrays
  <2>4. ASSUME NEW i \in 1..Len(list), NEW j \in 1..q
        PROVE  (j <= Len(new[i]) /\ new[i][j])
                 <=> (j <= Len(same[i]) /\ same[i][j]) \/ (i = n /\ j = s)
    <3>1. CASE i # n
      BY <1>3, <2>2, <3>1
    <3>2. CASE i = n /\ j # s
      <4>1. new[i] = more /\ same[i] = data
        BY <1>3, <2>2, <3>2
      <4> QED
        BY <2>1, <3>2, <4>1
    <3>3. CASE i = n /\ j = s
      <4>1. new[i] = more
        BY <2>2, <3>3
      <4> QED
        BY <1>6, <2>1, <3>3, <4>1
    <3> QED
      BY <3>1, <3>2, <3>3
  <2>5. \A i, j : <<i, j>> \in Places(new, q)
                 <=> <<i, j>> \in Places(same, q) \/ (i = n /\ j = s)
    <3> SUFFICES ASSUME NEW i, NEW j
                 PROVE  <<i, j>> \in Places(new, q)
                          <=> <<i, j>> \in Places(same, q) \/ (i = n /\ j = s)
      OBVIOUS
    <3>1. <<i, j>> \in Places(new, q) <=>
            i \in 1..Len(list) /\ j \in 1..q /\ j <= Len(new[i]) /\ new[i][j]
      BY <2>2, InPlaces
    <3>2. <<i, j>> \in Places(same, q) <=>
            i \in 1..Len(list) /\ j \in 1..q /\ j <= Len(same[i]) /\ same[i][j]
      BY <1>3, InPlaces
    <3> HIDE DEF same
    <3> QED
      BY <2>4, <3>1, <3>2
  <2>6. <<n, s>> \notin Places(same, q)
    BY <1>3, <1>6 DEF Places
  <2> HIDE DEF same
  <2>7. Places(new, q) = Places(same, q) \cup {<<n, s>>}
    <3>1. Places(new, q) \subseteq Places(same, q) \cup {<<n, s>>}
      <4> SUFFICES ASSUME NEW e \in Places(new, q) PROVE e \in Places(same, q) \cup {<<n, s>>}
        OBVIOUS
      <4>1. PICK i, j : e = <<i, j>>
        BY PlacesPairs
      <4> QED
        BY <2>5, <4>1
    <3>2. Places(same, q) \subseteq Places(new, q)
      <4> SUFFICES ASSUME NEW e \in Places(same, q) PROVE e \in Places(new, q)
        OBVIOUS
      <4>1. PICK i, j : e = <<i, j>>
        BY PlacesPairs
      <4> QED
        BY <2>5, <4>1
    <3> QED
      BY <2>5, <3>1, <3>2
  <2> QED
    BY <1>5, <2>3, <2>6, <2>7 DEF new, more
<1> QED
  BY <1>4, <1>5, <1>6 DEF WriteEnds

QuantaTypes ==
  /\ stale \in BOOLEAN /\ loaded \in BOOLEAN
  /\ scullc_quantum \in Nat \ {0} /\ scullc_qset \in Nat \ {0}
  /\ dev = [quantum |-> dev.quantum, qset |-> dev.qset, items |-> dev.items]
  /\ dev.quantum \in Nat \ {0} /\ dev.qset \in Nat \ {0}
  /\ call = [p \in Procs |-> call[p]]
  /\ \A p \in Procs : call[p].pc = "lock" =>
       call[p].pos \in Nat /\ call[p].quantum \in Nat \ {0} /\ call[p].qset \in Nat \ {0}

\* As long as no transfer has used a geometry that was replaced, every array has the
\* length that scullc_trim will go through.
QuantaInv ==
  /\ QuantaTypes
  /\ ~stale =>
       /\ Arrays(dev.items, dev.qset)
       /\ objects = Cardinality(Places(dev.items, dev.qset))
       /\ ~loaded => objects = 0
       /\ "array" \notin beyond

\* What scullc_trim goes through and what it leaves.
LEMMA ArraysLong ==
  ASSUME NEW items, NEW q \in Nat, Arrays(items, q)
  PROVE  ~\E i \in DOMAIN items : items[i] # <<>> /\ Len(items[i]) < q
BY DEF Arrays

LEMMA EmptyList ==
  ASSUME NEW q \in Nat
  PROVE  Arrays(<< <<>> >>, q) /\ Places(<< <<>> >>, q) = {}
<1> DEFINE one == << <<>> >>
<1>1. one \in Seq(Seq(BOOLEAN)) /\ Len(one) = 1 /\ one[1] = <<>>
  OBVIOUS
<1> HIDE DEF one
<1>2. Arrays(one, q)
  BY <1>1 DEF Arrays
<1>3. ASSUME NEW i, NEW j, <<i, j>> \in Places(one, q) PROVE FALSE
  <2>1. i \in 1..Len(one) /\ j \in 1..q /\ j <= Len(one[i])
    BY <1>1, <1>3, InPlaces
  <2>2. one[i] = <<>>
    BY <1>1, <2>1
  <2> QED
    BY <2>1, <2>2
<1>4. Places(one, q) = {}
  BY <1>3, PlacesPairs
<1> QED
  BY <1>2, <1>4 DEF one

\* A new array points to no quantum.
LEMMA NewArray ==
  ASSUME NEW q \in Nat
  PROVE  /\ [k \in 1..q |-> FALSE] \in Seq(BOOLEAN) /\ Len([k \in 1..q |-> FALSE]) = q
         /\ \A j \in 1..q : [k \in 1..q |-> FALSE][j] = FALSE
<1>1. \A b \in BOOLEAN : [k \in 1..q |-> b] \in Seq(BOOLEAN) /\ Len([k \in 1..q |-> b]) = q
  OBVIOUS
<1>2. FALSE \in BOOLEAN
  OBVIOUS
<1> QED
  BY <1>1, <1>2

\* scullc_trim finds every quantum and leaves an empty list.
LEMMA TrimAll ==
  ASSUME QuantaInv, Quantized!Trim(dev), stale' = stale, call' = call,
         loaded' \in BOOLEAN, UNCHANGED <<scullc_quantum, scullc_qset>>
  PROVE  QuantaInv'
<1>1. /\ dev' = [quantum |-> scullc_quantum, qset |-> scullc_qset, items |-> << <<>> >>]
      /\ objects' = objects - Quantized!Pointed(dev.items, dev.qset)
      /\ beyond' = beyond \cup
           IF \E i \in DOMAIN dev.items : dev.items[i] # <<>> /\ Len(dev.items[i]) < dev.qset
           THEN {"array"} ELSE {}
  BY DEF Quantized!Trim
<1>2. /\ dev'.quantum = scullc_quantum /\ dev'.qset = scullc_qset
      /\ dev'.items = << <<>> >>
      /\ dev' = [quantum |-> dev'.quantum, qset |-> dev'.qset, items |-> dev'.items]
  BY <1>1
<1>3. QuantaTypes'
  BY <1>2 DEF QuantaInv, QuantaTypes
<1>4. ASSUME ~stale
      PROVE  /\ Arrays(dev'.items, dev'.qset) /\ objects' = 0 /\ "array" \notin beyond'
             /\ Places(dev'.items, dev'.qset) = {}
  <2>1. dev.qset \in Nat /\ dev.items \in Seq(Seq(BOOLEAN)) /\ Arrays(dev.items, dev.qset)
    BY <1>4 DEF QuantaInv, QuantaTypes, Arrays
  <2>2. objects' = 0
    <3>1. Cardinality(Places(dev.items, dev.qset)) \in Nat
      BY <2>1, PlacesCounted, FS_CardinalityType
    <3> QED
      BY <1>1, <1>4, <2>1, <3>1, PlacesCounted DEF QuantaInv
  <2>3. ~\E i \in DOMAIN dev.items : dev.items[i] # <<>> /\ Len(dev.items[i]) < dev.qset
    BY <2>1, ArraysLong
  <2>4. "array" \notin beyond'
    BY <1>1, <1>4, <2>3 DEF QuantaInv
  <2>5. Arrays(<< <<>> >>, scullc_qset) /\ Places(<< <<>> >>, scullc_qset) = {}
    BY EmptyList DEF QuantaInv, QuantaTypes
  <2> QED
    BY <1>2, <2>2, <2>4, <2>5
<1> QED
  BY <1>3, <1>4, FS_EmptySet DEF QuantaInv

\* scullc_do_write, with the array and the quantum that it finds or allocates.
LEMMA WriteCounted ==
  ASSUME QuantaInv, NEW p \in Procs, Quantized!DoWrite(p)
  PROVE  QuantaInv'
<1> DEFINE c == call[p]
           q == dev.qset
           list == Quantized!Follow(dev.items, Quantized!Item(c))
           n == Quantized!Item(c) + 1
           s == Quantized!Spos(c) + 1
<1>1. PICK gotArray \in BOOLEAN, gotObject \in BOOLEAN :
        LET data == IF list[n] # <<>> \/ ~gotArray THEN list[n] ELSE [k \in 1..c.qset |-> FALSE]
            inside == s \in DOMAIN data
            fresh == inside /\ ~data[s] /\ gotObject /\ objects < MaxObjects
            there == inside /\ (data[s] \/ fresh)
            count == Quantized!Min({c.count, c.quantum - Quantized!Qpos(c)})
        IN
        /\ Quantized!Up /\ c.pc = "lock" /\ c.op = "write"
        /\ call' = [call EXCEPT ![p] = [Quantized!Idle EXCEPT !.pc = "answer"]]
        /\ stale' = (stale \/ Quantized!IsStale(c))
        /\ dev' = [dev EXCEPT !.items =
                     [list EXCEPT ![n] = IF fresh THEN [data EXCEPT ![s] = TRUE] ELSE data]]
        /\ objects' = objects + IF fresh THEN 1 ELSE 0
        /\ beyond' = beyond
             \cup (IF data # <<>> /\ ~inside THEN {"array"} ELSE {})
             \cup (IF fresh /\ scullc_quantum > Quantum0 THEN {"clear"} ELSE {})
             \cup (IF there /\ Quantized!Qpos(c) + count > Quantum0 THEN {"copy"} ELSE {})
        /\ UNCHANGED <<loaded, scullc_quantum, scullc_qset, opened, work, answers>>
  BY Zenon DEF Quantized!DoWrite
<1> DEFINE data == IF list[n] # <<>> \/ ~gotArray THEN list[n] ELSE [k \in 1..c.qset |-> FALSE]
           fresh == s \in DOMAIN data /\ ~data[s] /\ gotObject /\ objects < MaxObjects
           new == [list EXCEPT ![n] = IF fresh THEN [data EXCEPT ![s] = TRUE] ELSE data]
<1>2. /\ Quantized!Up /\ c.pc = "lock"
      /\ call' = [call EXCEPT ![p] = [Quantized!Idle EXCEPT !.pc = "answer"]]
      /\ dev' = [dev EXCEPT !.items = new]
      /\ objects' = objects + IF fresh THEN 1 ELSE 0
      /\ UNCHANGED <<loaded, scullc_quantum, scullc_qset>>
  BY <1>1
<1>3. stale' = (stale \/ Quantized!IsStale(c))
  BY <1>1
<1>4. "array" \in beyond' => "array" \in beyond \/ (data # <<>> /\ s \notin DOMAIN data)
  BY <1>1
<1> HIDE DEF new, fresh, data
<1>5. QuantaTypes'
  <2>1. stale' \in BOOLEAN
    BY <1>3 DEF QuantaInv, QuantaTypes, Quantized!IsStale
  <2>2. /\ dev'.quantum = dev.quantum /\ dev'.qset = dev.qset /\ dev'.items = new
        /\ dev' = [quantum |-> dev'.quantum, qset |-> dev'.qset, items |-> dev'.items]
    BY <1>2 DEF QuantaInv, QuantaTypes
  <2>3. [Quantized!Idle EXCEPT !.pc = "answer"].pc = "answer"
    BY DEF Quantized!Idle
  <2>4. /\ call' = [r \in Procs |-> call'[r]]
        /\ \A r \in Procs : call'[r].pc = "lock" => call'[r] = call[r]
    BY <1>2, <2>3 DEF QuantaInv, QuantaTypes
  <2> QED
    BY <1>2, <2>1, <2>2, <2>4 DEF QuantaInv, QuantaTypes
<1>6. ASSUME ~stale'
      PROVE  /\ Arrays(dev'.items, dev'.qset)
             /\ objects' = Cardinality(Places(dev'.items, dev'.qset))
             /\ ~loaded' => objects' = 0
             /\ "array" \notin beyond'
  <2>1. ~stale /\ c.quantum = dev.quantum /\ c.qset = dev.qset
    BY <1>3, <1>6 DEF Quantized!IsStale
  <2>2. c.pos \in Nat /\ c.quantum \in Nat \ {0} /\ c.qset \in Nat \ {0} /\ q \in Nat \ {0}
    BY <1>2 DEF QuantaInv, QuantaTypes
  <2>3. Quantized!Item(c) \in Nat /\ s \in 1..q
    BY <2>1, <2>2, PlaceInArray
  <2>4. Arrays(dev.items, q) /\ dev.items \in Seq(Seq(BOOLEAN))
    BY <2>1 DEF QuantaInv, Arrays
  <2>5. /\ list \in Seq(Seq(BOOLEAN)) /\ n \in 1..Len(list) /\ Len(dev.items) <= Len(list)
        /\ \A i \in 1..Len(list) : list[i] = IF i <= Len(dev.items) THEN dev.items[i] ELSE <<>>
    BY <2>3, <2>4, FollowList
  <2> HIDE DEF list
  <2>6. \/ data = list[n]
        \/ list[n] = <<>> /\ data = [k \in 1..q |-> FALSE]
    BY <2>1 DEF data
  <2>7. /\ [k \in 1..q |-> FALSE] \in Seq(BOOLEAN) /\ Len([k \in 1..q |-> FALSE]) = q
        /\ \A j \in 1..q : [k \in 1..q |-> FALSE][j] = FALSE
    BY <2>2, NewArray
  <2>8. list[n] \in Seq(BOOLEAN)
    BY <2>5
  <2>9. /\ data \in Seq(BOOLEAN)
        /\ data = list[n] \/ (list[n] = <<>> /\ Len(data) = q /\ \A j \in 1..q : data[j] = FALSE)
    BY <2>6, <2>7, <2>8
  <2>10. data = <<>> \/ Len(data) = q
    BY <2>4, <2>5, <2>9 DEF Arrays
  <2>11. "array" \notin beyond'
    <3>1. data # <<>> => s \in DOMAIN data
      BY <2>3, <2>9, <2>10
    <3> QED
      BY <1>4, <2>1, <3>1 DEF QuantaInv
  <2>12. dev'.qset = q /\ dev'.items = new /\ loaded' = loaded /\ loaded
    BY <1>2 DEF QuantaInv, QuantaTypes, Quantized!Up
  <2>13. IsFiniteSet(Places(dev.items, q)) /\ objects = Cardinality(Places(dev.items, q))
    BY <2>1, <2>2, <2>4, PlacesCounted DEF QuantaInv
  <2>16. /\ Arrays([list EXCEPT ![n] = data], q)
         /\ Places([list EXCEPT ![n] = data], q) = Places(dev.items, q)
         /\ s \in 1..Len(data) /\ data[s] = FALSE =>
              /\ Arrays([list EXCEPT ![n] = [data EXCEPT ![s] = TRUE]], q)
              /\ Places([list EXCEPT ![n] = [data EXCEPT ![s] = TRUE]], q)
                   = Places(dev.items, q) \cup {<<n, s>>}
              /\ <<n, s>> \notin Places(dev.items, q)
    <3>1. q \in Nat \ {0} /\ s \in 1..q
      BY <2>2, <2>3
    <3> HIDE DEF n, s, q, c
    <3>2. PICK items : items = dev.items
      OBVIOUS
    <3>3. /\ Arrays(items, q) /\ Len(items) <= Len(list)
          /\ \A i \in 1..Len(list) : list[i] = IF i <= Len(items) THEN items[i] ELSE <<>>
      BY <2>4, <2>5, <3>2
    <3>4. list \in Seq(Seq(BOOLEAN)) /\ n \in 1..Len(list)
      BY <2>5
    <3>5. WriteEnds(items, q, list, n, s, data)
      BY <2>9, <3>1, <3>3, <3>4, WritePlaces
    <3> QED
      BY <3>2, <3>5 DEF WriteEnds
  <2>14. CASE fresh
    <3>1. s \in 1..Len(data) /\ data[s] = FALSE /\ new = [list EXCEPT ![n] = [data EXCEPT ![s] = TRUE]]
      <4>1. s \in 1..Len(data) /\ ~data[s]
        BY <2>9, <2>14 DEF fresh
      <4>2. data[s] \in BOOLEAN
        BY <2>9, <4>1
      <4>3. new = [list EXCEPT ![n] = [data EXCEPT ![s] = TRUE]]
        BY <2>14 DEF new
      <4> QED
        BY <4>1, <4>2, <4>3
    <3>2. Arrays(new, q) /\ Places(new, q) = Places(dev.items, q) \cup {<<n, s>>}
          /\ <<n, s>> \notin Places(dev.items, q)
      BY <2>16, <3>1
    <3>3. Cardinality(Places(new, q)) = Cardinality(Places(dev.items, q)) + 1
      BY <2>13, <3>2, FS_AddElement
    <3> QED
      BY <1>2, <2>11, <2>12, <2>13, <2>14, <3>2, <3>3
  <2>15. CASE ~fresh
    <3>1. new = [list EXCEPT ![n] = data]
      BY <2>15 DEF new
    <3>2. Arrays(new, q) /\ Places(new, q) = Places(dev.items, q)
      BY <2>16, <3>1
    <3>3. objects' = objects
      <4>1. objects \in Int
        BY <2>13, FS_CardinalityType
      <4> QED
        BY <1>2, <2>15, <4>1
    <3> QED
      BY <2>11, <2>12, <2>13, <3>2, <3>3
  <2> QED
    BY <2>14, <2>15
<1> QED
  BY <1>5, <1>6 DEF QuantaInv

LEMMA QuantaStep == QuantaInv /\ [Quantized!Next]_scullcVars => QuantaInv'
<1> SUFFICES ASSUME QuantaInv, [Quantized!Next]_scullcVars PROVE QuantaInv'
  OBVIOUS
<1>0. CASE UNCHANGED <<stale, loaded, scullc_quantum, scullc_qset, dev, objects, beyond, call>>
  BY <1>0 DEF QuantaInv, QuantaTypes
<1>1. ASSUME NEW p \in Procs,
             Quantized!Open(p) \/ Quantized!Release(p)
             \/ Quantized!Complete(p) \/ Quantized!DeferredEnd(p)
      PROVE  QuantaInv'
  BY <1>0, <1>1 DEF Quantized!Open, Quantized!Release, Quantized!Complete, Quantized!DeferredEnd
<1>2. ASSUME NEW p \in Procs, Quantized!OpenTrim(p) PROVE QuantaInv'
  <2>1. loaded' \in BOOLEAN
    BY <1>2 DEF Quantized!OpenTrim, QuantaInv, QuantaTypes
  <2> QED
    BY <1>2, <2>1, TrimAll DEF Quantized!OpenTrim
<1>3. ASSUME NEW p \in Procs, NEW quantum \in Quanta, NEW qset \in Qsets,
             Quantized!Ioctl(p, quantum, qset)
      PROVE  QuantaInv'
  <2>1. /\ scullc_quantum' \in Nat \ {0} /\ scullc_qset' \in Nat \ {0}
        /\ UNCHANGED <<stale, loaded, dev, objects, beyond, call>>
    BY <1>3, MCDevicesAssumption DEF Quantized!Ioctl
  <2> QED
    BY <2>1 DEF QuantaInv, QuantaTypes
<1>4. ASSUME NEW p \in Procs, NEW op, NEW at \in Positions, NEW count,
             Quantized!Start(p, op, at, count)
      PROVE  QuantaInv'
  <2> DEFINE new == [pc |-> "lock", op |-> op, quantum |-> dev.quantum,
                     qset |-> dev.qset, pos |-> at, count |-> count]
  <2>1. /\ call' = [call EXCEPT ![p] = new]
        /\ UNCHANGED <<stale, loaded, scullc_quantum, scullc_qset, dev, objects, beyond>>
    BY <1>4 DEF Quantized!Start
  <2>2. new.pos \in Nat /\ new.quantum \in Nat \ {0} /\ new.qset \in Nat \ {0}
    BY MCDevicesAssumption DEF QuantaInv, QuantaTypes
  <2> HIDE DEF new
  <2>3. QuantaTypes'
    BY <2>1, <2>2 DEF QuantaInv, QuantaTypes
  <2> QED
    BY <2>1, <2>3 DEF QuantaInv
<1>5. ASSUME NEW p \in Procs, NEW last,
             call' = [call EXCEPT ![p] = last], last.pc # "lock",
             UNCHANGED <<stale, loaded, scullc_quantum, scullc_qset, dev, objects, beyond>>
      PROVE  QuantaInv'
  <2>1. QuantaTypes'
    BY <1>5 DEF QuantaInv, QuantaTypes
  <2> QED
    BY <1>5, <2>1 DEF QuantaInv
<1>6. [Quantized!Idle EXCEPT !.pc = "answer"].pc # "lock" /\ Quantized!Idle.pc # "lock"
  BY DEF Quantized!Idle
<1>7. ASSUME NEW p \in Procs, Quantized!Interrupted(p) \/ Quantized!DoRead(p) PROVE QuantaInv'
  <2>1. /\ call' = [call EXCEPT ![p] = [Quantized!Idle EXCEPT !.pc = "answer"]]
        /\ UNCHANGED <<stale, loaded, scullc_quantum, scullc_qset, dev, objects, beyond>>
    BY <1>7 DEF Quantized!Interrupted, Quantized!DoRead
  <2> QED
    BY <1>5, <1>6, <2>1
<1>8. ASSUME NEW p \in Procs, Quantized!Answer(p) \/ Quantized!Defer(p) PROVE QuantaInv'
  <2>1. /\ call' = [call EXCEPT ![p] = Quantized!Idle]
        /\ UNCHANGED <<stale, loaded, scullc_quantum, scullc_qset, dev, objects, beyond>>
    BY <1>8 DEF Quantized!Answer, Quantized!Defer
  <2> QED
    BY <1>5, <1>6, <2>1
<1>9. CASE Quantized!Unload
  <2>1. loaded' \in BOOLEAN
    BY <1>9 DEF Quantized!Unload
  <2> QED
    BY <1>9, <2>1, TrimAll DEF Quantized!Unload
<1>10. CASE UNCHANGED scullcVars
  BY <1>0, <1>10 DEF scullcVars
<1> QED
  BY <1>1, <1>2, <1>3, <1>4, <1>7, <1>8, <1>9, <1>10, WriteCounted DEF Quantized!Next

\* scullc_trim and scullc_do_write of lab6_aio.c: every quantum that was allocated is
\* in the list that the next trim goes through, and none is left when the module
\* is gone, for any values of quantum and qset and any number of processes, unless
\* a transfer used a geometry that had been replaced.
THEOREM QuantaNeverLost == Quantized!Spec => []NoQuantumLost
<1>1. Quantized!Init => QuantaInv
  <2> SUFFICES ASSUME Quantized!Init PROVE QuantaInv
    OBVIOUS
  <2>1. /\ dev.quantum = Quantum0 /\ dev.qset = Qset0 /\ dev.items = << <<>> >>
        /\ dev = [quantum |-> dev.quantum, qset |-> dev.qset, items |-> dev.items]
        /\ Quantum0 \in Nat \ {0} /\ Qset0 \in Nat \ {0}
        /\ scullc_quantum = Quantum0 /\ scullc_qset = Qset0
    BY MCDevicesAssumption DEF Quantized!Init
  <2>2. stale \in BOOLEAN /\ loaded \in BOOLEAN
    BY DEF Quantized!Init
  <2>3. Quantized!Idle.pc # "lock"
    BY DEF Quantized!Idle
  <2>4. call = [p \in Procs |-> Quantized!Idle]
    BY DEF Quantized!Init
  <2>5. QuantaTypes
    BY <2>1, <2>2, <2>3, <2>4 DEF QuantaTypes
  <2>6. Arrays(dev.items, dev.qset) /\ Places(dev.items, dev.qset) = {}
    BY <2>1, EmptyList
  <2>7. objects = 0 /\ "array" \notin beyond
    BY DEF Quantized!Init
  <2> QED
    BY <2>5, <2>6, <2>7, FS_EmptySet DEF QuantaInv
<1>2. QuantaInv => NoQuantumLost
  BY PlacesCounted
    DEF QuantaInv, QuantaTypes, Arrays, NoQuantumLost, Quantized!NoQuantumLost
<1> QED
  BY <1>1, <1>2, QuantaStep, PTL DEF Quantized!Spec, Quantized!vars, scullcVars

-----------------------------------------------------------------------------
(* Silly: a transfer stays in the window                                   *)

\* The bytes that a call transfers, when kmalloc has memory for them: the wrapped
\* count of a position beyond the window is more than kmalloc can give.
LEMMA CountInside ==
  ASSUME s_pos \in Int, s_pos >= 0, s_pos < Window + Word - KmallocMax, NEW asked \in Nat,
         IoMemory!Count(s_pos, asked) <= KmallocMax
  PROVE  /\ IoMemory!Count(s_pos, asked) \in Nat
         /\ s_pos + IoMemory!Count(s_pos, asked) <= Window
<1> /\ Window \in Nat /\ Window < Word /\ Word \in Nat
    /\ KmallocMax \in Nat /\ KmallocMax < Word
  BY MCDevicesAssumption, RamDiskAssumption
<1>1. CASE s_pos + asked <= Window
  BY <1>1 DEF IoMemory!Count
<1>2. CASE s_pos + asked > Window /\ s_pos <= Window
  <2> DEFINE x == Window - s_pos
  <2>1. x \in Nat /\ x < Word
    BY <1>2
  <2> HIDE DEF x
  <2>2. x % Word = x
    BY <2>1
  <2>3. IoMemory!Count(s_pos, asked) = x
    BY <1>2, <2>2 DEF IoMemory!Count, x
  <2> QED
    BY <2>1, <2>3 DEF x
<1>3. CASE s_pos > Window
  <2> DEFINE x == Window - s_pos
  <2>1. x \in Int /\ x < 0 /\ x + Word > KmallocMax /\ x + Word < Word
    BY <1>3 DEF x
  <2> HIDE DEF x
  <2>2. x + Word \in Nat /\ (x + Word) % Word = x + Word
    BY <2>1
  <2>3. x % Word = x + Word
    BY <2>1, <2>2
  <2>4. IoMemory!Count(s_pos, asked) = x + Word
    BY <1>3, <2>3 DEF IoMemory!Count, x
  <2> QED
    BY <2>1, <2>4
<1> QED
  BY <1>1, <1>2, <1>3

\* The width of the accesses divides the count, so that the loop reaches every byte.
LEMMA UnitDivides ==
  ASSUME NEW mode \in IoMemory!Modes, NEW at \in Nat, NEW count \in Nat
  PROVE  /\ IoMemory!Unit(mode, at, count) \in {1, 2, 4}
         /\ (count \div IoMemory!Unit(mode, at, count)) * IoMemory!Unit(mode, at, count) = count
<1> DEFINE S == {u \in {1, 2, 4} :
                   u <= IoMemory!AccessWidth(mode) /\ at % u = 0 /\ count % u = 0}
<1>1. IoMemory!AccessWidth(mode) \in {1, 2, 4}
  BY DEF IoMemory!AccessWidth, IoMemory!Modes
<1>2. 1 \in S
  BY <1>1
<1>3. S \subseteq {1, 2, 4} /\ \A u \in S : count % u = 0
  OBVIOUS
<1> HIDE DEF S
<1>4. \E u \in S : \A w \in S : u >= w
  BY <1>2, <1>3
<1>5. IoMemory!Max(S) \in S
  BY <1>4 DEF IoMemory!Max
<1>6. IoMemory!Unit(mode, at, count) = IoMemory!Max(S)
  BY DEF IoMemory!Unit, S
<1>7. PICK u \in {1, 2, 4} : u = IoMemory!Unit(mode, at, count) /\ count % u = 0
  BY <1>3, <1>5, <1>6
<1>8. (count \div u) * u = count
  BY <1>7
<1> QED
  BY <1>7, <1>8

\* No position is so far beyond the window that the wrapped count is small.
SillyTypes ==
  /\ s_pos \in Int /\ s_pos < Window + Word - KmallocMax
  /\ writes \in Nat
  /\ window \in [0..Window - 1 -> Nat]

\* What the last call transferred, byte by byte.
Transferred(at, content, inside, left) ==
  \A i \in DOMAIN content :
    /\ at + i - 1 \in 0..Window - 1
    /\ at + i - 1 \notin left => content[i] = inside[at + i - 1]
    /\ content[i] # -1

SillyInv == SillyTypes /\ Transferred(result.at, result.bytes, window, partial)

LEMMA ReadInside ==
  ASSUME SillyInv, NEW mode \in IoMemory!Modes, NEW asked \in Nat,
         IoMemory!silly_read(mode, asked, FALSE)
  PROVE  SillyInv'
<1> /\ Window \in Nat /\ Window < Word /\ Word \in Nat
    /\ KmallocMax \in Nat /\ KmallocMax < Word
  BY MCDevicesAssumption, RamDiskAssumption
<1> DEFINE count == IoMemory!Count(s_pos, asked)
           content == IoMemory!Fetched(mode, s_pos, count)
<1>1. /\ s_pos >= 0 /\ count <= KmallocMax
      /\ result' = [at |-> s_pos, bytes |-> content]
      /\ s_pos' = s_pos + count
      /\ UNCHANGED <<window, writes, partial>>
  BY DEF IoMemory!silly_read
<1>2. count \in Nat /\ s_pos + count <= Window /\ s_pos \in Nat
  BY <1>1, CountInside DEF SillyInv, SillyTypes
<1> HIDE DEF count
<1>3. content = [i \in 1..count |-> window[s_pos + i - 1]]
  <2> DEFINE unit == IoMemory!Unit(mode, s_pos, count)
  <2>1. (count \div unit) * unit = count
    BY <1>2, UnitDivides
  <2>2. content = [i \in 1..count |->
                     IF i <= (count \div unit) * unit THEN window[s_pos + i - 1] ELSE IoMemory!Junk]
    BY DEF IoMemory!Fetched
  <2> HIDE DEF unit, content
  <2>3. content = [i \in 1..count |-> IF i <= count THEN window[s_pos + i - 1] ELSE IoMemory!Junk]
    BY <2>1, <2>2
  <2> QED
    BY <1>2, <2>3
<1> HIDE DEF content
<1>4. Transferred(s_pos, content, window, partial)
  <2>1. ASSUME NEW i \in 1..count
        PROVE  s_pos + i - 1 \in 0..Window - 1 /\ content[i] = window[s_pos + i - 1]
    BY <1>2, <1>3
  <2>2. \A i \in 1..count : content[i] \in Nat
    BY <2>1 DEF SillyInv, SillyTypes
  <2>3. \A i \in 1..count : content[i] # -1
    BY <2>2
  <2>4. DOMAIN content = 1..count
    BY <1>3
  <2> QED
    BY <2>1, <2>3, <2>4 DEF Transferred
<1>5. SillyTypes'
  BY <1>1, <1>2 DEF SillyInv, SillyTypes
<1>6. result'.at = s_pos /\ result'.bytes = content
  BY <1>1
<1> QED
  BY <1>1, <1>4, <1>5, <1>6 DEF SillyInv

LEMMA WriteInside ==
  ASSUME SillyInv, NEW mode \in IoMemory!Modes, NEW asked \in Nat,
         IoMemory!silly_write(mode, asked)
  PROVE  SillyInv'
<1> /\ Window \in Nat /\ Window < Word /\ Word \in Nat
    /\ KmallocMax \in Nat /\ KmallocMax < Word
  BY MCDevicesAssumption, RamDiskAssumption
<1> DEFINE count == IoMemory!Count(s_pos, asked)
           stored == IoMemory!Stored(mode, s_pos, count)
           content == [i \in 1..count |-> writes + 1]
<1>1. /\ s_pos >= 0 /\ count <= KmallocMax
      /\ writes' = writes + 1
      /\ window' = [i \in 0..Window - 1 |-> IF i \in stored THEN writes + 1 ELSE window[i]]
      /\ partial' = (s_pos..s_pos + count - 1) \ stored
      /\ result' = [at |-> s_pos, bytes |-> content]
      /\ s_pos' = s_pos + count
  BY DEF IoMemory!silly_write, IoMemory!Bytes
<1>2. count \in Nat /\ s_pos + count <= Window /\ s_pos \in Nat
  BY <1>1, CountInside DEF SillyInv, SillyTypes
<1> HIDE DEF count, stored
<1>3. Transferred(s_pos, content, window', partial')
  <2>1. ASSUME NEW i \in 1..count
        PROVE  /\ s_pos + i - 1 \in 0..Window - 1
               /\ s_pos + i - 1 \notin partial' => s_pos + i - 1 \in stored
    BY <1>1, <1>2
  <2>2. \A i \in 1..count : content[i] = writes + 1 /\ content[i] # -1
    BY DEF SillyInv, SillyTypes
  <2>3. DOMAIN content = 1..count
    OBVIOUS
  <2> HIDE DEF content
  <2>4. ASSUME NEW i \in 1..count, s_pos + i - 1 \notin partial'
        PROVE  content[i] = window'[s_pos + i - 1]
    BY <1>1, <2>1, <2>2, <2>4
  <2> QED
    BY <2>1, <2>2, <2>3, <2>4 DEF Transferred
<1>4. SillyTypes'
  <2>1. window' \in [0..Window - 1 -> Nat]
    BY <1>1 DEF SillyInv, SillyTypes
  <2> QED
    BY <1>1, <1>2, <2>1 DEF SillyInv, SillyTypes
<1> HIDE DEF content
<1>5. result'.at = s_pos /\ result'.bytes = content
  BY <1>1
<1> QED
  BY <1>3, <1>4, <1>5 DEF SillyInv

LEMMA SillyStep == SillyInv /\ [IoMemory!Next]_sillyVars => SillyInv'
<1> SUFFICES ASSUME SillyInv, [IoMemory!Next]_sillyVars PROVE SillyInv'
  OBVIOUS
<1> /\ Window \in Nat /\ KmallocMax \in Nat /\ Word \in Nat /\ EFAULT \in Nat
  BY MCDevicesAssumption, RamDiskAssumption
<1>1. ASSUME result' = IoMemory!None, SillyTypes' PROVE SillyInv'
  <2>1. result'.bytes = <<>>
    BY <1>1 DEF IoMemory!None
  <2> QED
    BY <1>1, <2>1 DEF SillyInv, Transferred
<1>2. ASSUME NEW mode \in IoMemory!Modes, NEW asked \in 0..MaxBytes, IoMemory!silly_write(mode, asked)
      PROVE  SillyInv'
  BY <1>2, WriteInside
<1>3. ASSUME NEW mode \in IoMemory!Modes, NEW asked \in 0..MaxBytes,
             NEW fault \in BOOLEAN, IoMemory!silly_read(mode, asked, fault)
      PROVE  SillyInv'
  <2>1. CASE fault = FALSE
    <3>1. IoMemory!silly_read(mode, asked, FALSE)
      BY <1>3, <2>1, Zenon
    <3>2. asked \in Nat
      OBVIOUS
    <3> QED
      BY <3>1, <3>2, ReadInside
  <2>2. CASE fault = TRUE
    <3>1. /\ result' = IoMemory!None /\ s_pos' = s_pos - EFAULT
          /\ UNCHANGED <<window, writes>>
      BY <1>3, <2>2 DEF IoMemory!silly_read
    <3>2. SillyTypes'
      BY <3>1 DEF SillyInv, SillyTypes
    <3> QED
      BY <1>1, <3>1, <3>2
  <2> QED
    BY <2>1, <2>2
<1>4. CASE IoMemory!Refused \/ IoMemory!BadMinor
  <2>1. result' = IoMemory!None /\ UNCHANGED <<s_pos, window, writes>>
    BY <1>4 DEF IoMemory!Refused, IoMemory!BadMinor
  <2>2. SillyTypes'
    BY <2>1 DEF SillyInv, SillyTypes
  <2> QED
    BY <1>1, <2>1, <2>2
<1>5. CASE IoMemory!Seek
  BY <1>5, MCDevicesAssumption DEF IoMemory!Seek, SillyInv, SillyTypes
<1>6. CASE UNCHANGED sillyVars
  BY <1>6 DEF sillyVars, SillyInv, SillyTypes
<1> QED
  BY <1>2, <1>3, <1>4, <1>5, <1>6 DEF IoMemory!Next

LEMMA SillyAlways == IoMemory!Spec => []IoMemory!TransferExact
<1>1. IoMemory!Init => SillyInv
  <2> SUFFICES ASSUME IoMemory!Init PROVE SillyInv
    OBVIOUS
  <2>1. SillyTypes
    BY MCDevicesAssumption, RamDiskAssumption DEF IoMemory!Init, IoMemory!Bytes, SillyTypes
  <2>2. result.bytes = <<>>
    BY DEF IoMemory!Init, IoMemory!None
  <2> QED
    BY <2>1, <2>2 DEF SillyInv, Transferred
<1>2. SillyInv => IoMemory!TransferExact
  BY DEF SillyInv, Transferred, IoMemory!TransferExact, IoMemory!Bytes, IoMemory!Junk
<1> QED
  BY <1>1, <1>2, SillyStep, PTL DEF IoMemory!Spec, IoMemory!vars, sillyVars

-----------------------------------------------------------------------------
(* Block: a request reaches the sectors it was sent for                    *)

IsRequest(r) ==
  r = [name |-> r.name, pos |-> r.pos, segs |-> r.segs, write |-> r.write, fs |-> r.fs]

\* The sectors of a request that are still to be transferred lie on the disk.
Fits(r) ==
  /\ IsRequest(r)
  /\ r.pos \in Nat /\ r.segs \in Seq(Nat) /\ Len(r.segs) \in {1, 2}
  /\ r.pos + Disks!Total(r.segs) <= Capacity

\* With sectors of the kernel's size, all requests fit, so that none is left out.
DisksInv ==
  block = 1 =>
    /\ disk = expected /\ fetched = wanted
    /\ \A r \in b_queue : Fits(r)
    /\ Disks!Working => Fits(req)

LEMMA SegmentsFit ==
  ASSUME block = 1, NEW segs \in Disks!Segments
  PROVE  segs \in Seq(Nat) /\ Len(segs) \in {1, 2}
<1>1. segs \in {<<1>>, <<2>>, <<1, 1>>, <<2, 1>>}
  BY DEF Disks!Segments
<1>2. CASE segs = <<1>> \/ segs = <<2>>
  BY <1>2
<1>3. CASE segs = <<1, 1>>
  BY <1>3
<1>4. CASE segs = <<2, 1>>
  BY <1>4
<1> QED
  BY <1>1, <1>2, <1>3, <1>4

\* __blk_end_request_cur: what is left of a request lies on the disk as well.
LEMMA EndCurFits ==
  ASSUME block = 1, DisksInv, Disks!Working, Disks!EndCur
  PROVE  (\A r \in b_queue' : Fits(r)) /\ (Disks!Working' => Fits(req'))
<1>1. CASE Len(req.segs) > 1
  <2>1. Fits(req)
    BY DEF DisksInv
  <2>2. /\ req' = [req EXCEPT !.pos = @ + req.segs[1], !.segs = Tail(@)]
        /\ b_queue' = b_queue
    BY <1>1 DEF Disks!EndCur
  <2>3. IsRequest(req') /\ req'.pos = req.pos + req.segs[1] /\ req'.segs = Tail(req.segs)
    BY <2>1, <2>2 DEF Fits, IsRequest
  <2>4. PICK segs \in Seq(Nat) : segs = req.segs /\ Len(segs) = 2
    <3>1. req.segs \in Seq(Nat) /\ (Len(req.segs) = 1 \/ Len(req.segs) = 2)
      BY <2>1 DEF Fits
    <3>2. ~(1 > 1)
      OBVIOUS
    <3>3. Len(req.segs) = 2
      BY <1>1, <3>1, <3>2, Zenon
    <3> QED
      BY <3>1, <3>3, Zenon
  <2>5. Len(Tail(segs)) = 1 /\ Tail(segs)[1] = segs[2] /\ Tail(segs) \in Seq(Nat)
    BY <2>4
  <2>6. segs[1] \in Nat /\ segs[2] \in Nat
    BY <2>4
  <2>7. Disks!Total(segs) = segs[1] + segs[2] /\ Disks!Total(Tail(segs)) = segs[2]
    BY <2>4, <2>5 DEF Disks!Total
  <2>8. Capacity \in Nat
    BY MCDevicesAssumption
  <2>9. Fits(req')
    BY <2>1, <2>3, <2>4, <2>5, <2>6, <2>7, <2>8 DEF Fits
  <2> QED
    BY <2>2, <2>9 DEF DisksInv
<1>2. CASE ~(Len(req.segs) > 1)
  BY <1>2 DEF Disks!EndCur, Disks!Working, DisksInv
<1> QED
  BY <1>1, <1>2

LEMMA DisksStep == DisksInv /\ [Disks!Next]_diskVars => DisksInv'
<1> SUFFICES ASSUME DisksInv, [Disks!Next]_diskVars, block' = 1 PROVE DisksInv'
  BY DEF DisksInv
<1>0. block = 1
  BY DEF Disks!Next, Disks!Submit, Disks!RequestStart, Disks!Transfer, Disks!SkipSegment,
         Disks!SkipAll, Disks!GetGeo, diskVars
<1>1. CASE Disks!Submit
  <2>1. PICK r \in unsent, at \in Disks!Sectors, segs \in Disks!Segments,
             write \in BOOLEAN, fs \in BOOLEAN :
          /\ at + Disks!Total(segs) <= Capacity
          /\ b_queue' = b_queue \cup
               {[name |-> r, pos |-> at, segs |-> segs, write |-> write, fs |-> fs]}
    BY <1>1 DEF Disks!Submit
  <2>2. at \in Nat
    BY MCDevicesAssumption DEF Disks!Sectors
  <2>3. Fits([name |-> r, pos |-> at, segs |-> segs, write |-> write, fs |-> fs])
    BY <1>0, <2>1, <2>2, SegmentsFit DEF Fits, IsRequest
  <2>4. UNCHANGED <<disk, expected, fetched, wanted, req>>
    BY <1>1 DEF Disks!Submit
  <2> QED
    BY <1>0, <2>1, <2>3, <2>4 DEF DisksInv, Disks!Working
<1>2. CASE Disks!RequestStart
  BY <1>0, <1>2 DEF Disks!RequestStart, DisksInv
<1>3. CASE Disks!Transfer
  <2>1. Disks!Working /\ Disks!EndCur
    BY <1>3 DEF Disks!Transfer
  <2>2. /\ req.pos \in Nat /\ req.segs[1] \in Nat
        /\ req.pos + req.segs[1] <= Capacity
    <3>1. PICK segs \in Seq(Nat) :
            segs = req.segs /\ Len(segs) \in {1, 2} /\ req.pos + Disks!Total(segs) <= Capacity
      BY <1>0, <2>1 DEF DisksInv, Fits
    <3>2. segs[1] \in Nat /\ (Len(segs) = 2 => segs[2] \in Nat)
      BY <3>1
    <3>3. req.pos \in Nat /\ Capacity \in Nat
      BY <1>0, <2>1, MCDevicesAssumption DEF DisksInv, Fits
    <3>4. CASE Len(segs) = 1
      BY <3>1, <3>2, <3>3, <3>4 DEF Disks!Total
    <3>5. CASE Len(segs) = 2
      BY <3>1, <3>2, <3>3, <3>5 DEF Disks!Total
    <3> QED
      BY <3>1, <3>4, <3>5
  <2>3. Disks!Offset(req.pos) = req.pos /\ Disks!Offset(req.segs[1]) = req.segs[1]
    BY <1>0, <2>2 DEF Disks!Offset
  <2>4. Disks!InDisk(req.segs[1])
    BY <1>0, <2>2, <2>3, MCDevicesAssumption DEF Disks!InDisk, Disks!DiskSize
  <2>5. disk' = expected' /\ fetched' = wanted'
    <3>1. disk = expected /\ fetched = wanted
      BY <1>0 DEF DisksInv
    <3>2. CASE req.write
      BY <1>3, <2>3, <2>4, <3>1, <3>2 DEF Disks!Transfer
    <3>3. CASE ~req.write
      BY <1>3, <2>3, <2>4, <3>1, <3>3 DEF Disks!Transfer
    <3> QED
      BY <3>2, <3>3
  <2> QED
    BY <1>0, <2>1, <2>5, EndCurFits DEF DisksInv
<1>4. CASE Disks!SkipSegment
  <2>1. Disks!Working /\ Disks!EndCur /\ UNCHANGED <<disk, expected, fetched, wanted>>
    BY <1>4 DEF Disks!SkipSegment
  <2> QED
    BY <1>0, <2>1, EndCurFits DEF DisksInv
<1>5. CASE Disks!SkipAll
  BY <1>0, <1>5 DEF Disks!SkipAll, DisksInv, Disks!Working
<1>6. CASE Disks!GetGeo \/ UNCHANGED diskVars
  BY <1>0, <1>6 DEF Disks!GetGeo, diskVars, DisksInv, Disks!Working
<1> QED
  BY <1>1, <1>2, <1>3, <1>4, <1>5, <1>6 DEF Disks!Next

LEMMA DisksAlways == Disks!Spec => []Disks!SectorsExact
<1>1. Disks!Init => DisksInv
  <2> SUFFICES ASSUME Disks!Init, block = 1 PROVE DisksInv
    BY DEF DisksInv
  <2>1. Disks!DiskSize = Capacity
    BY MCDevicesAssumption DEF Disks!DiskSize
  <2>2. disk = expected /\ fetched = wanted
    BY <2>1 DEF Disks!Init, Disks!Sectors
  <2>3. b_queue = {} /\ req = Disks!NoRequest
    BY DEF Disks!Init
  <2> QED
    BY <2>2, <2>3 DEF DisksInv, Disks!Working
<1>2. DisksInv => Disks!SectorsExact
  BY DEF DisksInv, Disks!SectorsExact
<1> QED
  BY <1>1, <1>2, DisksStep, PTL DEF Disks!Spec, Disks!vars, diskVars

\* silly_read and silly_write of lab5_silly.c, my_request of lab2_block.c and
\* sbd_request of sbd.c: a transfer stays inside the device and moves the bytes of
\* its place, for any size of the window and of the disk and any order of requests.
THEOREM TransfersExact == IoMemory!Spec /\ Disks!Spec => []TransferExact
<1>1. IoMemory!TransferExact /\ Disks!SectorsExact => TransferExact
  BY DEF TransferExact
<1> QED
  BY <1>1, SillyAlways, DisksAlways, PTL

-----------------------------------------------------------------------------
(* SeqFile: a reader gets each record once and in order                    *)

\* Units that follow each other in the file: those returned, then those collected.
Ordered(o, b) ==
  /\ o \in Seq(Int) /\ b \in Seq(Int)
  /\ \A i \in 1..Len(o) : o[i] = (i - 1) \div Width
  /\ \A i \in 1..Len(b) : b[i] = (Len(o) + i - 1) \div Width

LEMMA ConcatUnits ==
  ASSUME NEW o \in Seq(Int), NEW f \in Seq(Int)
  PROVE  /\ o \o f \in Seq(Int) /\ Len(o \o f) = Len(o) + Len(f)
         /\ \A i \in 1..(Len(o) + Len(f)) :
              (o \o f)[i] = IF i <= Len(o) THEN o[i] ELSE f[i - Len(o)]
OBVIOUS

\* seq_read gives the first k units that it has collected to the reader.
LEMMA GiveUnits ==
  ASSUME NEW o, NEW b, Ordered(o, b), NEW k \in 0..Len(b)
  PROVE  /\ Ordered(o \o SubSeq(b, 1, k), SubSeq(b, k + 1, Len(b)))
         /\ Len(o \o SubSeq(b, 1, k)) = Len(o) + k
         /\ Len(SubSeq(b, k + 1, Len(b))) = Len(b) - k
<1> DEFINE first == SubSeq(b, 1, k)
           rest == SubSeq(b, k + 1, Len(b))
<1>1. /\ o \in Seq(Int) /\ b \in Seq(Int) /\ Len(o) \in Nat /\ Len(b) \in Nat
      /\ k \in Nat /\ k <= Len(b)
  BY DEF Ordered
<1>2. /\ first \in Seq(Int) /\ Len(first) = k
      /\ \A i \in 1..k : first[i] = b[i]
  BY <1>1
<1>3. /\ rest \in Seq(Int) /\ Len(rest) = Len(b) - k
      /\ \A i \in 1..(Len(b) - k) : rest[i] = b[k + i]
  BY <1>1
<1> HIDE DEF first, rest
<1>4. /\ o \o first \in Seq(Int) /\ Len(o \o first) = Len(o) + k
      /\ \A i \in 1..(Len(o) + k) :
           (o \o first)[i] = IF i <= Len(o) THEN o[i] ELSE first[i - Len(o)]
  <2>1. /\ o \o first \in Seq(Int) /\ Len(o \o first) = Len(o) + Len(first)
        /\ \A i \in 1..(Len(o) + Len(first)) :
             (o \o first)[i] = IF i <= Len(o) THEN o[i] ELSE first[i - Len(o)]
    BY <1>1, <1>2, ConcatUnits, Zenon
  <2> QED
    BY <1>2, <2>1, Zenon
<1>5. ASSUME NEW i \in 1..(Len(o) + k) PROVE (o \o first)[i] = (i - 1) \div Width
  <2>1. CASE i <= Len(o)
    BY <1>1, <1>4, <2>1 DEF Ordered
  <2>2. CASE i > Len(o)
    <3> DEFINE j == i - Len(o)
    <3>1. j \in 1..k /\ j \in 1..Len(b) /\ Len(o) + j - 1 = i - 1
      BY <1>1, <2>2
    <3>2. (o \o first)[i] = b[j]
      BY <1>1, <1>2, <1>4, <2>2, <3>1
    <3> HIDE DEF j
    <3>3. b[j] = (Len(o) + j - 1) \div Width
      BY <3>1 DEF Ordered
    <3> QED
      BY <3>1, <3>2, <3>3
  <2>3. i <= Len(o) \/ i > Len(o)
    BY <1>1
  <2> QED
    BY <2>1, <2>2, <2>3, Zenon
<1>6. ASSUME NEW i \in 1..(Len(b) - k) PROVE rest[i] = ((Len(o) + k) + i - 1) \div Width
  <2> DEFINE j == k + i
  <2>1. j \in 1..Len(b) /\ Len(o) + j - 1 = (Len(o) + k) + i - 1
    BY <1>1
  <2>2. rest[i] = b[j]
    BY <1>3
  <2> HIDE DEF j
  <2>3. b[j] = (Len(o) + j - 1) \div Width
    BY <2>1 DEF Ordered
  <2> QED
    BY <2>1, <2>2, <2>3
<1>7. Ordered(o \o first, rest)
  BY <1>3, <1>4, <1>5, <1>6 DEF Ordered
<1> QED
  BY <1>3, <1>4, <1>7 DEF first, rest

\* The units of record n.
LEMMA UnitsOfRecord ==
  ASSUME NEW n \in Nat, NEW x \in Nat, Width * n <= x, x < Width * n + Width
  PROVE  x \div Width = n
<1> Width \in Nat \ {0}
  BY MCDevicesAssumption
<1> DEFINE d == x \div Width
<1>1. d \in Nat /\ Width * d <= x /\ x < Width * d + Width
  OBVIOUS
<1> HIDE DEF d
<1>2. ASSUME d < n PROVE FALSE
  <2>1. PICK e \in Nat : n = d + 1 + e
    BY <1>1, <1>2
  <2>2. Width * n = Width * d + Width + Width * e /\ Width * e \in Nat /\ Width * d \in Nat
    BY <1>1, <2>1
  <2> QED
    BY <1>1, <2>2
<1>3. ASSUME d > n PROVE FALSE
  <2>1. PICK e \in Nat : d = n + 1 + e
    BY <1>1, <1>3
  <2>2. Width * d = Width * n + Width + Width * e /\ Width * e \in Nat /\ Width * n \in Nat
    BY <1>1, <2>1
  <2> QED
    BY <1>1, <2>2
<1> QED
  BY <1>1, <1>2, <1>3 DEF d

\* show() adds the record that comes next.
LEMMA ShowUnits ==
  ASSUME NEW o, NEW b, Ordered(o, b), NEW n \in Nat, Len(o) + Len(b) = Width * n,
         NEW record, record = [i \in 1..Width |-> n]
  PROVE  /\ Ordered(o, b \o record)
         /\ Len(b \o record) = Len(b) + Width
<1> Width \in Nat \ {0}
  BY MCDevicesAssumption
<1>1. o \in Seq(Int) /\ b \in Seq(Int) /\ Len(o) \in Nat /\ Len(b) \in Nat
  BY DEF Ordered
<1>2. record \in Seq(Int) /\ Len(record) = Width /\ \A i \in 1..Width : record[i] = n
  OBVIOUS
<1>3. /\ b \o record \in Seq(Int) /\ Len(b \o record) = Len(b) + Width
      /\ \A i \in 1..(Len(b) + Width) :
           (b \o record)[i] = IF i <= Len(b) THEN b[i] ELSE record[i - Len(b)]
  BY <1>1, <1>2
<1>4. ASSUME NEW i \in 1..(Len(b) + Width)
      PROVE  (b \o record)[i] = (Len(o) + i - 1) \div Width
  <2>1. CASE i <= Len(b)
    BY <1>1, <1>3, <2>1 DEF Ordered
  <2>2. CASE i > Len(b)
    <3>1. (b \o record)[i] = n
      BY <1>1, <1>2, <1>3, <2>2
    <3> DEFINE x == Len(o) + i - 1
    <3>2. x \in Nat /\ Width * n <= x /\ x < Width * n + Width
      BY <1>1, <2>2
    <3> HIDE DEF x
    <3>3. x \div Width = n
      BY <3>2, UnitsOfRecord
    <3> QED
      BY <3>1, <3>3 DEF x
  <2> QED
    BY <1>1, <2>1, <2>2
<1> QED
  BY <1>1, <1>3, <1>4 DEF Ordered

SeqTypes ==
  /\ q_kind \in {"busy", "count", "tasks"}
  /\ q_pc \in {"user", "start", "show", "next", "stop"}

\* Where the call is in the file, by the units returned and collected so far.
PlaceInv ==
  LET units == Len(out) + Len(buf) IN
  /\ Ordered(out, buf)
  /\ index \in Nat /\ pos \in Nat /\ next \in Nat /\ v \in Int /\ want \in Int
  /\ q_pc = "user" => units = Width * IF Len(buf) = 0 THEN index ELSE index + 1
  /\ q_pc = "start" => Len(buf) = 0 /\ units = Width * index
  /\ q_pc = "show" => /\ units = Width * next /\ v = next
                      /\ next = IF Len(buf) = 0 THEN pos ELSE pos + 1
  /\ q_pc = "next" => Len(buf) > 0 /\ units = Width * (pos + 1) /\ v = pos
  /\ q_pc = "stop" => units = Width * IF Len(buf) = 0 THEN pos ELSE pos + 1
  /\ want >= 0

\* x_busy has no record after the last item, and a call that finds none at all has
\* begun after it.
EndInv ==
  /\ q_pc = "user" => (IF Len(buf) = 0 THEN index ELSE index + 1) <= Items
  /\ q_pc = "start" => index <= Items
  /\ q_pc = "show" => next < Items
  /\ q_pc = "next" => pos < Items
  /\ q_pc = "stop" => IF Len(buf) = 0 THEN pos = Items ELSE pos < Items
  /\ eof => q_pc = "user" /\ Len(out) = Items * Width

\* ct_seq_start's iterator lives from start() to stop().
HeldInv ==
  /\ q_pc \in {"user", "start"} => v = -1
  /\ held = IF q_kind = "count" /\ v # -1 THEN 1 ELSE 0

SeqInv ==
  /\ SeqTypes
  /\ HeldInv
  /\ q_kind # "tasks" => PlaceInv
  /\ q_kind = "busy" => EndInv

LEMMA NoUnits == ASSUME NEW b \in Seq(Int) PROVE b = <<>> <=> Len(b) = 0
OBVIOUS

\* The calls of the iterator, without the order of the records.
LEMMA HeldStep == SeqInv /\ [Records!Next]_seqVars => SeqTypes' /\ HeldInv'
<1> SUFFICES ASSUME SeqInv, [Records!Next]_seqVars PROVE SeqTypes' /\ HeldInv'
  OBVIOUS
<1> USE DEF SeqInv, SeqTypes, HeldInv, Records!Null
<1>1. ASSUME NEW n, Records!ReadStart(n) PROVE SeqTypes' /\ HeldInv'
  BY <1>1 DEF Records!ReadStart
<1>2. CASE Records!Start
  BY <1>2 DEF Records!Start
<1>3. CASE Records!Show
  BY <1>3 DEF Records!Show
<1>4. CASE Records!Step
  <2>1. q_kind = "count" => v' = v + 1 /\ v \in Nat
    BY <1>4 DEF Records!Step, Records!NextRecord, PlaceInv
  <2>2. q_kind = "count" => v # -1 /\ v' # -1
    BY <2>1
  <2> QED
    BY <1>4, <2>2 DEF Records!Step
<1>5. CASE Records!Stop
  BY <1>5 DEF Records!Stop
<1>6. CASE UNCHANGED seqVars
  BY <1>6 DEF seqVars
<1> QED
  BY <1>1, <1>2, <1>3, <1>4, <1>5, <1>6 DEF Records!Next

LEMMA SeqStep == SeqInv /\ [Records!Next]_seqVars => SeqInv'
<1> SUFFICES ASSUME SeqInv, [Records!Next]_seqVars PROVE SeqInv'
  OBVIOUS
<1>c. q_kind' = q_kind
  BY DEF Records!Next, Records!ReadStart, Records!Start, Records!Show, Records!Step,
         Records!Stop, seqVars
<1> SUFFICES ASSUME q_kind # "tasks" PROVE PlaceInv' /\ (q_kind = "busy" => EndInv')
  BY <1>c, HeldStep DEF SeqInv
<1> /\ Items \in Nat \ {0} /\ Width \in Nat \ {0} /\ BufSize \in Nat /\ Width <= BufSize
  BY MCDevicesAssumption
<1>0. /\ PlaceInv /\ Ordered(out, buf) /\ q_kind \in {"busy", "count"}
      /\ out \in Seq(Int) /\ buf \in Seq(Int) /\ Len(out) \in Nat /\ Len(buf) \in Nat
      /\ index \in Nat /\ pos \in Nat /\ next \in Nat /\ v \in Int /\ want \in Int
      /\ buf = <<>> <=> Len(buf) = 0
  BY NoUnits DEF SeqInv, SeqTypes, PlaceInv, Ordered
<1>d. want >= 0
  BY <1>0 DEF PlaceInv
<1>a. q_kind = "busy" => EndInv
  BY DEF SeqInv
<1>b. \A x \in Nat : Width * (x + 1) = Width * x + Width /\ Width * x \in Nat
  OBVIOUS
<1>1. ASSUME NEW n \in 1..BufSize, Records!ReadStart(n)
      PROVE  PlaceInv' /\ (q_kind = "busy" => EndInv')
  <2> DEFINE k == IF n < Len(buf) THEN n ELSE Len(buf)
  <2>1. /\ q_pc = "user" /\ ~eof
        /\ out' = out \o SubSeq(buf, 1, k) /\ buf' = SubSeq(buf, k + 1, Len(buf))
        /\ index' = IF buf # <<>> /\ k = Len(buf) THEN index + 1 ELSE index
        /\ want' = n - k
        /\ q_pc' = IF n = k THEN "user" ELSE "start"
        /\ UNCHANGED <<pos, next, v, eof>>
    BY <1>1 DEF Records!ReadStart
  <2>2. /\ k \in 0..Len(buf) /\ (k # Len(buf) => n = k) /\ (Len(buf) = 0 => n # k)
        /\ k \in Nat /\ k <= Len(buf) /\ k <= n
    BY <1>0
  <2> HIDE DEF k
  <2>3. /\ Ordered(out', buf') /\ Len(out') = Len(out) + k /\ Len(buf') = Len(buf) - k
    BY <1>0, <2>1, <2>2, GiveUnits
  <2>4. Len(out) + Len(buf) = Width * IF Len(buf) = 0 THEN index ELSE index + 1
    BY <1>0, <2>1 DEF PlaceInv
  <2>5. Len(out') + Len(buf') = Width * IF Len(buf') = 0 THEN index' ELSE index' + 1
    <3>1. index' = IF Len(buf) # 0 /\ k = Len(buf) THEN index + 1 ELSE index
      BY <1>0, <2>1
    <3>2. Len(out') + Len(buf') = Len(out) + Len(buf)
      BY <1>0, <2>2, <2>3
    <3>3. (IF Len(buf') = 0 THEN index' ELSE index' + 1)
            = IF Len(buf) = 0 THEN index ELSE index + 1
      BY <1>0, <2>2, <2>3, <3>1
    <3> QED
      BY <2>4, <3>2, <3>3, Zenon
  <2>6. q_pc' = "start" => Len(buf') = 0
    BY <1>0, <2>1, <2>2, <2>3
  <2>7. index' \in Nat /\ want' \in Int /\ want' >= 0
    BY <1>0, <2>1, <2>2
  <2>8. PlaceInv'
    BY <1>0, <2>1, <2>3, <2>5, <2>6, <2>7 DEF PlaceInv
  <2>9. ASSUME q_kind = "busy" PROVE EndInv'
    <3>1. (IF Len(buf) = 0 THEN index ELSE index + 1) <= Items
      BY <1>a, <2>1, <2>9 DEF EndInv
    <3>2. q_pc' = "user" => (IF Len(buf') = 0 THEN index' ELSE index' + 1) <= Items
      BY <1>0, <2>1, <2>2, <2>3, <3>1
    <3>3. q_pc' = "start" => index' <= Items
      BY <1>0, <2>1, <2>2, <2>3, <3>1
    <3> QED
      BY <2>1, <3>2, <3>3 DEF EndInv
  <2> QED
    BY <2>8, <2>9
<1>2. CASE Records!Start
  <2>1. /\ q_pc = "start" /\ pos' = index /\ next' = index
        /\ v' \in Records!StartResults(index)
        /\ q_pc' = IF v' = -1 THEN "stop" ELSE "show"
        /\ UNCHANGED <<want, index, buf, out, eof>>
    BY <1>2 DEF Records!Start, Records!Null
  <2>2. v' = index \/ v' = -1
    BY <1>0, <2>1 DEF Records!StartResults, Records!BusyAt, Records!Null
  <2>3. Len(buf) = 0 /\ Len(out) + Len(buf) = Width * index
    BY <1>0, <2>1 DEF PlaceInv
  <2>4. PlaceInv'
    BY <1>0, <2>1, <2>2, <2>3 DEF PlaceInv
  <2>5. ASSUME q_kind = "busy" PROVE EndInv'
    <3>1. index <= Items /\ ~eof
      BY <1>a, <2>1, <2>5 DEF EndInv
    <3>2. v' = IF index < Items THEN index ELSE -1
      BY <2>1, <2>5 DEF Records!StartResults, Records!BusyAt, Records!Null
    <3>3. IF index < Items THEN q_pc' = "show" ELSE q_pc' = "stop" /\ index = Items
      BY <1>0, <2>1, <3>1, <3>2
    <3> QED
      BY <1>0, <2>1, <2>3, <3>1, <3>3 DEF EndInv
  <2> QED
    BY <2>4, <2>5
<1>3. CASE Records!Show
  <2>1. /\ q_pc = "show"
        /\ UNCHANGED <<want, index, next, v, out, eof>>
    BY <1>3 DEF Records!Show
  <2>2. /\ Len(out) + Len(buf) = Width * next /\ v = next
        /\ next = IF Len(buf) = 0 THEN pos ELSE pos + 1
    BY <1>0, <2>1 DEF PlaceInv
  <2>3. CASE Len(buf) + Width > BufSize
    <3>1. Len(buf) # 0 /\ q_pc' = "stop" /\ UNCHANGED <<buf, pos>>
      BY <1>0, <1>3, <2>3 DEF Records!Show
    <3>2. PlaceInv'
      BY <1>0, <2>1, <2>2, <3>1 DEF PlaceInv
    <3>3. q_kind = "busy" => EndInv'
      BY <1>0, <1>a, <2>1, <2>2, <3>1 DEF EndInv
    <3> QED
      BY <3>2, <3>3
  <2>4. CASE ~(Len(buf) + Width > BufSize)
    <3>1. /\ buf' = buf \o Records!Shown /\ pos' = next
          /\ q_pc' = IF Len(buf') < want THEN "next" ELSE "stop"
      BY <1>3, <2>4 DEF Records!Show
    <3>2. Records!Shown = [i \in 1..Width |-> next]
      BY <1>0, <2>2 DEF Records!Shown
    <3>3. Ordered(out', buf') /\ Len(buf') = Len(buf) + Width
      BY <1>0, <2>1, <2>2, <3>1, <3>2, ShowUnits
    <3>4. Len(buf') > 0 /\ Len(out') + Len(buf') = Width * (pos' + 1)
      <4>1. Len(buf') > 0 /\ Len(out') + Len(buf') = Len(out) + Len(buf) + Width
        BY <1>0, <2>1, <3>3
      <4>2. Width * (next + 1) = Width * next + Width
        BY <1>0
      <4> QED
        BY <2>2, <3>1, <4>1, <4>2
    <3>5. PlaceInv'
      BY <1>0, <2>1, <2>2, <3>1, <3>3, <3>4 DEF PlaceInv
    <3>6. q_kind = "busy" => EndInv'
      BY <1>0, <1>a, <2>1, <3>1, <3>4 DEF EndInv
    <3> QED
      BY <3>5, <3>6
  <2> QED
    BY <2>3, <2>4
<1>4. CASE Records!Step
  <2>1. /\ q_pc = "next" /\ v' = Records!NextRecord /\ next' = pos + 1
        /\ q_pc' = IF v' = -1 THEN "stop" ELSE "show"
        /\ UNCHANGED <<want, index, pos, buf, out, eof>>
    BY <1>0, <1>4 DEF Records!Step, Records!NextPos, Records!Null
  <2>2. Len(buf) > 0 /\ Len(out) + Len(buf) = Width * (pos + 1) /\ v = pos
    BY <1>0, <2>1 DEF PlaceInv
  <2>3. v' = pos + 1 \/ v' = -1
    BY <1>0, <2>1, <2>2 DEF Records!NextRecord, Records!BusyAt, Records!Null
  <2>4. PlaceInv'
    BY <1>0, <2>1, <2>2, <2>3 DEF PlaceInv
  <2>5. ASSUME q_kind = "busy" PROVE EndInv'
    <3>1. pos < Items /\ ~eof
      BY <1>a, <2>1, <2>5 DEF EndInv
    <3>2. v' = IF pos + 1 < Items THEN pos + 1 ELSE -1
      BY <2>1, <2>5 DEF Records!NextRecord, Records!BusyAt, Records!Null
    <3> QED
      BY <1>0, <2>1, <2>2, <3>1, <3>2 DEF EndInv
  <2> QED
    BY <2>4, <2>5
<1>5. CASE Records!Stop
  <2> DEFINE k == IF want < Len(buf) THEN want ELSE Len(buf)
  <2>1. /\ q_pc = "stop" /\ q_pc' = "user"
        /\ out' = out \o SubSeq(buf, 1, k) /\ buf' = SubSeq(buf, k + 1, Len(buf))
        /\ index' = IF buf # <<>> /\ k = Len(buf) THEN pos + 1 ELSE pos
        /\ want' = 0 /\ v' = -1
        /\ UNCHANGED <<pos, next>>
    BY <1>5 DEF Records!Stop, Records!Null
  <2>2. eof' => buf = <<>>
    BY <1>5 DEF Records!Stop
  <2>3. k \in 0..Len(buf) /\ k \in Nat /\ k <= Len(buf)
    BY <1>0, <1>d
  <2> HIDE DEF k
  <2>4. /\ Ordered(out', buf') /\ Len(out') = Len(out) + k /\ Len(buf') = Len(buf) - k
    BY <1>0, <2>1, <2>3, GiveUnits
  <2>5. Len(out) + Len(buf) = Width * IF Len(buf) = 0 THEN pos ELSE pos + 1
    BY <1>0, <2>1 DEF PlaceInv
  <2>6. index' = IF Len(buf) # 0 /\ k = Len(buf) THEN pos + 1 ELSE pos
    BY <1>0, <2>1
  <2>7. Len(out') + Len(buf') = Width * IF Len(buf') = 0 THEN index' ELSE index' + 1
    <3>1. Len(out') + Len(buf') = Len(out) + Len(buf)
      BY <1>0, <2>3, <2>4
    <3>2. (IF Len(buf') = 0 THEN index' ELSE index' + 1)
            = IF Len(buf) = 0 THEN pos ELSE pos + 1
      BY <1>0, <2>3, <2>4, <2>6
    <3> QED
      BY <2>5, <3>1, <3>2, Zenon
  <2>8. PlaceInv'
    <3>1. index' \in Nat /\ want' \in Int /\ want' >= 0 /\ v' \in Int
      BY <1>0, <2>1, <2>6
    <3> QED
      BY <1>0, <2>1, <2>4, <2>7, <3>1 DEF PlaceInv
  <2>9. ASSUME q_kind = "busy" PROVE EndInv'
    <3>1. IF Len(buf) = 0 THEN pos = Items ELSE pos < Items
      BY <1>a, <2>1, <2>9 DEF EndInv
    <3>2. (IF Len(buf') = 0 THEN index' ELSE index' + 1) <= Items
      BY <1>0, <2>3, <2>4, <2>6, <3>1
    <3>3. eof' => Len(out') = Items * Width
      <4>1. Len(buf) = 0 => pos = Items /\ Len(out') = Len(out) + Len(buf)
        BY <1>0, <2>3, <2>4, <3>1
      <4> QED
        BY <1>0, <2>2, <2>5, <4>1
    <3> QED
      BY <2>1, <3>2, <3>3 DEF EndInv
  <2> QED
    BY <2>8, <2>9
<1>6. CASE UNCHANGED seqVars
  BY <1>0, <1>6, <1>a DEF seqVars, PlaceInv, EndInv
<1> QED
  BY <1>1, <1>2, <1>3, <1>4, <1>5, <1>6 DEF Records!Next

\* seq_read over the iterators of lab8_seqfile.c and lab11_seq.c: however long the
\* records and the buffer are and however the calls cut the file, a reader gets each
\* record once and in order, x_busy ends after its last item, and no iterator of
\* ct_seq_start outlives its call.
THEOREM RecordsReadInOrder == Records!Spec => []RecordsInOrder
<1>1. Records!Init => SeqInv
  <2> SUFFICES ASSUME Records!Init PROVE SeqInv
    OBVIOUS
  <2>1. /\ q_kind \in SeqKinds /\ q_pc = "user" /\ want = 0 /\ index = 0 /\ pos = 0
        /\ next = 0 /\ v = -1 /\ held = 0 /\ buf = <<>> /\ out = <<>> /\ eof = FALSE
    BY DEF Records!Init, Records!Null
  <2>2. Items \in Nat \ {0} /\ Width \in Nat \ {0}
    BY MCDevicesAssumption
  <2>3. SeqTypes
    BY <2>1, MCDevicesAssumption DEF SeqTypes
  <2>4. HeldInv
    BY <2>1 DEF HeldInv
  <2>5. Ordered(out, buf) /\ Len(out) = 0 /\ Len(buf) = 0
    BY <2>1 DEF Ordered
  <2>6. PlaceInv
    BY <2>1, <2>2, <2>5 DEF PlaceInv
  <2>7. EndInv
    BY <2>1, <2>2, <2>5 DEF EndInv
  <2> QED
    BY <2>3, <2>4, <2>6, <2>7 DEF SeqInv
<1>2. SeqInv => RecordsInOrder
  <2> SUFFICES ASSUME SeqInv PROVE RecordsInOrder
    OBVIOUS
  <2>1. ASSUME q_kind # "tasks", NEW i \in 1..Len(out \o buf)
        PROVE  (out \o buf)[i] = (i - 1) \div Width
    <3>1. Ordered(out, buf)
      BY <2>1 DEF SeqInv, PlaceInv
    <3>2. /\ out \in Seq(Int) /\ buf \in Seq(Int) /\ Len(out) \in Nat /\ Len(buf) \in Nat
      BY <3>1 DEF Ordered
    <3>3. /\ Len(out \o buf) = Len(out) + Len(buf)
          /\ \A j \in 1..(Len(out) + Len(buf)) :
               (out \o buf)[j] = IF j <= Len(out) THEN out[j] ELSE buf[j - Len(out)]
      BY <3>2, ConcatUnits, Zenon
    <3>4. i \in 1..(Len(out) + Len(buf))
      BY <2>1, <3>3
    <3>5. CASE i <= Len(out)
      BY <3>1, <3>2, <3>3, <3>4, <3>5 DEF Ordered
    <3>6. CASE i > Len(out)
      <4> DEFINE j == i - Len(out)
      <4>1. j \in 1..Len(buf) /\ j = i - Len(out) /\ Len(out) + j - 1 = i - 1
        BY <3>2, <3>4, <3>6
      <4> HIDE DEF j
      <4>2. (out \o buf)[i] = buf[j]
        BY <3>2, <3>3, <3>4, <3>6, <4>1
      <4>3. buf[j] = (Len(out) + j - 1) \div Width
        BY <3>1, <4>1 DEF Ordered
      <4> QED
        BY <4>1, <4>2, <4>3
    <3>7. i <= Len(out) \/ i > Len(out)
      BY <3>2, <3>4
    <3> QED
      BY <3>5, <3>6, <3>7, Zenon
  <2>2. eof /\ q_kind = "busy" => Len(out) = Items * Width
    BY DEF SeqInv, EndInv
  <2>3. q_pc = "user" => held = 0
    BY DEF SeqInv, HeldInv
  <2> QED
    BY <2>1, <2>2, <2>3 DEF RecordsInOrder, Records!RecordsInOrder
<1> QED
  BY <1>1, <1>2, SeqStep, PTL DEF Records!Spec, Records!vars, seqVars
=============================================================================
