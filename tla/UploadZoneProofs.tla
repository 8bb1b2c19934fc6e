-------------------------- MODULE UploadZoneProofs --------------------------
(***************************************************************************)
(* The slots and the queue of the upload zone, and the objects behind the  *)
(* documents it confirms, for every set of files, number of slots, length  *)
(* of the polling loop and number of deletions.                            *)
(***************************************************************************)
EXTENDS UploadZone, FiniteSetTheorems, SequenceTheorems, TLAPS

Statuses == Running \cup Settled \cup {"none", "pending", "gone"}

Replies == {"none", "sent", "ok", "busy", "ready", "failed", "bad"}

\* The files a list shows with a status in S.
With(list, S) == {f \in Files : list[f] \in S}

\* q holds the files `list` shows as pending, once each.
Agree(list, q) ==
    /\ {f \in Files : list[f] = "pending"} = {q[i] : i \in DOMAIN q}
    /\ \A i, j \in DOMAIN q : q[i] = q[j] => i = j

-----------------------------------------------------------------------------
(* What k calls of processNext do. *)

LEMMA IntervalCounts ==
    ASSUME NEW m \in Nat
    PROVE  IsFiniteSet(1 .. m) /\ Cardinality(1 .. m) = m
  BY FS_Interval

\* They take the first m files of the queue, for the m that slots, queue and k
\* allow.
LEMMA StartableIsPrefix ==
    ASSUME NEW q \in Seq(Files), NEW k \in Nat, NEW running \in Nat,
           running <= MaxConcurrent
    PROVE  \E m \in 0 .. Len(q) :
              /\ Startable(k, running, q) = 1 .. m
              /\ Cardinality(Startable(k, running, q)) = m
              /\ running + m <= MaxConcurrent
              /\ m <= k
              /\ m = Len(q) \/ m = k \/ running + m = MaxConcurrent
<1> DEFINE free == MaxConcurrent - running
           least(a, b) == IF a <= b THEN a ELSE b
           m == least(k, least(Len(q), free))
<1>1. Len(q) \in Nat /\ free \in Nat
  BY UploadAssumption, LenProperties
<1>2. /\ m \in 0 .. Len(q) /\ running + m <= MaxConcurrent /\ m <= k
      /\ m = Len(q) \/ m = k \/ running + m = MaxConcurrent
  BY <1>1, UploadAssumption
<1>3. Startable(k, running, q) = 1 .. m
  BY <1>1, UploadAssumption DEF Startable
<1> HIDE DEF m
<1>4. Cardinality(1 .. m) = m
  BY <1>1, <1>2, IntervalCounts
<1> QED
  BY <1>2, <1>3, <1>4

\* The first m entries of a queue without repetitions are m files.
LEMMA PrefixCounts ==
    ASSUME NEW q \in Seq(Files), NEW m \in 0 .. Len(q),
           \A i, j \in DOMAIN q : q[i] = q[j] => i = j
    PROVE  /\ IsFiniteSet({q[i] : i \in 1 .. m})
           /\ Cardinality({q[i] : i \in 1 .. m}) = m
<1> DEFINE T == {q[i] : i \in 1 .. m}
           g == [i \in 1 .. m |-> q[i]]
<1>1. Len(q) \in Nat /\ DOMAIN q = 1 .. Len(q)
  BY LenProperties
<1>2. m \in Nat /\ 1 .. m \subseteq DOMAIN q
  BY <1>1
<1>3. g \in [1 .. m -> T]
  OBVIOUS
<1>4. g \in Injection(1 .. m, T)
  BY <1>2, <1>3 DEF Injection, IsInjective
<1>5. g \in Surjection(1 .. m, T)
  BY <1>3 DEF Surjection
<1>6. ExistsBijection(1 .. m, T)
  BY <1>4, <1>5 DEF ExistsBijection, Bijection
<1>7. IsFiniteSet(1 .. m) /\ Cardinality(1 .. m) = m
  BY <1>2, IntervalCounts
<1> QED
  BY <1>6, <1>7, FS_Bijection

\* Taking them off leaves a queue of the others, still once each.
LEMMA RestAgrees ==
    ASSUME NEW q \in Seq(Files), NEW m \in 0 .. Len(q),
           \A i, j \in DOMAIN q : q[i] = q[j] => i = j
    PROVE  LET rest == SubSeq(q, m + 1, Len(q))
           IN  /\ rest \in Seq(Files)
               /\ {rest[i] : i \in DOMAIN rest}
                     = {q[i] : i \in DOMAIN q} \ {q[i] : i \in 1 .. m}
               /\ \A i, j \in DOMAIN rest : rest[i] = rest[j] => i = j
               /\ rest # << >> => m # Len(q)
<1> DEFINE rest == SubSeq(q, m + 1, Len(q))
           n == Len(q)
<1>1. n \in Nat /\ DOMAIN q = 1 .. n /\ m \in Nat /\ m <= n
  BY LenProperties
<1>2. \A i \in m + 1 .. n : q[i] \in Files
  BY <1>1, ElementOfSeq
<1>3. /\ rest \in Seq(Files)
      /\ Len(rest) = n - m
      /\ \A i \in 1 .. n - m : rest[i] = q[m + i]
  <2>1. /\ SubSeq(q, m + 1, n) \in Seq(Files)
        /\ Len(SubSeq(q, m + 1, n)) = IF m + 1 <= n THEN n - (m + 1) + 1 ELSE 0
        /\ \A i \in 1 .. n - (m + 1) + 1 :
              SubSeq(q, m + 1, n)[i] = q[(m + 1) + i - 1]
    BY <1>1, <1>2, SubSeqProperties
  <2>2. n - (m + 1) + 1 = n - m /\ \A i \in 1 .. n - m : (m + 1) + i - 1 = m + i
    BY <1>1
  <2> QED
    BY <1>1, <2>1, <2>2
<1>8. rest # << >> => m # n
  <2>1. m = n => rest = << >>
    BY <1>1, SubSeqEmpty
  <2> QED
    BY <2>1
<1> HIDE DEF rest, n
<1>4. DOMAIN rest = 1 .. n - m
  BY <1>3, LenProperties
<1>5. ASSUME NEW i \in 1 .. n - m, NEW j \in 1 .. n - m, rest[i] = rest[j]
      PROVE  i = j
  <2>1. m + i \in DOMAIN q /\ m + j \in DOMAIN q /\ q[m + i] = q[m + j]
    BY <1>1, <1>3, <1>5
  <2> QED
    BY <1>1, <2>1
<1>6. {rest[i] : i \in 1 .. n - m} \subseteq {q[i] : i \in DOMAIN q} \ {q[i] : i \in 1 .. m}
  <2> SUFFICES ASSUME NEW i \in 1 .. n - m
               PROVE  rest[i] \in {q[j] : j \in DOMAIN q} \ {q[j] : j \in 1 .. m}
    OBVIOUS
  <2>1. rest[i] = q[m + i] /\ m + i \in DOMAIN q
    BY <1>1, <1>3
  <2>2. \A j \in 1 .. m : q[j] # q[m + i]
    BY <1>1, <2>1
  <2> QED
    BY <2>1, <2>2
<1>7. {q[i] : i \in DOMAIN q} \ {q[i] : i \in 1 .. m} \subseteq {rest[i] : i \in 1 .. n - m}
  <2> SUFFICES ASSUME NEW j \in DOMAIN q, j \notin 1 .. m
               PROVE  q[j] \in {rest[i] : i \in 1 .. n - m}
    OBVIOUS
  <2>1. j - m \in 1 .. n - m /\ m + (j - m) = j
    BY <1>1
  <2>2. rest[j - m] = q[j]
    BY <1>3, <2>1
  <2> QED
    BY <2>1, <2>2
<1> QED
  BY <1>3, <1>4, <1>5, <1>6, <1>7, <1>8 DEF rest, n

\* What every state of the zone satisfies, of its slots and its queue.
ZoneInv == TypeOK /\ SlotsExact /\ NoIdleSlot /\ PendingIsQueued

\* The part of it that processNext touches.
ZonePart ==
    /\ item \in [Files -> Statuses] /\ reply \in [Files -> Replies]
    /\ queue \in Seq(Files) /\ active \in Nat
    /\ SlotsExact /\ NoIdleSlot /\ PendingIsQueued

\* Calls of processNext on a list and a queue that agree, with `running` uploads
\* on the list, that are enough to fill the zone, leave a list and a queue that
\* agree, the slots counted, and none idle.
LEMMA ProcessNextFills ==
    ASSUME NEW k \in Nat, NEW running \in Nat, NEW q \in Seq(Files),
           NEW list \in [Files -> Statuses], NEW answers \in [Files -> Replies],
           Agree(list, q),
           running = Cardinality(With(list, Running)), running <= MaxConcurrent,
           q # << >> => running + k >= MaxConcurrent,
           ProcessNext(k, running, q, list, answers)
    PROVE  ZonePart'
<1>1. PICK m \in 0 .. Len(q) :
         /\ Startable(k, running, q) = 1 .. m
         /\ Cardinality(Startable(k, running, q)) = m
         /\ running + m <= MaxConcurrent
         /\ m <= k
         /\ m = Len(q) \/ m = k \/ running + m = MaxConcurrent
  <2>1. q \in Seq(Files) /\ k \in Nat /\ running \in Nat /\ running <= MaxConcurrent
    OBVIOUS
  <2> QED
    BY <2>1, StartableIsPrefix, ZenonT(40)
<1> DEFINE started == {q[i] : i \in 1 .. m}
<1>2. /\ active' = running + m
      /\ queue' = SubSeq(q, m + 1, Len(q))
      /\ item' = [f \in Files |-> IF f \in started THEN "requesting" ELSE list[f]]
      /\ reply' = [f \in Files |-> IF f \in started THEN "sent" ELSE answers[f]]
  BY <1>1 DEF ProcessNext
<1>3. /\ Len(q) \in Nat /\ m \in Nat /\ DOMAIN q = 1 .. Len(q)
      /\ started \subseteq {q[i] : i \in DOMAIN q}
  BY LenProperties
<1>4. IsFiniteSet(started) /\ Cardinality(started) = m
  BY PrefixCounts DEF Agree
<1>5. /\ queue' \in Seq(Files)
      /\ {queue'[i] : i \in DOMAIN queue'} = {q[i] : i \in DOMAIN q} \ started
      /\ \A i, j \in DOMAIN queue' : queue'[i] = queue'[j] => i = j
      /\ queue' # << >> => m # Len(q)
  <2> DEFINE rest == SubSeq(q, m + 1, Len(q))
  <2>1. \A i, j \in DOMAIN q : q[i] = q[j] => i = j
    BY DEF Agree
  <2>2. /\ rest \in Seq(Files)
        /\ {rest[i] : i \in DOMAIN rest} = {q[i] : i \in DOMAIN q} \ started
        /\ \A i, j \in DOMAIN rest : rest[i] = rest[j] => i = j
        /\ rest # << >> => m # Len(q)
    BY <2>1, RestAgrees, Zenon
  <2>3. queue' = rest
    BY <1>2
  <2> HIDE DEF rest, started
  <2> QED
    BY <2>2, <2>3
<1>6. started \subseteq {f \in Files : list[f] = "pending"}
  BY <1>3 DEF Agree
<1> HIDE DEF started
<1>7. /\ item' \in [Files -> Statuses] /\ reply' \in [Files -> Replies]
      /\ active' \in Nat
  BY <1>2, <1>3 DEF Statuses, Running, Replies
<1>8. SlotsExact'
  <2>1. InFlight' = With(list, Running) \cup started
    BY <1>2, <1>6 DEF InFlight, With, Running
  <2>2. With(list, Running) \cap started = {}
    BY <1>6 DEF With, Running
  <2>3. IsFiniteSet(With(list, Running))
    BY FS_Subset, UploadAssumption DEF With
  <2>4. Cardinality(InFlight') = running + m - Cardinality({})
    BY <2>1, <2>2, <2>3, <1>4, FS_Union
  <2>5. Cardinality({}) = 0
    BY FS_EmptySet
  <2>6. running + m - 0 = running + m
    BY <1>3
  <2>7. Cardinality(InFlight') = active'
    BY <2>4, <2>5, <2>6, <1>2
  <2>8. active' <= MaxConcurrent
    BY <1>1, <1>2
  <2> QED
    BY <2>7, <2>8 DEF SlotsExact
<1>9. NoIdleSlot'
  <2> SUFFICES ASSUME queue' # << >>
               PROVE  active' >= MaxConcurrent
    BY DEF NoIdleSlot
  <2>1. m # Len(q) /\ Len(q) # 0
    <3>1. m # Len(q)
      BY <1>5
    <3>2. m \in Nat /\ m <= Len(q) /\ Len(q) \in Nat
      BY <1>3
    <3> QED
      BY <3>1, <3>2
  <2>2. q # << >>
    BY <2>1, EmptySeq
  <2> QED
    BY <1>1, <1>2, <1>3, <2>1, <2>2, UploadAssumption
<1>10. PendingIsQueued'
  <2>1. {f \in Files : item'[f] = "pending"}
           = {f \in Files : list[f] = "pending"} \ started
    BY <1>2
  <2> QED
    BY <1>5, <2>1 DEF PendingIsQueued, Agree
<1> QED
  BY <1>5, <1>7, <1>8, <1>9, <1>10 DEF ZonePart

\* An upload that ends gives its slot to the next file.
LEMMA SettleFills ==
    ASSUME ZoneInv, NEW f \in Files, item[f] \in Running,
           NEW outcome \in Settled, Settle(f, outcome)
    PROVE  ZonePart' /\ UNCHANGED <<server, polls>>
<1> DEFINE list == [item EXCEPT ![f] = outcome]
           answers == [reply EXCEPT ![f] = "none"]
<1>1. /\ list \in [Files -> Statuses] /\ answers \in [Files -> Replies]
      /\ queue \in Seq(Files) /\ active \in Nat
  BY DEF ZoneInv, TypeOK, Statuses, Replies
<1>2. With(list, Running) = InFlight \ {f}
  BY DEF With, InFlight, Running, Settled, ZoneInv, TypeOK
<1>3. IsFiniteSet(InFlight)
  BY FS_Subset, UploadAssumption DEF InFlight
<1>4. f \in InFlight /\ active = Cardinality(InFlight) /\ active <= MaxConcurrent
  BY DEF InFlight, ZoneInv, SlotsExact
<1>5. Cardinality(InFlight \ {f}) = active - 1
  BY <1>3, <1>4, FS_RemoveElement
<1>6. Cardinality(InFlight \ {f}) \in Nat
  BY <1>3, FS_RemoveElement, FS_CardinalityType
<1>7. active - 1 \in Nat /\ active - 1 <= MaxConcurrent
  BY <1>1, <1>4, <1>5, <1>6, UploadAssumption
<1>8. Agree(list, queue)
  <2>1. {g \in Files : list[g] = "pending"} = {g \in Files : item[g] = "pending"}
    BY DEF Running, Settled, ZoneInv, TypeOK
  <2> QED
    BY <2>1 DEF Agree, ZoneInv, PendingIsQueued
<1>9. queue # << >> => (active - 1) + 1 >= MaxConcurrent
  BY <1>1, UploadAssumption DEF ZoneInv, NoIdleSlot
<1>10. ProcessNext(1, active - 1, queue, list, answers)
  BY DEF Settle
<1> HIDE DEF list, answers
<1>11. ZonePart'
  BY <1>1, <1>2, <1>5, <1>7, <1>8, <1>9, <1>10, ProcessNextFills
<1> QED
  BY <1>11 DEF Settle

-----------------------------------------------------------------------------
(* Every step. *)

LEMMA ZoneInit == Init => ZoneInv
<1> SUFFICES ASSUME Init PROVE ZoneInv
  OBVIOUS
<1>1. TypeOK
  BY UploadAssumption, EmptySeq DEF Init, TypeOK, Documents!Init
<1>2. InFlight = {} /\ DOMAIN queue = {}
  BY EmptySeq DEF Init, InFlight, Running
<1>3. Cardinality(InFlight) = 0
  BY <1>2, FS_EmptySet
<1> QED
  BY <1>1, <1>2, <1>3, UploadAssumption
     DEF Init, ZoneInv, SlotsExact, NoIdleSlot, PendingIsQueued

LEMMA SameSlots ==
    ASSUME ZoneInv, UNCHANGED <<item, queue, active>>
    PROVE  SlotsExact' /\ NoIdleSlot' /\ PendingIsQueued'
  BY DEF ZoneInv, SlotsExact, NoIdleSlot, PendingIsQueued, InFlight

LEMMA ZonePartSuffices ==
    ASSUME ZoneInv, ZonePart', UNCHANGED <<server, polls>>
    PROVE  ZoneInv'
  BY DEF ZoneInv, ZonePart, TypeOK, server, Statuses, Replies

LEMMA MoveKeeps ==
    ASSUME ZoneInv, NEW f \in Files, NEW from \in Running, NEW to \in Running,
           NEW next \in Replies, Move(f, from, to, next)
    PROVE  ZoneInv'
<1>1. TypeOK'
  BY DEF Move, ZoneInv, TypeOK, Running, Settled, Replies, server
<1>2. InFlight' = InFlight
  BY DEF Move, InFlight, ZoneInv, TypeOK
<1>3. {g \in Files : item'[g] = "pending"} = {g \in Files : item[g] = "pending"}
  BY DEF Move, Running, ZoneInv, TypeOK
<1>4. UNCHANGED <<queue, active>>
  BY DEF Move
<1> QED
  BY <1>1, <1>2, <1>3, <1>4
     DEF ZoneInv, SlotsExact, NoIdleSlot, PendingIsQueued

LEMMA DropKeeps == ZoneInv /\ Drop => ZoneInv'
<1> SUFFICES ASSUME ZoneInv, Drop PROVE ZoneInv'
  OBVIOUS
<1>0. PICK S \in SUBSET {f \in Files : item[f] = "none"} \ {{}} :
         \E new \in SetToSeqs(S) :
            ProcessNext(MaxConcurrent, active, queue \o new,
                        [f \in Files |-> IF f \in S THEN "pending" ELSE item[f]],
                        reply)
  BY DEF Drop
<1>1. PICK new \in SetToSeqs(S) :
         ProcessNext(MaxConcurrent, active, queue \o new,
                     [f \in Files |-> IF f \in S THEN "pending" ELSE item[f]],
                     reply)
  BY <1>0
<1> DEFINE list == [f \in Files |-> IF f \in S THEN "pending" ELSE item[f]]
           q == queue \o new
           c == Cardinality(S)
<1>2. /\ list \in [Files -> Statuses] /\ reply \in [Files -> Replies]
      /\ queue \in Seq(Files) /\ active \in Nat /\ active <= MaxConcurrent
  BY DEF ZoneInv, TypeOK, SlotsExact, Statuses, Replies
<1>3. S \subseteq Files /\ IsFiniteSet(S) /\ c \in Nat
  BY FS_Subset, FS_CardinalityType, UploadAssumption
<1>4. /\ new \in [1 .. c -> S]
      /\ \A i, j \in 1 .. c : new[i] = new[j] => i = j
  BY DEF SetToSeqs
<1> HIDE DEF c
<1>5. new \in Seq(Files) /\ Len(new) = c /\ DOMAIN new = 1 .. c
  BY <1>3, <1>4
<1>6. \A f \in S : \E i \in 1 .. c : new[i] = f
  <2>1. new \in Injection(1 .. c, S)
    BY <1>4 DEF Injection, IsInjective
  <2>2. Cardinality(1 .. c) = c
    BY <1>3, IntervalCounts
  <2>3. new \in Surjection(1 .. c, S)
    BY <1>3, <2>1, <2>2, FS_Injection DEF c
  <2> QED
    BY <2>3 DEF Surjection
<1>7. /\ q \in Seq(Files) /\ Len(q) = Len(queue) + c /\ Len(queue) \in Nat
      /\ DOMAIN q = 1 .. Len(queue) + c /\ DOMAIN queue = 1 .. Len(queue)
      /\ \A i \in 1 .. Len(queue) + c :
            q[i] = IF i <= Len(queue) THEN queue[i] ELSE new[i - Len(queue)]
  <2>1. /\ q \in Seq(Files) /\ Len(q) = Len(queue) + Len(new)
        /\ \A i \in 1 .. Len(queue) + Len(new) :
              q[i] = IF i <= Len(queue) THEN queue[i] ELSE new[i - Len(queue)]
    BY <1>2, <1>5, ConcatProperties
  <2>2. Len(queue) \in Nat /\ DOMAIN queue = 1 .. Len(queue)
    BY <1>2, LenProperties
  <2>3. DOMAIN q = 1 .. Len(q)
    BY <2>1, LenProperties
  <2> HIDE DEF q
  <2> QED
    BY <1>5, <2>1, <2>2, <2>3
<1> HIDE DEF q
<1>8. /\ {f \in Files : item[f] = "pending"} = {queue[i] : i \in DOMAIN queue}
      /\ \A i, j \in DOMAIN queue : queue[i] = queue[j] => i = j
  BY DEF ZoneInv, PendingIsQueued
<1>9. \A i \in DOMAIN queue : queue[i] \notin S
  BY <1>8
<1>10. ASSUME NEW i \in DOMAIN q, NEW j \in DOMAIN q, q[i] = q[j] PROVE i = j
  <2>1. CASE i <= Len(queue) /\ j <= Len(queue)
    BY <1>7, <1>8, <1>10, <2>1
  <2>2. CASE i > Len(queue) /\ j > Len(queue)
    <3>1. /\ i - Len(queue) \in 1 .. c /\ j - Len(queue) \in 1 .. c
          /\ new[i - Len(queue)] = new[j - Len(queue)]
      BY <1>3, <1>7, <1>10, <2>2
    <3>2. i - Len(queue) = j - Len(queue)
      BY <1>4, <3>1
    <3> QED
      BY <1>7, <3>2
  <2>3. CASE i <= Len(queue) /\ j > Len(queue)
    <3>1. i \in DOMAIN queue /\ q[i] = queue[i]
      BY <1>7, <2>3
    <3>2. j - Len(queue) \in 1 .. c /\ q[j] = new[j - Len(queue)]
      BY <1>3, <1>7, <2>3
    <3> QED
      BY <3>1, <3>2, <1>4, <1>9, <1>10
  <2>4. CASE i > Len(queue) /\ j <= Len(queue)
    <3>1. j \in DOMAIN queue /\ q[j] = queue[j]
      BY <1>7, <2>4
    <3>2. i - Len(queue) \in 1 .. c /\ q[i] = new[i - Len(queue)]
      BY <1>3, <1>7, <2>4
    <3> QED
      BY <3>1, <3>2, <1>4, <1>9, <1>10
  <2> QED
    BY <1>7, <2>1, <2>2, <2>3, <2>4
<1>11. {q[i] : i \in DOMAIN q} = {queue[i] : i \in DOMAIN queue} \cup S
  <2>1. ASSUME NEW i \in DOMAIN q
        PROVE  q[i] \in {queue[j] : j \in DOMAIN queue} \cup S
    <3>1. CASE i <= Len(queue)
      BY <1>7, <3>1
    <3>2. CASE i > Len(queue)
      <4>1. i - Len(queue) \in 1 .. c /\ q[i] = new[i - Len(queue)]
        BY <1>3, <1>7, <3>2
      <4> QED
        BY <4>1, <1>4
    <3> QED
      BY <1>7, <3>1, <3>2
  <2>2. ASSUME NEW i \in DOMAIN queue
        PROVE  queue[i] \in {q[j] : j \in DOMAIN q}
    <3>1. i \in DOMAIN q /\ q[i] = queue[i]
      BY <1>3, <1>7
    <3> QED
      BY <3>1
  <2>3. ASSUME NEW f \in S
        PROVE  f \in {q[j] : j \in DOMAIN q}
    <3>1. PICK i \in 1 .. c : new[i] = f
      BY <1>6
    <3>2. /\ Len(queue) + i \in DOMAIN q /\ ~(Len(queue) + i <= Len(queue))
          /\ (Len(queue) + i) - Len(queue) = i
      BY <1>3, <1>7
    <3>3. q[Len(queue) + i] = f
      BY <1>7, <3>1, <3>2
    <3> QED
      BY <3>2, <3>3
  <2> QED
    BY <2>1, <2>2, <2>3
<1>12. {f \in Files : list[f] = "pending"} = {f \in Files : item[f] = "pending"} \cup S
  BY <1>3
<1>13. Agree(list, q)
  BY <1>8, <1>10, <1>11, <1>12 DEF Agree
<1>14. With(list, Running) = InFlight
  BY DEF With, InFlight, Running
<1>15. active = Cardinality(With(list, Running))
  BY <1>14 DEF ZoneInv, SlotsExact
<1>16. active + MaxConcurrent >= MaxConcurrent /\ MaxConcurrent \in Nat
  BY <1>2, UploadAssumption
<1>17. ProcessNext(MaxConcurrent, active, q, list, reply)
  BY <1>1 DEF q
<1> HIDE DEF list
<1>18. ZonePart'
  BY <1>2, <1>7, <1>13, <1>15, <1>16, <1>17, ProcessNextFills
<1> QED
  BY <1>18, ZonePartSuffices DEF Drop

LEMMA ContinueKeeps ==
    ASSUME ZoneInv, NEW f \in Files, Continue(f)
    PROVE  ZoneInv'
<1>1. CASE Requested(f) \/ Stored(f) \/ Confirmed(f)
  BY <1>1, MoveKeeps DEF Requested, Stored, Confirmed, Running, Replies
<1>2. CASE Fails(f)
  <2>1. item[f] \in Running /\ "error" \in Settled /\ Settle(f, "error")
    BY <1>2 DEF Fails, Running, Settled
  <2> QED
    BY <2>1, SettleFills, ZonePartSuffices
<1>3. CASE Poll(f)
  <2>1. polls[f] + 1 \in 0 .. MaxPolls
    BY <1>3, UploadAssumption DEF Poll, ZoneInv, TypeOK
  <2>2. TypeOK'
    BY <1>3, <2>1 DEF Poll, ZoneInv, TypeOK, server
  <2> QED
    BY <1>3, <2>2, SameSlots DEF Poll, ZoneInv
<1>4. CASE Polled(f)
  <2>1. item[f] \in Running
    BY <1>4 DEF Polled, Running
  <2>2. CASE Move(f, "processing", "processing", "none")
    BY <2>2, MoveKeeps DEF Running, Replies
  <2>3. CASE \E outcome \in Settled : Settle(f, outcome)
    BY <2>1, <2>3, SettleFills, ZonePartSuffices
  <2> QED
    BY <1>4, <2>2, <2>3 DEF Polled, Settled
<1> QED
  BY <1>1, <1>2, <1>3, <1>4 DEF Continue

LEMMA RespondKeeps ==
    ASSUME ZoneInv, NEW f \in Files, Respond(f)
    PROVE  ZoneInv'
<1>1. UNCHANGED client
  BY DEF Respond, ServeInit, ServePut, ServeConfirm, ServePoll, Lost, Answer
<1>2. \E with \in Replies : reply' = [reply EXCEPT ![f] = with]
  BY DEF Respond, ServeInit, ServePut, ServeConfirm, ServePoll, Lost, Answer,
         Shown, Replies
<1>3. phase' = phase \/ \E to \in {"uploaded", "processing"} :
                           phase' = [phase EXCEPT ![f] = to]
  BY DEF Respond, ServeInit, ServePut, ServeConfirm, ServePoll, Lost, server,
         Documents!Upload, Documents!Confirm, Documents!Move
<1>4. object' \in {object, object \cup {f}} /\ UNCHANGED <<deleting, cutOff>>
  BY DEF Respond, ServeInit, ServePut, ServeConfirm, ServePoll, Lost, server
<1>5. TypeOK'
  BY <1>1, <1>2, <1>3, <1>4 DEF ZoneInv, TypeOK, client, Replies
<1> QED
  BY <1>1, <1>5, SameSlots DEF client, ZoneInv

LEMMA ServerKeeps ==
    ASSUME ZoneInv,
           (\E f \in Files : Process(f)) \/ DeleteObjects \/ DeleteCommits
              \/ DeleteAborts
    PROVE  ZoneInv'
<1>1. UNCHANGED <<client, reply>>
  BY DEF Process, DeleteObjects, DeleteCommits, DeleteAborts
<1>2. TypeOK'
  <2>1. ASSUME NEW f \in Files, Process(f) PROVE TypeOK'
    BY <2>1 DEF Process, Documents!Read, Documents!Index, Documents!Fail,
                Documents!Move, ZoneInv, TypeOK, client
  <2>2. CASE DeleteObjects
    BY <2>2 DEF DeleteObjects, ZoneInv, TypeOK, client
  <2>3. CASE DeleteCommits
    BY <2>3 DEF DeleteCommits, Documents!DeleteSet, ZoneInv, TypeOK, client
  <2>4. CASE DeleteAborts
    BY <2>4 DEF DeleteAborts, ZoneInv, TypeOK, client
  <2> QED
    BY <2>1, <2>2, <2>3, <2>4
<1> QED
  BY <1>1, <1>2, SameSlots DEF client, ZoneInv

LEMMA TakeOffKeeps ==
    ASSUME ZoneInv, CancelPending \/ ClearCompleted
    PROVE  ZoneInv'
<1>1. TypeOK'
  BY EmptySeq DEF CancelPending, ClearCompleted, TakeOff, ZoneInv, TypeOK, server,
                  Running, Settled
<1>2. InFlight' = InFlight /\ active' = active
  BY DEF CancelPending, ClearCompleted, TakeOff, InFlight, Running, Settled
<1>3. CASE CancelPending
  <2>1. {f \in Files : item'[f] = "pending"} = {}
    BY <1>3 DEF CancelPending, TakeOff
  <2>2. queue' = << >> /\ DOMAIN << >> = {}
    BY <1>3, EmptySeq DEF CancelPending
  <2> QED
    BY <1>1, <1>2, <2>1, <2>2
       DEF ZoneInv, SlotsExact, NoIdleSlot, PendingIsQueued
<1>4. CASE ClearCompleted
  <2>1. {f \in Files : item'[f] = "pending"} = {f \in Files : item[f] = "pending"}
    BY <1>4 DEF ClearCompleted, TakeOff, Settled
  <2> QED
    BY <1>1, <1>2, <1>4, <2>1
       DEF ClearCompleted, ZoneInv, SlotsExact, NoIdleSlot, PendingIsQueued
<1> QED
  BY <1>3, <1>4

LEMMA ZoneStep == ZoneInv /\ [Next]_vars => ZoneInv'
<1> SUFFICES ASSUME ZoneInv, [Next]_vars PROVE ZoneInv'
  OBVIOUS
<1>1. CASE UNCHANGED vars
  BY <1>1, SameSlots DEF vars, client, server, ZoneInv, TypeOK
<1>2. CASE Drop
  BY <1>2, DropKeeps
<1>3. CASE CancelPending \/ ClearCompleted
  BY <1>3, TakeOffKeeps
<1>4. ASSUME NEW f \in Files, Continue(f) PROVE ZoneInv'
  BY <1>4, ContinueKeeps
<1>5. ASSUME NEW f \in Files, Respond(f) PROVE ZoneInv'
  BY <1>5, RespondKeeps
<1>6. CASE (\E f \in Files : Process(f)) \/ DeleteObjects \/ DeleteCommits
             \/ DeleteAborts
  BY <1>6, ServerKeeps
<1> QED
  BY <1>1, <1>2, <1>3, <1>4, <1>5, <1>6 DEF Next

LEMMA ZoneAlways == Spec => []ZoneInv
  BY ZoneInit, ZoneStep, PTL DEF Spec

\* The variables keep their types: activeRef never falls below zero, and the loop
\* of uploadFile never polls more often than it may.
THEOREM ZoneTypeCorrect == Spec => []TypeOK
  BY ZoneAlways, PTL DEF ZoneInv

\* activeRef is the number of uploads under way and never above MAX_CONCURRENT:
\* every path out of uploadFile frees its slot once.
THEOREM SlotsAreExact == Spec => []SlotsExact
  BY ZoneAlways, PTL DEF ZoneInv

\* A file waits only while every slot is taken, although only the ends of uploads
\* and new drops call processNext.
THEOREM SlotsAreBusy == Spec => []NoIdleSlot
  BY ZoneAlways, PTL DEF ZoneInv

\* queueRef holds the entries shown as pending, once each: what the page shows as
\* waiting is what processNext will take.
THEOREM QueueIsShown == Spec => []PendingIsQueued
  BY ZoneAlways, PTL DEF ZoneInv

-----------------------------------------------------------------------------
(* Objects. *)

\* From the answer to the PUT to the answer to the confirmation, the object is in
\* storage, unless a deletion took it.
ObjectThere ==
    \A f \in Files :
        (item[f] = "uploading" /\ reply[f] = "ok") \/ item[f] = "confirming"
            => f \in object \cup deleting \cup cutOff \/ phase[f] = "deleted"

StoredInv == ObjectThere /\ ConfirmedIsStored

LEMMA StoredInit == Init => StoredInv
  BY DEF Init, Documents!Init, StoredInv, ObjectThere, ConfirmedIsStored

\* A step of the page shows a file as uploading and answered, or as confirming,
\* only if it was before.
LEMMA StoredClient ==
    ASSUME StoredInv, UNCHANGED server,
           \A f \in Files :
              (item'[f] = "uploading" /\ reply'[f] = "ok") \/ item'[f] = "confirming"
                  => (item[f] = "uploading" /\ reply[f] = "ok")
                        \/ item[f] = "confirming"
    PROVE  StoredInv'
  BY DEF StoredInv, ObjectThere, ConfirmedIsStored, server

LEMMA ProcessNextShows ==
    ASSUME NEW k, NEW running, NEW q, NEW list, NEW answers,
           ProcessNext(k, running, q, list, answers), NEW f \in Files,
           item'[f] # "requesting"
    PROVE  item'[f] = list[f] /\ reply'[f] = answers[f]
<1> DEFINE started == {q[i] : i \in 1 .. Cardinality(Startable(k, running, q))}
<1>1. /\ item' = [g \in Files |-> IF g \in started THEN "requesting" ELSE list[g]]
      /\ reply' = [g \in Files |-> IF g \in started THEN "sent" ELSE answers[g]]
  BY DEF ProcessNext
<1> HIDE DEF started
<1> QED
  BY <1>1

LEMMA SettleStored ==
    ASSUME ZoneInv, StoredInv, NEW f \in Files, NEW outcome \in Settled,
           Settle(f, outcome)
    PROVE  StoredInv'
<1> DEFINE list == [item EXCEPT ![f] = outcome]
           answers == [reply EXCEPT ![f] = "none"]
<1>1. ProcessNext(1, active - 1, queue, list, answers) /\ UNCHANGED server
  BY DEF Settle
<1>2. \A g \in Files :
         \/ list[g] = item[g] /\ answers[g] = reply[g]
         \/ list[g] \in Settled
  BY DEF ZoneInv, TypeOK
<1> HIDE DEF list, answers
<1>3. ASSUME NEW g \in Files,
             (item'[g] = "uploading" /\ reply'[g] = "ok") \/ item'[g] = "confirming"
      PROVE  (item[g] = "uploading" /\ reply[g] = "ok") \/ item[g] = "confirming"
  <2>1. item'[g] = list[g] /\ reply'[g] = answers[g]
    BY <1>1, <1>3, ProcessNextShows
  <2> QED
    BY <1>2, <1>3, <2>1 DEF Settled
<1> QED
  BY <1>1, <1>3, StoredClient

LEMMA DropStored ==
    ASSUME ZoneInv, StoredInv, Drop
    PROVE  StoredInv'
<1>1. PICK S \in SUBSET {f \in Files : item[f] = "none"} \ {{}} :
         \E new \in SetToSeqs(S) :
            ProcessNext(MaxConcurrent, active, queue \o new,
                        [f \in Files |-> IF f \in S THEN "pending" ELSE item[f]],
                        reply)
  BY DEF Drop
<1>2. ASSUME NEW g \in Files,
             (item'[g] = "uploading" /\ reply'[g] = "ok") \/ item'[g] = "confirming"
      PROVE  (item[g] = "uploading" /\ reply[g] = "ok") \/ item[g] = "confirming"
  <2> DEFINE list == [f \in Files |-> IF f \in S THEN "pending" ELSE item[f]]
  <2>1. list[g] \in {"pending", item[g]}
    OBVIOUS
  <2> HIDE DEF list
  <2>2. item'[g] = list[g] /\ reply'[g] = reply[g]
    BY <1>1, <1>2, ProcessNextShows DEF list
  <2> QED
    BY <1>2, <2>1, <2>2
<1>3. UNCHANGED server
  BY DEF Drop
<1> QED
  BY <1>2, <1>3, StoredClient

LEMMA ContinueStored ==
    ASSUME ZoneInv, StoredInv, NEW f \in Files, Continue(f)
    PROVE  StoredInv'
<1>1. CASE Requested(f) \/ Confirmed(f) \/ Poll(f)
  <2>1. \A g \in Files :
          (item'[g] = "uploading" /\ reply'[g] = "ok") \/ item'[g] = "confirming"
              => (item[g] = "uploading" /\ reply[g] = "ok") \/ item[g] = "confirming"
    BY <1>1 DEF Requested, Confirmed, Poll, Move, ZoneInv, TypeOK
  <2>2. UNCHANGED server
    BY <1>1 DEF Requested, Confirmed, Poll, Move
  <2> QED
    BY <2>1, <2>2, StoredClient
<1>2. CASE Stored(f)
  BY <1>2 DEF Stored, Move, ZoneInv, TypeOK, StoredInv, ObjectThere,
              ConfirmedIsStored, server
<1>3. CASE Fails(f)
  BY <1>3, SettleStored DEF Fails, Settled
<1>4. CASE Polled(f)
  <2>1. CASE Move(f, "processing", "processing", "none")
    <3>1. \A g \in Files :
            (item'[g] = "uploading" /\ reply'[g] = "ok") \/ item'[g] = "confirming"
                => (item[g] = "uploading" /\ reply[g] = "ok") \/ item[g] = "confirming"
      BY <2>1 DEF Move, ZoneInv, TypeOK
    <3>2. UNCHANGED server
      BY <2>1 DEF Move
    <3> QED
      BY <3>1, <3>2, StoredClient
  <2>2. CASE \E outcome \in Settled : Settle(f, outcome)
    BY <2>2, SettleStored
  <2> QED
    BY <1>4, <2>1, <2>2 DEF Polled, Settled
<1> QED
  BY <1>1, <1>2, <1>3, <1>4 DEF Continue

LEMMA RespondStored ==
    ASSUME ZoneInv, StoredInv, NEW f \in Files, Respond(f)
    PROVE  StoredInv'
<1> USE DEF StoredInv, ObjectThere, ConfirmedIsStored, ZoneInv, TypeOK, Answer, client
<1>1. CASE ServeInit(f)
  BY <1>1 DEF ServeInit, Documents!Upload, Documents!Move
<1>2. CASE ServePut(f)
  BY <1>2 DEF ServePut
<1>3. CASE ServeConfirm(f)
  BY <1>3 DEF ServeConfirm, Documents!Confirm, Documents!Move
<1>4. CASE ServePoll(f)
  BY <1>4 DEF ServePoll, server
<1>5. CASE Lost(f)
  BY <1>5 DEF Lost, server
<1> QED
  BY <1>1, <1>2, <1>3, <1>4, <1>5 DEF Respond

LEMMA ServerStored ==
    ASSUME ZoneInv, StoredInv,
           (\E f \in Files : Process(f)) \/ DeleteObjects \/ DeleteCommits
              \/ DeleteAborts
    PROVE  StoredInv'
<1> USE DEF StoredInv, ObjectThere, ConfirmedIsStored, ZoneInv, TypeOK, client
<1>1. ASSUME NEW f \in Files, Process(f) PROVE StoredInv'
  BY <1>1 DEF Process, Documents!Read, Documents!Index, Documents!Fail,
              Documents!Move
<1>2. CASE DeleteObjects
  BY <1>2 DEF DeleteObjects
<1>3. CASE DeleteCommits
  BY <1>3 DEF DeleteCommits, Documents!DeleteSet
<1>4. CASE DeleteAborts
  BY <1>4 DEF DeleteAborts
<1> QED
  BY <1>1, <1>2, <1>3, <1>4

LEMMA StoredStep == ZoneInv /\ StoredInv /\ [Next]_vars => StoredInv'
<1> SUFFICES ASSUME ZoneInv, StoredInv, [Next]_vars PROVE StoredInv'
  OBVIOUS
<1>1. CASE UNCHANGED vars
  BY <1>1, StoredClient DEF vars, client, server
<1>2. CASE Drop
  BY <1>2, DropStored
<1>3. CASE CancelPending \/ ClearCompleted
  <2>1. \A g \in Files : item'[g] \in {item[g], "gone"} /\ reply'[g] = reply[g]
    BY <1>3 DEF CancelPending, ClearCompleted, TakeOff
  <2>2. UNCHANGED server
    BY <1>3 DEF CancelPending, ClearCompleted
  <2> QED
    BY <2>1, <2>2, StoredClient
<1>4. ASSUME NEW f \in Files, Continue(f) PROVE StoredInv'
  BY <1>4, ContinueStored
<1>5. ASSUME NEW f \in Files, Respond(f) PROVE StoredInv'
  BY <1>5, RespondStored
<1>6. CASE (\E f \in Files : Process(f)) \/ DeleteObjects \/ DeleteCommits
             \/ DeleteAborts
  BY <1>6, ServerStored
<1> QED
  BY <1>1, <1>2, <1>3, <1>4, <1>5, <1>6 DEF Next

\* A document that this zone confirmed has its object, unless a deletion of it is
\* under way or was cut off: confirm does not look, and need not, because the
\* zone confirms only what storage has acknowledged.
THEOREM ObjectsAreStored == Spec => []ConfirmedIsStored
<1>1. Init => ZoneInv /\ StoredInv
  BY ZoneInit, StoredInit
<1>2. ZoneInv /\ StoredInv /\ [Next]_vars => ZoneInv' /\ StoredInv'
  BY ZoneStep, StoredStep
<1>3. StoredInv => ConfirmedIsStored
  BY DEF StoredInv
<1> QED
  BY <1>1, <1>2, <1>3, PTL DEF Spec
=============================================================================
