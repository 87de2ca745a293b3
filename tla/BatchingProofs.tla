--------------------------- MODULE BatchingProofs ---------------------------
(***************************************************************************)
(* What a batch contains, for any rows, places, sizes and limits: the loop *)
(* of _batch as a fold, which is a recursion over sets of rows.  A claim   *)
(* about all of these sets holds because a least set for which it fails    *)
(* would have a last row, and without that row the claim holds.            *)
(***************************************************************************)
EXTENDS Batching, NumberLemmas

\* A finite set of rows has a last one.
LEMMA LastIsMember ==
  ASSUME NEW rows, IsFiniteSet(rows), rows # {}, \A p \in rows : p[1] \in Nat
  PROVE  LastOf(rows) \in rows /\ \A q \in rows : q[1] <= LastOf(rows)[1]
<1> DEFINE places == {p[1] : p \in rows}
           placeOf == [p \in rows |-> p[1]]
<1>1. IsFiniteSet(places)
  <2>1. placeOf \in Surjection(rows, places)
    BY DEF Surjection
  <2> QED
    BY <2>1, FS_Surjection
<1>2. places \in SUBSET Nat /\ places # {}
  OBVIOUS
<1>3. Max(places) \in places /\ \A y \in places : y <= Max(places)
  <2> HIDE DEF places
  <2> QED
    BY <1>1, <1>2, MaxIsMember
<1>4. PICK p \in rows : p[1] = Max(places)
  BY <1>3
<1>5. \A q \in rows : q[1] <= p[1]
  BY <1>3, <1>4
<1> QED
  BY <1>4, <1>5 DEF LastOf

\* Among some subsets of a finite set there is one none of the others is part of.
LEMMA LeastSet ==
  ASSUME NEW S, IsFiniteSet(S), NEW B \in SUBSET SUBSET S, B # {}
  PROVE  \E Q \in B : \A R \in B : R \subseteq Q => R = Q
<1>1. IsWellFoundedOn(StrictSubsetOrdering(S), SUBSET S)
  BY FS_StrictSubsetOrderingWellFounded, FS_FiniteSubsetsOfFinite
<1>2. PICK Q \in B : \A R \in B : ~ (<<R, Q>> \in StrictSubsetOrdering(S))
  BY <1>1, WFMin
<1>3. ASSUME NEW R \in B, R \subseteq Q, R # Q PROVE FALSE
  <2>1. <<R, Q>> \in StrictSubsetOrdering(S)
    BY <1>3 DEF StrictSubsetOrdering
  <2> QED
    BY <1>2, <2>1
<1> QED
  BY <1>3

\* What the loop has after each part of the rows, all of them included.
IsLoop(after, rows, size, limits) ==
    /\ after[rows] = Inspected(rows, size, limits)
    /\ \A Q \in SUBSET rows :
         after[Q] = IF Q = {} THEN NothingChosen
                    ELSE Inspect(after[Q \ {LastOf(Q)}], LastOf(Q)[2], size, limits)

\* The loop over some rows ends with the inspection of the last one.
LEMMA InspectedStepwise ==
  ASSUME NEW rows, IsFiniteSet(rows), \A p \in rows : p[1] \in Nat, NEW size, NEW limits
  PROVE  \E after : IsLoop(after, rows, size, limits)
<1> DEFINE Body(g, Q) == IF Q = {} THEN NothingChosen
                         ELSE Inspect(g[Q \ {LastOf(Q)}], LastOf(Q)[2], size, limits)
           UpTo(k) == {Q \in SUBSET rows : Cardinality(Q) <= k}
           Fits(k) == \E g : g = [Q \in UpTo(k) |-> Body(g, Q)]
           Loop == CHOOSE g : g = [Q \in SUBSET rows |-> Body(g, Q)]
<1>1. ASSUME NEW Q \in SUBSET rows
      PROVE  /\ IsFiniteSet(Q) /\ Cardinality(Q) \in Nat /\ Cardinality(Q) <= Cardinality(rows)
             /\ Cardinality(Q) = 0 <=> Q = {}
             /\ Q # {} => /\ LastOf(Q) \in Q
                          /\ Cardinality(Q \ {LastOf(Q)}) = Cardinality(Q) - 1
  <2>1. IsFiniteSet(Q) /\ Cardinality(Q) <= Cardinality(rows)
    BY FS_Subset
  <2>2. Cardinality(Q) \in Nat /\ (Cardinality(Q) = 0 <=> Q = {})
    BY <2>1, FS_CardinalityType, FS_EmptySet
  <2>3. ASSUME Q # {} PROVE LastOf(Q) \in Q
    BY <2>1, <2>3, LastIsMember
  <2>4. Q # {} => Cardinality(Q \ {LastOf(Q)}) = Cardinality(Q) - 1
    BY <2>1, <2>3, FS_RemoveElement
  <2> QED
    BY <2>1, <2>2, <2>3, <2>4
<1>2. Cardinality(rows) \in Nat
  BY FS_CardinalityType
<1>3. \A k \in Nat : Fits(k)
  <2> DEFINE Misfits == {k \in Nat : ~Fits(k)}
  <2>1. SUFFICES ASSUME Misfits # {} PROVE FALSE
    OBVIOUS
  <2> DEFINE k == Min(Misfits)
  <2>2. k \in Misfits /\ \A j \in Misfits : k <= j
    <3>1. Misfits \in SUBSET Nat
      OBVIOUS
    <3> HIDE DEF Misfits
    <3> QED
      BY <2>1, <3>1, MinIsMember
  <2> HIDE DEF k
  <2>3. CASE k = 0
    <3> DEFINE g == [Q \in UpTo(0) |-> NothingChosen]
    <3>1. ASSUME NEW Q \in UpTo(0) PROVE Q = {}
      <4>1. Q \in SUBSET rows /\ Cardinality(Q) <= 0
        OBVIOUS
      <4>2. Cardinality(Q) \in Nat /\ (Cardinality(Q) = 0 <=> Q = {})
        BY <1>1, <4>1
      <4> QED
        BY <4>1, <4>2
    <3>2. g = [Q \in UpTo(0) |-> Body(g, Q)]
      BY <3>1
    <3> QED
      BY <2>2, <2>3, <3>2
  <2>4. CASE k # 0
    <3>1. k - 1 \in Nat /\ k \in Nat
      BY <2>2, <2>4
    <3>2. Fits(k - 1)
      <4>1. k - 1 \notin Misfits
        <5>1. ~ (k <= k - 1)
          BY <3>1
        <5> HIDE DEF Misfits
        <5> QED
          BY <2>2, <5>1
      <4> HIDE DEF Fits
      <4> QED
        BY <3>1, <4>1
    <3>3. PICK g : g = [Q \in UpTo(k - 1) |-> Body(g, Q)]
      BY <3>2
    <3> DEFINE h == [Q \in UpTo(k) |-> Body(g, Q)]
    <3>4. ASSUME NEW Q \in UpTo(k) PROVE Body(h, Q) = Body(g, Q)
      <4>1. CASE Q = {}
        BY <4>1
      <4>2. CASE Q # {}
        <5> DEFINE R == Q \ {LastOf(Q)}
        <5>1. R \in UpTo(k - 1) /\ R \in UpTo(k)
          BY <1>1, <3>1, <4>2
        <5>2. g[R] = Body(g, R) /\ h[R] = Body(g, R)
          <6> HIDE DEF Body, R, UpTo
          <6>1. g[R] = Body(g, R)
            BY <3>3, <5>1
          <6> QED
            BY <5>1, <6>1
        <5> QED
          BY <4>2, <5>2
      <4> QED
        BY <4>1, <4>2
    <3>5. h = [Q \in UpTo(k) |-> Body(h, Q)]
      <4> HIDE DEF Body, UpTo
      <4> QED
        BY <3>4
    <3> QED
      BY <2>2, <3>5
  <2> QED
    BY <2>3, <2>4
<1>4. UpTo(Cardinality(rows)) = SUBSET rows
  BY <1>1
<1>5. \E g : g = [Q \in SUBSET rows |-> Body(g, Q)]
  <2>1. Fits(Cardinality(rows))
    BY <1>2, <1>3
  <2> HIDE DEF Body, UpTo
  <2> QED
    BY <1>4, <2>1
<1>6. Loop = [Q \in SUBSET rows |-> Body(Loop, Q)]
  <2> HIDE DEF Body
  <2> QED
    BY <1>5
<1>7. Loop[rows] = Inspected(rows, size, limits)
  BY DEF Inspected, MapThenFoldSet
<1>8. \A Q \in SUBSET rows : Loop[Q] = Body(Loop, Q)
  <2> HIDE DEF Body, Loop
  <2> QED
    BY <1>6
<1> HIDE DEF Loop
<1> QED
  BY <1>7, <1>8 DEF IsLoop
-----------------------------------------------------------------------------
(* The loop, for rows with given sizes and for the limits of a request.    *)

\* The bytes of some rows, one by one.
BytesIn(E, size) == UNION {{e} \X (1..size[e]) : e \in E}

\* One more row is as many more bytes as it is long.
LEMMA BytesAddUp ==
  ASSUME NEW E, IsFiniteSet(E), NEW e, e \notin E, NEW size,
         \A f \in E \cup {e} : size[f] \in Nat
  PROVE  /\ IsFiniteSet(BytesIn(E, size)) /\ Cardinality(BytesIn(E, size)) \in Nat
         /\ Cardinality(BytesIn(E \cup {e}, size)) = Cardinality(BytesIn(E, size)) + size[e]
<1> DEFINE Of(f) == {f} \X (1..size[f])
           Sets == {Of(f) : f \in E}
           Bytes(F) == BytesIn(F, size)
<1>1. ASSUME NEW f \in E \cup {e}
      PROVE  IsFiniteSet(Of(f)) /\ Cardinality(Of(f)) = size[f]
  <2>1. size[f] \in Nat /\ 1 \in Int
    OBVIOUS
  <2>2. IsFiniteSet(1..size[f]) /\ Cardinality(1..size[f]) = size[f]
    <3>1. Cardinality(1..size[f]) = IF 1 > size[f] THEN 0 ELSE size[f] - 1 + 1
      BY <2>1, FS_Interval
    <3>2. IsFiniteSet(1..size[f])
      BY <2>1, FS_Interval
    <3> QED
      BY <2>1, <3>1, <3>2
  <2>3. IsFiniteSet({f}) /\ Cardinality({f}) = 1
    BY FS_Singleton
  <2>4. IsFiniteSet({f} \X (1..size[f])) /\ Cardinality({f} \X (1..size[f])) = 1 * size[f]
    BY ZenonT(30), <2>2, <2>3, FS_Product
  <2> QED
    BY <2>1, <2>4
<1>2. IsFiniteSet(Sets)
  <2> DEFINE each == [f \in E |-> Of(f)]
  <2>1. each \in Surjection(E, Sets)
    BY DEF Surjection
  <2> QED
    BY <2>1, FS_Surjection
<1>3. IsFiniteSet(Bytes(E)) /\ Cardinality(Bytes(E)) \in Nat
  <2>1. \A T \in Sets : IsFiniteSet(T)
    BY <1>1
  <2>2. Bytes(E) = UNION Sets
    BY DEF BytesIn
  <2> HIDE DEF Sets, Bytes
  <2> QED
    BY <1>2, <2>1, <2>2, FS_UNION, FS_CardinalityType
<1>4. Bytes(E \cup {e}) = Bytes(E) \cup Of(e) /\ Bytes(E) \cap Of(e) = {}
  BY DEF BytesIn
<1>5. IsFiniteSet(Of(e)) /\ Cardinality(Of(e)) = size[e] /\ size[e] \in Nat
  BY <1>1
<1> HIDE DEF Bytes, Of
<1>6. Cardinality(Bytes(E) \cup Of(e))
      = Cardinality(Bytes(E)) + Cardinality(Of(e)) - Cardinality(Bytes(E) \cap Of(e))
  BY <1>3, <1>5, FS_Union
<1>7. Cardinality(Bytes(E) \cap Of(e)) = 0
  BY <1>4, FS_EmptySet
<1> DEFINE n == Cardinality(Bytes(E))
<1>8. n \in Nat /\ Cardinality(Bytes(E \cup {e})) = n + size[e] - 0
  BY <1>3, <1>4, <1>5, <1>6, <1>7
<1> HIDE DEF n
<1>9. n + size[e] - 0 = n + size[e]
  BY <1>5, <1>8
<1> QED
  BY <1>3, <1>8, <1>9 DEF n, Bytes

\* What the loop has at any time: as much as the limits allow, of rows that a request can
\* carry, and apart from them rows that none can.
IsSound(acc, E, size, limits) ==
    /\ acc \in [chosen : SUBSET E, tooLarge : SUBSET E, bytes : Nat]
    /\ IsFiniteSet(acc.chosen) /\ Cardinality(acc.chosen) <= limits.packets
    /\ acc.bytes <= limits.bytes
    /\ Cardinality(BytesIn(acc.chosen, size)) <= acc.bytes
    /\ \A e \in acc.chosen : size[e] <= limits.bytes
    /\ \A e \in acc.tooLarge : limits.bytes < size[e]

\* The inspection of a row keeps to the limits.
LEMMA InspectionIsSound ==
  ASSUME NEW E, NEW e \in E, NEW size, \A f \in E : size[f] \in Nat,
         NEW limits, limits.packets \in Nat, limits.bytes \in Nat,
         NEW acc, IsSound(acc, E, size, limits)
  PROVE  IsSound(Inspect(acc, e, size, limits), E, size, limits)
<1> DEFINE Count(F) == Cardinality(BytesIn(F, size))
           new == Inspect(acc, e, size, limits)
<1>1. /\ acc \in [chosen : SUBSET E, tooLarge : SUBSET E, bytes : Nat]
      /\ IsFiniteSet(acc.chosen) /\ Cardinality(acc.chosen) <= limits.packets
      /\ acc.bytes <= limits.bytes
      /\ Count(acc.chosen) <= acc.bytes
      /\ \A f \in acc.chosen : size[f] <= limits.bytes
      /\ \A f \in acc.tooLarge : limits.bytes < size[f]
  BY DEF IsSound
<1>2. /\ acc.chosen \in SUBSET E /\ acc.tooLarge \in SUBSET E /\ acc.bytes \in Nat /\ size[e] \in Nat
      /\ Cardinality(acc.chosen) \in Nat
  BY <1>1, FS_CardinalityType
<1>3. CASE new = acc
  BY <1>3
<1>4. CASE /\ Cardinality(acc.chosen) < limits.packets /\ acc.bytes + size[e] <= limits.bytes
           /\ new = [acc EXCEPT !.chosen = @ \cup {e}, !.bytes = @ + size[e]]
  <2>1. /\ new.chosen = acc.chosen \cup {e} /\ new.tooLarge = acc.tooLarge
        /\ new.bytes = acc.bytes + size[e]
        /\ new \in [chosen : SUBSET E, tooLarge : SUBSET E, bytes : Nat]
    <3> DEFINE c == acc.chosen \cup {e}
               b == acc.bytes + size[e]
    <3>1. c \in SUBSET E /\ b \in Nat /\ new = [acc EXCEPT !.chosen = c, !.bytes = b]
      BY <1>2, <1>4
    <3> HIDE DEF c, b, new
    <3>2. new = [chosen |-> c, tooLarge |-> acc.tooLarge, bytes |-> b]
      BY <1>1, <3>1
    <3>3. new.chosen = c /\ new.tooLarge = acc.tooLarge /\ new.bytes = b
      BY <3>2
    <3>4. new \in [chosen : SUBSET E, tooLarge : SUBSET E, bytes : Nat]
      BY <1>2, <3>1, <3>2
    <3> QED
      BY <3>3, <3>4 DEF c, b
  <2>2. IsFiniteSet(new.chosen) /\ Cardinality(new.chosen) <= limits.packets
    <3>1. /\ IsFiniteSet(acc.chosen \cup {e})
          /\ Cardinality(acc.chosen \cup {e}) \in {Cardinality(acc.chosen), Cardinality(acc.chosen) + 1}
      BY <1>1, FS_AddElement
    <3> QED
      BY <1>2, <1>4, <2>1, <3>1
  <2>3. Count(new.chosen) <= new.bytes
    <3>1. CASE e \in acc.chosen
      <4>1. new.chosen = acc.chosen
        BY <2>1, <3>1
      <4>2. Count(acc.chosen) \in Nat
        <5>1. IsFiniteSet(acc.chosen \ {e}) /\ (acc.chosen \ {e}) \cup {e} = acc.chosen /\ e \notin acc.chosen \ {e}
          BY <1>1, <3>1, FS_RemoveElement
        <5>2. \A f \in (acc.chosen \ {e}) \cup {e} : size[f] \in Nat
          BY <1>2
        <5>3. /\ Count(acc.chosen \ {e}) \in Nat
              /\ Count((acc.chosen \ {e}) \cup {e}) = Count(acc.chosen \ {e}) + size[e]
          BY <5>1, <5>2, BytesAddUp
        <5>4. Count((acc.chosen \ {e}) \cup {e}) \in Nat
          BY <1>2, <5>3
        <5> QED
          BY <5>1, <5>4
      <4>3. Count(acc.chosen) <= acc.bytes + size[e]
        <5> DEFINE m == Count(acc.chosen)
        <5>1. m \in Nat /\ m <= acc.bytes /\ acc.bytes \in Nat /\ size[e] \in Nat
          BY <1>1, <1>2, <4>2
        <5> HIDE DEF m
        <5>2. m <= acc.bytes + size[e]
          BY <5>1
        <5> QED
          BY <5>2 DEF m
      <4> QED
        BY <2>1, <4>1, <4>3
    <3>2. CASE e \notin acc.chosen
      <4>1. \A f \in acc.chosen \cup {e} : size[f] \in Nat
        BY <1>2
      <4>2. /\ Count(acc.chosen) \in Nat
            /\ Count(acc.chosen \cup {e}) = Count(acc.chosen) + size[e]
        BY <1>1, <3>2, <4>1, BytesAddUp
      <4> HIDE DEF Count, new
      <4> QED
        BY <1>1, <1>2, <2>1, <4>2
    <3> QED
      BY <3>1, <3>2
  <2>4. \A f \in new.chosen : size[f] <= limits.bytes
    BY <1>1, <1>2, <1>4, <2>1
  <2> QED
    BY <1>1, <1>4, <2>1, <2>2, <2>3, <2>4 DEF IsSound
<1>5. CASE /\ size[e] > limits.bytes
           /\ new = [acc EXCEPT !.tooLarge = @ \cup {e}]
  <2>1. /\ new.chosen = acc.chosen /\ new.tooLarge = acc.tooLarge \cup {e} /\ new.bytes = acc.bytes
        /\ new \in [chosen : SUBSET E, tooLarge : SUBSET E, bytes : Nat]
    BY <1>1, <1>2, <1>5
  <2>2. \A f \in new.tooLarge : limits.bytes < size[f]
    BY <1>1, <1>2, <1>5, <2>1
  <2> QED
    BY <1>1, <2>1, <2>2 DEF IsSound
<1>6. \/ new = acc
      \/ /\ Cardinality(acc.chosen) < limits.packets /\ acc.bytes + size[e] <= limits.bytes
         /\ new = [acc EXCEPT !.chosen = @ \cup {e}, !.bytes = @ + size[e]]
      \/ size[e] > limits.bytes /\ new = [acc EXCEPT !.tooLarge = @ \cup {e}]
  BY <1>2 DEF Inspect
<1> QED
  BY <1>3, <1>4, <1>5, <1>6

\* What the loop has after any part of the rows is sound.
LEMMA PartsAreSound ==
  ASSUME NEW rows, IsFiniteSet(rows), \A p \in rows : p[1] \in Nat,
         NEW E, \A p \in rows : p[2] \in E, NEW size, \A f \in E : size[f] \in Nat,
         NEW limits, limits.packets \in Nat, limits.bytes \in Nat,
         NEW after, IsLoop(after, rows, size, limits)
  PROVE  \A Q \in SUBSET rows : IsSound(after[Q], E, size, limits)
<1>1. /\ after[rows] = Inspected(rows, size, limits)
      /\ \A Q \in SUBSET rows :
           after[Q] = IF Q = {} THEN NothingChosen
                      ELSE Inspect(after[Q \ {LastOf(Q)}], LastOf(Q)[2], size, limits)
  BY DEF IsLoop
<1>2. IsSound(NothingChosen, E, size, limits)
  <2>1. BytesIn({}, size) = {}
    BY DEF BytesIn
  <2> QED
    BY <2>1, FS_EmptySet DEF IsSound, NothingChosen
<1> DEFINE Unsound == {Q \in SUBSET rows : ~IsSound(after[Q], E, size, limits)}
<1>3. Unsound = {}
  <2> SUFFICES ASSUME Unsound # {} PROVE FALSE
    OBVIOUS
  <2>1. PICK Q \in Unsound : \A R \in Unsound : R \subseteq Q => R = Q
    <3>1. Unsound \in SUBSET SUBSET rows
      OBVIOUS
    <3> HIDE DEF Unsound
    <3> QED
      BY <3>1, LeastSet
  <2>2. Q \in SUBSET rows /\ ~IsSound(after[Q], E, size, limits)
    OBVIOUS
  <2>3. Q # {}
    BY <1>1, <1>2, <2>2
  <2>4. IsFiniteSet(Q) /\ LastOf(Q) \in Q
    <3>1. IsFiniteSet(Q)
      BY <2>2, FS_Subset
    <3> QED
      BY <2>2, <2>3, <3>1, LastIsMember
  <2> DEFINE R == Q \ {LastOf(Q)}
  <2>5. R \in SUBSET rows /\ R \notin Unsound
    BY <2>1, <2>2, <2>4
  <2>6. IsSound(after[R], E, size, limits)
    BY <2>5
  <2>7. LastOf(Q)[2] \in E /\ after[Q] = Inspect(after[R], LastOf(Q)[2], size, limits)
    BY <1>1, <2>2, <2>3, <2>4
  <2> HIDE DEF R, Unsound
  <2>8. IsSound(Inspect(after[R], LastOf(Q)[2], size, limits), E, size, limits)
    BY <2>6, <2>7, InspectionIsSound
  <2> QED
    BY <2>2, <2>7, <2>8
<1> QED
  BY <1>3

LEMMA LoopIsSound ==
  ASSUME NEW rows, IsFiniteSet(rows), \A p \in rows : p[1] \in Nat,
         NEW E, \A p \in rows : p[2] \in E, NEW size, \A f \in E : size[f] \in Nat,
         NEW limits, limits.packets \in Nat, limits.bytes \in Nat
  PROVE  IsSound(Inspected(rows, size, limits), E, size, limits)
<1>1. PICK after : IsLoop(after, rows, size, limits)
  BY InspectedStepwise
<1>2. \A Q \in SUBSET rows : IsSound(after[Q], E, size, limits)
  BY <1>1, PartsAreSound
<1>3. after[rows] = Inspected(rows, size, limits) /\ rows \in SUBSET rows
  BY <1>1 DEF IsLoop
<1> QED
  BY <1>2, <1>3

\* The row that is inspected first is in the batch if a request can carry it.
LEMMA FirstIsChosen ==
  ASSUME NEW rows, IsFiniteSet(rows), \A p \in rows : p[1] \in Nat,
         NEW size, NEW limits, limits.packets \in Nat \ {0},
         NEW first \in rows, \A p \in rows : p # first => first[1] < p[1],
         size[first[2]] \in Nat, size[first[2]] <= limits.bytes
  PROVE  first[2] \in Inspected(rows, size, limits).chosen
<1>0. PICK after : IsLoop(after, rows, size, limits)
  BY InspectedStepwise
<1>1. /\ after[rows] = Inspected(rows, size, limits)
      /\ \A Q \in SUBSET rows :
           after[Q] = IF Q = {} THEN NothingChosen
                      ELSE Inspect(after[Q \ {LastOf(Q)}], LastOf(Q)[2], size, limits)
  BY <1>0 DEF IsLoop
<1> DEFINE IsRecord(acc) == {"chosen", "tooLarge", "bytes"} \subseteq DOMAIN acc
           Missed == {Q \in SUBSET rows :
                        first \in Q /\ ~ (IsRecord(after[Q]) /\ first[2] \in after[Q].chosen)}
<1>2. Missed = {}
  <2> SUFFICES ASSUME Missed # {} PROVE FALSE
    OBVIOUS
  <2>1. PICK Q \in Missed : \A R \in Missed : R \subseteq Q => R = Q
    <3>1. Missed \in SUBSET SUBSET rows
      OBVIOUS
    <3> HIDE DEF Missed
    <3> QED
      BY <3>1, LeastSet
  <2>2. /\ Q \in SUBSET rows /\ first \in Q
        /\ ~ (IsRecord(after[Q]) /\ first[2] \in after[Q].chosen)
    OBVIOUS
  <2>3. IsFiniteSet(Q) /\ LastOf(Q) \in Q /\ \A q \in Q : q[1] <= LastOf(Q)[1]
    <3>1. IsFiniteSet(Q)
      BY <2>2, FS_Subset
    <3> QED
      BY <2>2, <3>1, LastIsMember
  <2> DEFINE R == Q \ {LastOf(Q)}
  <2>4. after[Q] = Inspect(after[R], LastOf(Q)[2], size, limits) /\ R \in SUBSET rows
    BY <1>1, <2>2
  <2>5. CASE LastOf(Q) = first
    <3>1. \A q \in Q : q = first
      <4> SUFFICES ASSUME NEW q \in Q, q # first PROVE FALSE
        OBVIOUS
      <4>1. first[1] < q[1] /\ q[1] <= first[1] /\ q[1] \in Nat /\ first[1] \in Nat
        BY <2>2, <2>3, <2>5
      <4> QED
        BY <4>1
    <3>2. R = {} /\ after[R] = NothingChosen
      BY <1>1, <2>4, <2>5, <3>1
    <3>3. after[Q] = Inspect(NothingChosen, first[2], size, limits)
      BY <2>4, <2>5, <3>2
    <3>4. Cardinality({}) = 0
      BY FS_EmptySet
    <3>5. Inspect(NothingChosen, first[2], size, limits)
          = [NothingChosen EXCEPT !.chosen = @ \cup {first[2]}, !.bytes = @ + size[first[2]]]
      <4>1. NothingChosen.chosen = {} /\ NothingChosen.bytes = 0
        BY DEF NothingChosen
      <4>2. ~ (Cardinality(NothingChosen.chosen) >= limits.packets)
        BY <3>4, <4>1
      <4>3. NothingChosen.bytes + size[first[2]] <= limits.bytes
        BY <4>1
      <4> QED
        BY <4>2, <4>3 DEF Inspect
    <3>6. IsRecord(after[Q]) /\ first[2] \in after[Q].chosen
      BY <3>3, <3>5 DEF NothingChosen
    <3> QED
      BY <2>2, <3>6
  <2>6. CASE LastOf(Q) # first
    <3>1. R \notin Missed /\ first \in R
      BY <2>1, <2>2, <2>3, <2>4, <2>6
    <3>2. IsRecord(after[R]) /\ first[2] \in after[R].chosen
      BY <2>4, <3>1
    <3> HIDE DEF R
    <3>3. IsRecord(after[Q]) /\ first[2] \in after[Q].chosen
      BY <2>4, <3>2 DEF Inspect
    <3> QED
      BY <2>2, <3>3
  <2> QED
    BY <2>5, <2>6
<1>3. rows \in SUBSET rows
  OBVIOUS
<1> QED
  BY <1>1, <1>2, <1>3
HasRoom(acc, e, size, limits) ==
    /\ Cardinality(acc.chosen) < limits.packets
    /\ acc.bytes + size[e] <= limits.bytes

\* The inspection of a row takes away nothing, and takes that row if there is room for it.
LEMMA InspectionGrows ==
  ASSUME NEW E, NEW e \in E, NEW size, \A f \in E : size[f] \in Nat,
         NEW limits, limits.packets \in Nat, limits.bytes \in Nat,
         NEW acc, IsSound(acc, E, size, limits),
         NEW new, new = Inspect(acc, e, size, limits)
  PROVE  /\ acc.chosen \subseteq new.chosen /\ new.chosen \subseteq acc.chosen \cup {e}
         /\ acc.bytes <= new.bytes /\ Cardinality(acc.chosen) <= Cardinality(new.chosen)
         /\ HasRoom(acc, e, size, limits) => e \in new.chosen /\ new.bytes = acc.bytes + size[e]
         /\ ~HasRoom(acc, e, size, limits) => new.chosen = acc.chosen /\ new.bytes = acc.bytes
<1>1. /\ acc \in [chosen : SUBSET E, tooLarge : SUBSET E, bytes : Nat] /\ IsFiniteSet(acc.chosen)
      /\ Cardinality(acc.chosen) \in Nat /\ size[e] \in Nat /\ acc.bytes \in Nat
  BY FS_CardinalityType DEF IsSound
<1>2. CASE HasRoom(acc, e, size, limits)
  <2>1. new = [acc EXCEPT !.chosen = @ \cup {e}, !.bytes = @ + size[e]]
    BY <1>1, <1>2 DEF Inspect, HasRoom
  <2>2. new.chosen = acc.chosen \cup {e} /\ new.bytes = acc.bytes + size[e]
    <3> DEFINE c == acc.chosen \cup {e}
               b == acc.bytes + size[e]
    <3>1. new = [acc EXCEPT !.chosen = c, !.bytes = b]
      BY <2>1
    <3> HIDE DEF c, b
    <3>2. new = [chosen |-> c, tooLarge |-> acc.tooLarge, bytes |-> b]
      BY <1>1, <3>1
    <3>3. new.chosen = c /\ new.bytes = b
      BY <3>2
    <3> QED
      BY <3>3 DEF c, b
  <2>3. Cardinality(acc.chosen) <= Cardinality(acc.chosen \cup {e})
    <3>1. IsFiniteSet(acc.chosen \cup {e}) /\ acc.chosen \subseteq acc.chosen \cup {e}
      BY <1>1, FS_AddElement
    <3> QED
      BY <3>1, FS_Subset
  <2> QED
    BY <1>1, <1>2, <2>2, <2>3
<1>3. CASE ~HasRoom(acc, e, size, limits)
  <2>1. new = acc \/ new = [acc EXCEPT !.tooLarge = @ \cup {e}]
    BY <1>1, <1>3 DEF Inspect, HasRoom
  <2>2. new.chosen = acc.chosen /\ new.bytes = acc.bytes
    BY <1>1, <2>1
  <2> QED
    BY <1>1, <1>3, <2>2
<1> QED
  BY <1>2, <1>3

\* A row is in the batch together with any later one if the rows inspected before it, none of
\* them longer than `longest', leave room for it: because there are few of them, or because
\* as many rows as a request may carry fit into it.
LEMMA EarlierIsChosen ==
  ASSUME NEW rows, IsFiniteSet(rows), \A p \in rows : p[1] \in Nat,
         \A p, q \in rows : p[2] = q[2] => p = q,
         NEW E, \A p \in rows : p[2] \in E, NEW size, \A f \in E : size[f] \in Nat,
         NEW limits, limits.packets \in Nat, limits.bytes \in Nat,
         NEW longest \in Nat, \A f \in E : size[f] <= longest,
         NEW early \in rows, NEW later \in rows, early[1] < later[1],
         NEW few \in Nat, \A Q \in SUBSET {p \in rows : p[1] <= early[1]} : Cardinality(Q) <= few,
         limits.packets * longest <= limits.bytes \/ few * longest <= limits.bytes,
         later[2] \in Inspected(rows, size, limits).chosen
  PROVE  early[2] \in Inspected(rows, size, limits).chosen
<1>1. PICK after : IsLoop(after, rows, size, limits)
  BY InspectedStepwise
<1>2. \A Q \in SUBSET rows : IsSound(after[Q], E, size, limits)
  BY <1>1, PartsAreSound
<1> DEFINE Chosen(Q) == after[Q].chosen
           Count(Q) == Cardinality(after[Q].chosen)
           Good(Q) == /\ Chosen(Q) \subseteq {p[2] : p \in Q}
                      /\ Count(Q) <= Cardinality(Q)
                      /\ after[Q].bytes <= Count(Q) * longest
                      /\ early \in Q => early[2] \in Chosen(Q) \/ limits.packets <= Count(Q)
                      /\ early \in Q /\ later[2] \in Chosen(Q) => early[2] \in Chosen(Q)
           Bad == {Q \in SUBSET rows : ~Good(Q)}
<1>3. \A Q \in SUBSET rows : Good(Q)
  <2> SUFFICES ASSUME Bad # {} PROVE FALSE
    OBVIOUS
  <2>1. PICK Q \in Bad : \A R \in Bad : R \subseteq Q => R = Q
    <3>1. Bad \in SUBSET SUBSET rows
      OBVIOUS
    <3> HIDE DEF Bad
    <3> QED
      BY <3>1, LeastSet
  <2>2. Q \in SUBSET rows /\ ~Good(Q)
    OBVIOUS
  <2>3. Q # {}
    <3> SUFFICES ASSUME Q = {} PROVE FALSE
      OBVIOUS
    <3>1. after[Q] = NothingChosen
      BY <1>1, <2>2 DEF IsLoop
    <3>2. Chosen(Q) = {} /\ after[Q].bytes = 0 /\ Count(Q) = 0 /\ Cardinality(Q) = 0
      BY <3>1, FS_EmptySet DEF NothingChosen
    <3>3. after[Q].bytes <= Count(Q) * longest
      BY <3>2
    <3> QED
      BY <2>2, <3>2, <3>3
  <2> DEFINE last == LastOf(Q)
             R == Q \ {last}
  <2>4. last \in Q /\ \A q \in Q : q[1] <= last[1]
    <3>1. IsFiniteSet(Q)
      BY <2>2, FS_Subset
    <3> QED
      BY <2>2, <2>3, <3>1, LastIsMember
  <2>5. R \in SUBSET rows /\ R \notin Bad
    BY <2>1, <2>2, <2>4
  <2>6. Good(R)
    BY <2>5
  <2>7. after[Q] = Inspect(after[R], last[2], size, limits)
    BY <1>1, <2>2, <2>3 DEF IsLoop
  <2> DEFINE room == HasRoom(after[R], last[2], size, limits)
  <2>8. /\ Chosen(R) \subseteq Chosen(Q) /\ Chosen(Q) \subseteq Chosen(R) \cup {last[2]}
        /\ Count(R) <= Count(Q)
        /\ room => last[2] \in Chosen(Q) /\ after[Q].bytes = after[R].bytes + size[last[2]]
        /\ ~room => Chosen(Q) = Chosen(R) /\ after[Q].bytes = after[R].bytes
    <3>1. last[2] \in E /\ IsSound(after[R], E, size, limits)
      BY <1>2, <2>2, <2>4, <2>5
    <3> HIDE DEF R, last
    <3> DEFINE new == after[Q]
               acc == after[R]
    <3>2. new = Inspect(acc, last[2], size, limits) /\ IsSound(acc, E, size, limits)
      BY <2>7, <3>1
    <3> HIDE DEF new, acc
    <3>3. /\ acc.chosen \subseteq new.chosen /\ new.chosen \subseteq acc.chosen \cup {last[2]}
          /\ Cardinality(acc.chosen) <= Cardinality(new.chosen)
          /\ HasRoom(acc, last[2], size, limits)
               => last[2] \in new.chosen /\ new.bytes = acc.bytes + size[last[2]]
          /\ ~HasRoom(acc, last[2], size, limits)
               => new.chosen = acc.chosen /\ new.bytes = acc.bytes
      BY SMTT(30), <3>1, <3>2, InspectionGrows
    <3> QED
      BY <3>3 DEF new, acc
  <2>9. /\ Count(R) \in Nat /\ Count(Q) \in Nat /\ IsFiniteSet(Chosen(R))
        /\ after[R].bytes \in Nat /\ after[Q].bytes \in Nat
    <3>1. IsSound(after[R], E, size, limits) /\ IsSound(after[Q], E, size, limits)
      BY <1>2, <2>2, <2>5
    <3> HIDE DEF R
    <3> QED
      BY <3>1, FS_CardinalityType DEF IsSound
  <2>10. size[early[2]] \in Nat /\ size[last[2]] \in Nat /\ size[last[2]] <= longest
         /\ size[early[2]] <= longest
    BY <2>2, <2>4
  <2>11. Chosen(Q) \subseteq {p[2] : p \in Q}
    <3>1. Chosen(R) \subseteq {p[2] : p \in R} /\ R \subseteq Q
      BY <2>6
    <3>2. {p[2] : p \in R} \subseteq {p[2] : p \in Q} /\ last[2] \in {p[2] : p \in Q}
      BY <2>4, <3>1
    <3> HIDE DEF Chosen, R, last
    <3> QED
      BY <2>8, <3>1, <3>2
  <2>12. last[2] \notin Chosen(R)
    <3> SUFFICES ASSUME last[2] \in Chosen(R) PROVE FALSE
      OBVIOUS
    <3>1. PICK p \in R : last[2] = p[2]
      BY <2>6
    <3>2. p = last
      BY <2>2, <2>4, <2>5, <3>1
    <3> QED
      BY <3>2
  <2>13. room => Count(Q) = Count(R) + 1
    <3> SUFFICES ASSUME room PROVE Count(Q) = Count(R) + 1
      OBVIOUS
    <3>1. Chosen(Q) = Chosen(R) \cup {last[2]}
      BY <2>8
    <3> DEFINE C == after[R].chosen
    <3>2. IsFiniteSet(C) /\ last[2] \notin C /\ Chosen(Q) = C \cup {last[2]}
      BY <2>9, <2>12, <3>1
    <3> HIDE DEF R, last, C
    <3>3. Cardinality(C \cup {last[2]}) = Cardinality(C) + 1
      BY <3>2, FS_AddElement
    <3> QED
      BY <3>2, <3>3 DEF C
  <2>14. Count(Q) <= Cardinality(Q)
    <3>1. IsFiniteSet(Q) /\ Cardinality(R) = Cardinality(Q) - 1 /\ Cardinality(Q) \in Nat
      BY <2>2, <2>4, FS_Subset, FS_RemoveElement, FS_CardinalityType
    <3>2. Count(R) <= Cardinality(R)
      BY <2>6
    <3>3. Count(Q) = Count(R) \/ Count(Q) = Count(R) + 1
      BY <2>8, <2>13
    <3> HIDE DEF R, last, Count
    <3> QED
      BY <2>9, <3>1, <3>2, <3>3
  <2>15. after[Q].bytes <= Count(Q) * longest
    <3>1. after[R].bytes <= Count(R) * longest
      BY <2>6
    <3>2. CASE room
      <4>1. Count(Q) = Count(R) + 1 /\ after[Q].bytes = after[R].bytes + size[last[2]]
        BY <2>8, <2>13, <3>2
      <4> HIDE DEF R, last, Count
      <4>2. (Count(R) + 1) * longest = Count(R) * longest + longest /\ Count(R) * longest \in Nat
        BY <2>9
      <4> QED
        BY <2>9, <2>10, <3>1, <4>1, <4>2
    <3>3. CASE ~room
      BY <2>8, <3>1, <3>3
    <3> QED
      BY <3>2, <3>3
  <2>16. early \in Q => early[2] \in Chosen(Q) \/ limits.packets <= Count(Q)
    <3> SUFFICES ASSUME early \in Q, early[2] \notin Chosen(Q), Count(Q) < limits.packets
                 PROVE  FALSE
      BY <2>9
    <3>1. CASE early = last
      <4>1. ~room /\ Count(R) < limits.packets
        BY <2>8, <2>9, <3>1
      <4>2. limits.bytes < after[R].bytes + size[last[2]]
        <5> HIDE DEF R, last
        <5> QED
          BY <2>9, <2>10, <4>1 DEF HasRoom
      <4>3. Count(R) + 1 <= few
        <5>1. Q \in SUBSET {p \in rows : p[1] <= early[1]}
          BY <2>2, <2>4, <3>1
        <5>2. Cardinality(Q) <= few
          BY <5>1
        <5>3. IsFiniteSet(Q) /\ Cardinality(R) = Cardinality(Q) - 1 /\ Cardinality(Q) \in Nat
          BY <2>2, <2>4, FS_Subset, FS_RemoveElement, FS_CardinalityType
        <5>4. Count(R) <= Cardinality(R)
          BY <2>6
        <5> HIDE DEF R, last, Count
        <5> QED
          BY <2>9, <5>2, <5>3, <5>4
      <4>4. after[R].bytes <= Count(R) * longest
        BY <2>6
      <4> HIDE DEF R, last, Count
      <4>5. (Count(R) + 1) * longest = Count(R) * longest + longest /\ Count(R) * longest \in Nat
        BY <2>9
      <4>6. limits.bytes < (Count(R) + 1) * longest
        BY <2>9, <2>10, <4>2, <4>4, <4>5
      <4>7. \A n \in Nat : Count(R) + 1 <= n => (Count(R) + 1) * longest <= n * longest
        BY <2>9
      <4>8. Count(R) + 1 <= limits.packets
        BY <2>9, <4>1
      <4>9. /\ (Count(R) + 1) * longest <= few * longest
            /\ (Count(R) + 1) * longest <= limits.packets * longest
        BY <4>3, <4>7, <4>8
      <4>10. few * longest \in Nat /\ limits.packets * longest \in Nat
        OBVIOUS
      <4> QED
        BY <2>9, <4>5, <4>6, <4>9, <4>10
    <3>2. CASE early # last
      <4>1. limits.packets <= Count(R)
        BY <2>6, <2>8, <3>2
      <4> HIDE DEF last, R, Count
      <4> QED
        BY <2>8, <2>9, <4>1
    <3> QED
      BY <3>1, <3>2
  <2>17. early \in Q /\ later[2] \in Chosen(Q) => early[2] \in Chosen(Q)
    <3> SUFFICES ASSUME early \in Q, later[2] \in Chosen(Q), early[2] \notin Chosen(Q) PROVE FALSE
      OBVIOUS
    <3>1. early # last
      <4> SUFFICES ASSUME early = last PROVE FALSE
        OBVIOUS
      <4>1. later[2] \in {p[2] : p \in Q}
        BY <2>11
      <4>2. later \in Q
        BY <2>2, <4>1
      <4>3. later[1] <= early[1] /\ later[1] \in Nat /\ early[1] \in Nat
        BY <2>4, <4>2
      <4> QED
        BY <4>3
    <3>2. early \in R /\ early[2] \notin Chosen(R)
      BY <2>8, <3>1
    <3>3. limits.packets <= Count(R) /\ later[2] \notin Chosen(R)
      BY <2>6, <3>2
    <3>4. room
      BY <2>8, <3>3
    <3> HIDE DEF last, R
    <3> QED
      BY <2>9, <3>3, <3>4 DEF HasRoom
  <2> HIDE DEF Chosen, Count
  <2> QED
    BY <2>2, <2>11, <2>14, <2>15, <2>16, <2>17
<1>4. rows \in SUBSET rows /\ after[rows] = Inspected(rows, size, limits)
  BY <1>1 DEF IsLoop
<1> QED
  BY <1>3, <1>4

-----------------------------------------------------------------------------
(* The rows that the stations offer.                                       *)

\* A row is nearer to one end of its station's due rows or to the other.
LEMMA TurnIsNatural ==
  ASSUME NEW D, IsFiniteSet(D), NEW seq, NEW e \in D, seq[e] \in Int, NEW newest
  PROVE  Turn(e, D, seq, newest) \in Nat
<1> DEFINE Older == {f \in D : seq[f] < seq[e]}
           older == Cardinality(Older)
           newer == Cardinality(D) - 1 - older
<1>1. IsFiniteSet(Older) /\ IsFiniteSet(D \ {e}) /\ Cardinality(D \ {e}) = Cardinality(D) - 1
  BY FS_Subset, FS_RemoveElement
<1>2. Older \subseteq D \ {e}
  OBVIOUS
<1>3. older \in Nat /\ Cardinality(D) \in Nat /\ older <= Cardinality(D) - 1
  BY <1>1, <1>2, FS_Subset, FS_CardinalityType
<1>4. newer \in Nat
  BY <1>3
<1> DEFINE fromFirst == IF newest THEN newer ELSE older
           fromSecond == IF newest THEN older ELSE newer
<1>5. Turn(e, D, seq, newest)
      = IF 2 * fromFirst < 2 * fromSecond + 1 THEN 2 * fromFirst ELSE 2 * fromSecond + 1
  BY DEF Turn
<1>6. fromFirst \in Nat /\ fromSecond \in Nat
  BY <1>3, <1>4
<1> HIDE DEF fromFirst, fromSecond
<1> QED
  BY <1>5, <1>6

LEMMA DistanceIsNatural ==
  ASSUME NEW i \in Int, NEW front \in Int, NEW n \in Nat \ {0}
  PROVE  Distance(i, front, n) \in Nat /\ Distance(i, front, n) < n
BY DEF Distance

\* The places of the candidates of some stations, as Pick lays them out.
Offered(due, seq, newest, index, front, limits) ==
    LET n == Cardinality(DOMAIN due) IN
    UNION {{<<n * Turn(e, due[s], seq, newest[s]) + Distance(index[s], front, n), e>> :
              e \in Candidates(due[s], seq, newest[s], limits.packets)} : s \in DOMAIN due}

LEMMA PickInspectsTheOffered ==
  ASSUME NEW due, NEW seq, NEW newest, NEW size, NEW index, NEW front, NEW limits
  PROVE  Pick(due, seq, newest, size, index, front, limits)
         = Inspected(Offered(due, seq, newest, index, front, limits), size, limits)
<1> DEFINE n == Cardinality(DOMAIN due)
           place == [s \in DOMAIN due |->
                    [e \in Candidates(due[s], seq, newest[s], limits.packets) |->
                       n * Turn(e, due[s], seq, newest[s]) + Distance(index[s], front, n)]]
           offered == UNION {{<<place[s][e], e>> : e \in DOMAIN place[s]} : s \in DOMAIN due}
<1>1. Pick(due, seq, newest, size, index, front, limits) = Inspected(offered, size, limits)
  BY DEF Pick
<1>2. offered = Offered(due, seq, newest, index, front, limits)
  <2>1. ASSUME NEW s \in DOMAIN due
        PROVE  {<<place[s][e], e>> : e \in DOMAIN place[s]}
               = {<<n * Turn(e, due[s], seq, newest[s]) + Distance(index[s], front, n), e>> :
                    e \in Candidates(due[s], seq, newest[s], limits.packets)}
    OBVIOUS
  <2> QED
    BY <2>1 DEF Offered
<1> QED
  BY <1>1, <1>2

\* Finitely many rows, at natural places.
LEMMA OfferedIsFinite ==
  ASSUME NEW due, IsFiniteSet(DOMAIN due), NEW seq, NEW newest, NEW index, NEW front \in Int,
         NEW limits,
         \A s \in DOMAIN due : index[s] \in Int /\ IsFiniteSet(due[s]) /\ \A e \in due[s] : seq[e] \in Int
  PROVE  LET offered == Offered(due, seq, newest, index, front, limits)
         IN  /\ IsFiniteSet(offered)
             /\ \A p \in offered : p[1] \in Nat /\ \E s \in DOMAIN due : p[2] \in due[s]
<1> DEFINE n == Cardinality(DOMAIN due)
           At(s, e) == n * Turn(e, due[s], seq, newest[s]) + Distance(index[s], front, n)
           Of(s) == {<<At(s, e), e>> : e \in Candidates(due[s], seq, newest[s], limits.packets)}
           Sets == {Of(s) : s \in DOMAIN due}
<1>1. Offered(due, seq, newest, index, front, limits) = UNION Sets
  BY DEF Offered
<1>2. ASSUME NEW s \in DOMAIN due, NEW e \in due[s] PROVE At(s, e) \in Nat
  <2>1. n \in Nat \ {0}
    BY FS_CardinalityType, FS_EmptySet
  <2>2. Turn(e, due[s], seq, newest[s]) \in Nat
    BY TurnIsNatural
  <2>3. Distance(index[s], front, n) \in Nat
    BY <2>1, DistanceIsNatural
  <2> HIDE DEF n
  <2>4. n * Turn(e, due[s], seq, newest[s]) \in Nat
    BY <2>1, <2>2
  <2> QED
    BY <2>3, <2>4
<1>3. ASSUME NEW s \in DOMAIN due PROVE IsFiniteSet(Of(s))
  <2> DEFINE C == Candidates(due[s], seq, newest[s], limits.packets)
             each == [e \in C |-> <<At(s, e), e>>]
  <2>1. C \subseteq due[s]
    BY DEF Candidates
  <2>2. IsFiniteSet(C)
    BY <2>1, FS_Subset
  <2> HIDE DEF C, At
  <2>3. each \in Surjection(C, {<<At(s, e), e>> : e \in C})
    BY DEF Surjection
  <2>4. IsFiniteSet({<<At(s, e), e>> : e \in C})
    BY <2>2, <2>3, FS_Surjection
  <2> QED
    BY <2>4 DEF C
<1>4. IsFiniteSet(Sets)
  <2> DEFINE each == [s \in DOMAIN due |-> Of(s)]
  <2> HIDE DEF Of
  <2>1. each \in Surjection(DOMAIN due, Sets)
    BY DEF Surjection
  <2> QED
    BY <2>1, FS_Surjection
<1>5. IsFiniteSet(UNION Sets)
  <2>1. \A T \in Sets : IsFiniteSet(T)
    BY <1>3
  <2> HIDE DEF Sets
  <2> QED
    BY <1>4, <2>1, FS_UNION
<1>6. ASSUME NEW p \in UNION Sets PROVE p[1] \in Nat /\ \E s \in DOMAIN due : p[2] \in due[s]
  <2> HIDE DEF At
  <2>1. PICK s \in DOMAIN due : p \in Of(s)
    OBVIOUS
  <2>2. PICK e \in Candidates(due[s], seq, newest[s], limits.packets) : p = <<At(s, e), e>>
    BY <2>1
  <2>3. e \in due[s]
    BY <2>2 DEF Candidates
  <2> QED
    BY <1>2, <2>2, <2>3
<1> QED
  BY <1>1, <1>5, <1>6

\* A batch is within the limits, and only rows that no request can carry are set apart.
LEMMA PickIsSound ==
  ASSUME NEW due, IsFiniteSet(DOMAIN due), NEW seq, NEW newest, NEW size, NEW index,
         NEW front \in Int, NEW limits, limits.packets \in Nat, limits.bytes \in Nat,
         NEW E, \A e \in E : seq[e] \in Int /\ size[e] \in Nat,
         \A s \in DOMAIN due : index[s] \in Int /\ IsFiniteSet(due[s]) /\ due[s] \subseteq E
  PROVE  LET rows == UNION {due[s] : s \in DOMAIN due}
         IN  IsSound(Pick(due, seq, newest, size, index, front, limits), rows, size, limits)
<1> DEFINE rows == UNION {due[s] : s \in DOMAIN due}
           offered == Offered(due, seq, newest, index, front, limits)
<1>1. /\ IsFiniteSet(offered)
      /\ \A p \in offered : p[1] \in Nat /\ \E s \in DOMAIN due : p[2] \in due[s]
  BY OfferedIsFinite
<1>2. \A f \in rows : size[f] \in Nat
  OBVIOUS
<1>3. \A p \in offered : p[2] \in rows
  BY <1>1
<1>4. IsSound(Inspected(offered, size, limits), rows, size, limits)
  <2> HIDE DEF offered, rows
  <2> QED
    BY <1>1, <1>2, <1>3, LoopIsSound
<1> QED
  BY <1>4, PickInspectsTheOffered
=============================================================================
