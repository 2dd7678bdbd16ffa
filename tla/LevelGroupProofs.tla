-------------------------- MODULE LevelGroupProofs --------------------------
(***************************************************************************)
(* What the level arithmetic of groups.rs guarantees for every declared    *)
(* range, and from it the safety of a group drag, for every group.         *)
(***************************************************************************)
EXTENDS LevelGroup, TLAPS

-----------------------------------------------------------------------------
(* The arithmetic of one member. *)

(* Integer division by a positive divisor, in the form the proofs use.     *)
LEMMA Division ==
    ASSUME NEW a \in Int, NEW b \in Int, b > 0
    PROVE  /\ a \div b \in Int
           /\ b * (a \div b) <= a
           /\ a < b * (a \div b) + b
  OBVIOUS

(* Quotients are ordered as their numerators are.                          *)
LEMMA DivisionMonotone ==
    ASSUME NEW a \in Int, NEW c \in Int, NEW b \in Int, b > 0, a <= c
    PROVE  a \div b <= c \div b
<1> DEFINE q == a \div b
           r == c \div b
<1>1. /\ q \in Int /\ r \in Int
      /\ b * q <= a
      /\ c < b * r + b
  BY Division
<1>2. ASSUME r < q PROVE FALSE
  <2>1. r + 1 <= q
    BY <1>1, <1>2
  <2>2. b * (r + 1) <= b * q
    BY <1>1, <2>1
  <2>3. b * (r + 1) = b * r + b
    BY <1>1
  <2> HIDE DEF q, r
  <2> QED
    BY <1>1, <2>2, <2>3
<1> HIDE DEF q, r
<1>3. q <= r
  BY <1>1, <1>2
<1> QED
  BY <1>3 DEF q, r

(* The product of two factors is ordered as one of them is.                *)
LEMMA ProductMonotone ==
    ASSUME NEW k \in Int, NEW m \in Int, NEW n \in Int, 0 <= k, m <= n
    PROVE  /\ k * m \in Int
           /\ k * n \in Int
           /\ k * m <= k * n
  OBVIOUS

-----------------------------------------------------------------------------
(* map_level always answers a level of the declared range: the final cast  *)
(* to i32 is exact.                                                        *)
THEOREM MapInRange ==
    ASSUME NEW lo \in Int, NEW hi \in Int, lo < hi, NEW p \in Position
    PROVE  MapLevel(p, lo, hi) \in lo..hi
<1> DEFINE span == hi - lo
           a    == span * p + 500
<1>1. span \in Int /\ span > 0 /\ p \in Int /\ 0 <= p /\ p <= 1000
  BY DEF Position, Scale
<1> HIDE DEF span
<1>2. span * 0 <= span * p /\ span * p <= span * 1000 /\ span * p \in Int
  BY <1>1, ProductMonotone
<1>3. a \in Int /\ 0 <= a /\ a <= 1000 * span + 500
  BY <1>1, <1>2
<1> HIDE DEF a
<1>4. a \div 1000 \in Int /\ 1000 * (a \div 1000) <= a /\ a < 1000 * (a \div 1000) + 1000
  BY <1>3, Division
<1>5. a \div 1000 \in 0..span
  BY <1>1, <1>3, <1>4
<1>6. MapLevel(p, lo, hi) = lo + (a \div 1000)
  BY DEF MapLevel, a, span, Scale
<1> QED
  BY <1>5, <1>6 DEF span

(* unmap_level always answers a canonical position for a level of the      *)
(* declared range: the cast to u16 is exact.                               *)
THEOREM UnmapInPosition ==
    ASSUME NEW lo \in Int, NEW hi \in Int, NEW v \in Int, Mappable(v, lo, hi)
    PROVE  UnmapLevel(v, lo, hi) \in Position
<1> DEFINE span == hi - lo
           h    == span \div 2
           a    == (v - lo) * 1000 + h
           q    == a \div span
<1>1. span \in Int /\ span > 0 /\ v - lo \in Int /\ 0 <= v - lo /\ v - lo <= span
  BY DEF Mappable
<1>2. h \in Int /\ 0 <= h /\ h < span
  BY <1>1
<1> HIDE DEF span, h
<1>3. a \in Int /\ 0 <= a /\ a < 1001 * span
  BY <1>1, <1>2
<1> HIDE DEF a
<1>4. q \in Int /\ span * q <= a /\ a < span * q + span
  BY <1>1, <1>3, Division
<1> HIDE DEF q
<1>5. q < 1001
  <2>1. SUFFICES ASSUME 1001 <= q PROVE FALSE
    BY <1>4
  <2>2. span * 1001 <= span * q
    BY <1>1, <1>4, <2>1, ProductMonotone
  <2> QED
    BY <1>1, <1>3, <1>4, <2>2
<1>6. 0 <= q
  <2>1. SUFFICES ASSUME q + 1 <= 0 PROVE FALSE
    BY <1>4
  <2>2. span * (q + 1) <= span * 0
    BY <1>1, <1>4, <2>1, ProductMonotone
  <2>3. span * (q + 1) = span * q + span
    BY <1>1, <1>4
  <2> QED
    BY <1>1, <1>3, <1>4, <2>2, <2>3
<1>7. UnmapLevel(v, lo, hi) = q
  BY DEF UnmapLevel, q, a, h, span, Scale
<1> QED
  BY <1>4, <1>5, <1>6, <1>7 DEF Position, Scale

(* On a range no finer than the canonical scale the position determines    *)
(* the level: map_level undoes unmap_level.                                *)
THEOREM MapUndoesUnmap ==
    ASSUME NEW lo \in Int, NEW hi \in Int, NEW v \in Int,
           Mappable(v, lo, hi), hi - lo <= 1000
    PROVE  MapLevel(UnmapLevel(v, lo, hi), lo, hi) = v
<1> DEFINE span == hi - lo
           h    == span \div 2
           x    == v - lo
           a    == x * 1000 + h
           q    == a \div span
           b    == span * q + 500
<1>1. span \in Int /\ span > 0 /\ span <= 1000 /\ x \in Int /\ 0 <= x /\ x <= span
  BY DEF Mappable
<1>2. h \in Int /\ 2 * h <= span /\ span <= 2 * h + 1
  BY <1>1
<1> HIDE DEF span, h, x
<1>3. a \in Int /\ a = 1000 * x + h
  BY <1>1, <1>2
<1> HIDE DEF a
<1>4. q \in Int /\ span * q <= a /\ a < span * q + span
  BY <1>1, <1>3, Division
<1> HIDE DEF q
<1>5. span * q \in Int
  BY <1>1, <1>4
<1>6. CASE span = 1000
  <2>1. q = x
    BY <1>6, <1>1, <1>2, <1>3, <1>4
  <2> QED
    <3>1. b = 1000 * x + 500
      BY <1>6, <1>1, <2>1
    <3>2. b \div 1000 = x
      BY <3>1, <1>1
    <3>3. MapLevel(q, lo, hi) = lo + x
      BY <3>2 DEF MapLevel, b, span, Scale
    <3> QED
      BY <3>3 DEF UnmapLevel, q, a, h, x, span, Scale
<1>7. CASE span < 1000
  <2>1. b \in Int /\ 1000 * x <= b /\ b < 1000 * x + 1000
    BY <1>7, <1>1, <1>2, <1>3, <1>4, <1>5
  <2>2. b \div 1000 = x
    <3> HIDE DEF b
    <3>1. b \div 1000 \in Int /\ 1000 * (b \div 1000) <= b /\ b < 1000 * (b \div 1000) + 1000
      BY <2>1, Division
    <3> QED
      BY <1>1, <2>1, <3>1
  <2>3. MapLevel(q, lo, hi) = lo + x
    BY <2>2 DEF MapLevel, b, span, Scale
  <2> QED
    BY <2>3 DEF UnmapLevel, q, a, h, x, span, Scale
<1> QED
  BY <1>1, <1>6, <1>7

(* A higher position never maps to a lower level.                          *)
THEOREM MapMonotone ==
    ASSUME NEW lo \in Int, NEW hi \in Int, lo < hi,
           NEW p \in Position, NEW r \in Position, p <= r
    PROVE  MapLevel(p, lo, hi) <= MapLevel(r, lo, hi)
<1> DEFINE span == hi - lo
           a    == span * p + 500
           c    == span * r + 500
<1>1. span \in Int /\ 0 <= span /\ p \in Int /\ r \in Int
  BY DEF Position
<1> HIDE DEF span
<1>2. a \in Int /\ c \in Int /\ a <= c
  BY <1>1, ProductMonotone
<1> HIDE DEF a, c
<1>3. a \div 1000 <= c \div 1000 /\ a \div 1000 \in Int /\ c \div 1000 \in Int
  BY <1>2, DivisionMonotone, Division
<1>4. /\ MapLevel(p, lo, hi) = lo + (a \div 1000)
      /\ MapLevel(r, lo, hi) = lo + (c \div 1000)
  BY DEF MapLevel, a, c, span, Scale
<1> QED
  BY <1>3, <1>4

(* A higher level never shows a lower position.                            *)
THEOREM UnmapMonotone ==
    ASSUME NEW lo \in Int, NEW hi \in Int, lo < hi,
           NEW v \in Int, NEW w \in Int, v <= w
    PROVE  UnmapLevel(v, lo, hi) <= UnmapLevel(w, lo, hi)
<1> DEFINE span == hi - lo
           a    == (v - lo) * 1000 + (span \div 2)
           c    == (w - lo) * 1000 + (span \div 2)
<1>1. span \in Int /\ span > 0 /\ span \div 2 \in Int
  BY Division
<1> HIDE DEF span
<1>2. a \in Int /\ c \in Int /\ a <= c
  BY <1>1
<1> HIDE DEF a, c
<1>3. a \div span <= c \div span
  BY <1>1, <1>2, DivisionMonotone
<1> QED
  BY <1>3 DEF UnmapLevel, a, c, span, Scale

(* The numerators of map_level and unmap_level are non-negative and at     *)
(* most 1000 times the widest range plus 500.  Two i32 bounds are at most  *)
(* 2^32 - 1 apart, so the i64 the code computes in never overflows.        *)
THEOREM NumeratorsBounded ==
    ASSUME NEW lo \in Int, NEW hi \in Int, lo < hi, NEW width \in Int, hi - lo <= width,
           NEW v \in lo..hi, NEW p \in Position
    PROVE  /\ (hi - lo) * p + 500 \in 0..(width * 1000 + 500)
           /\ (v - lo) * Scale + ((hi - lo) \div 2) \in 0..(width * 1001)
<1> DEFINE span == hi - lo
           half == span \div 2
<1>1. span \in Int /\ 0 < span /\ span <= width /\ p \in Int /\ 0 <= p /\ p <= 1000
  BY DEF Position, Scale
<1>2. v - lo \in Int /\ 0 <= v - lo /\ v - lo <= span
  OBVIOUS
<1>3. half \in Int /\ 0 <= half /\ half <= span
  BY <1>1
<1> HIDE DEF span, half
<1>4. span * 0 <= span * p /\ span * p <= span * 1000 /\ span * p \in Int
  BY <1>1, ProductMonotone
<1>5. span * p + 500 \in 0..(width * 1000 + 500)
  BY <1>1, <1>4
<1>6. (v - lo) * Scale + half \in 0..(width * 1001)
  BY <1>1, <1>2, <1>3 DEF Scale
<1> QED
  BY <1>5, <1>6 DEF span, half

-----------------------------------------------------------------------------
(* What is clamped is a position.                                          *)
LEMMA ClampInPosition ==
    ASSUME NEW n \in Int
    PROVE  Clamp(n) \in Position
  BY DEF Clamp, Position, Scale

(* Clamping keeps the order of two numbers.                                *)
LEMMA ClampMonotone ==
    ASSUME NEW n \in Int, NEW k \in Int, n <= k
    PROVE  Clamp(n) <= Clamp(k)
  BY DEF Clamp, Scale

(* A group command of integral delta keeps a member in its declared range. *)
LEMMA ShiftInRange ==
    ASSUME NEW lo \in Int, NEW hi \in Int, lo < hi, NEW v \in lo..hi, NEW delta \in Int
    PROVE  ShiftLevel(v, lo, hi, delta) \in lo..hi
<1>1. UnmapLevel(v, lo, hi) \in Position
  BY UnmapInPosition DEF Mappable
<1>2. UnmapLevel(v, lo, hi) + delta \in Int
  BY <1>1 DEF Position
<1> QED
  BY <1>2, ClampInPosition, MapInRange DEF ShiftLevel

(* Levels of one range stay in their order under one delta.                *)
LEMMA ShiftMonotone ==
    ASSUME NEW lo \in Int, NEW hi \in Int, lo < hi,
           NEW v \in lo..hi, NEW w \in lo..hi, v <= w, NEW delta \in Int
    PROVE  ShiftLevel(v, lo, hi, delta) <= ShiftLevel(w, lo, hi, delta)
<1> DEFINE p == UnmapLevel(v, lo, hi)
           r == UnmapLevel(w, lo, hi)
<1>1. p \in Position /\ r \in Position
  BY UnmapInPosition DEF Mappable
<1>2. p <= r
  BY UnmapMonotone
<1> HIDE DEF p, r
<1>3. p + delta \in Int /\ r + delta \in Int /\ p + delta <= r + delta
  BY <1>1, <1>2 DEF Position
<1>4. Clamp(p + delta) <= Clamp(r + delta)
  BY <1>3, ClampMonotone
<1>5. Clamp(p + delta) \in Position /\ Clamp(r + delta) \in Position
  BY <1>3, ClampInPosition
<1>6. MapLevel(Clamp(p + delta), lo, hi) <= MapLevel(Clamp(r + delta), lo, hi)
  BY <1>4, <1>5, MapMonotone
<1> QED
  BY <1>6 DEF ShiftLevel, p, r

-----------------------------------------------------------------------------
(* The group. *)

(* The anchor of a group has a position, so a command a delta.             *)
LEMMA DeltaIsInteger ==
    ASSUME TypeOK, NEW position \in Targets
    PROVE  Delta(position) \in Int
<1>1. /\ Anchor \in Members /\ Lo[Anchor] \in Int /\ Hi[Anchor] \in Int
      /\ Lo[Anchor] < Hi[Anchor] /\ level[Anchor] \in Lo[Anchor]..Hi[Anchor]
      /\ position \in Position
  BY GroupAssumption DEF TypeOK
<1>2. PositionOf(level, Anchor) \in Position
  BY <1>1, UnmapInPosition DEF PositionOf, Mappable
<1> QED
  BY <1>1, <1>2 DEF Delta, Position

(* Whatever positions clients ask for, in whatever order, every member     *)
(* keeps a level its hardware declares.                                    *)
THEOREM LevelsStayDeclared == Spec => []TypeOK
<1>1. Init => TypeOK
  <2> SUFFICES ASSUME level \in StartLevels PROVE TypeOK
    BY DEF Init
  <2> QED
    BY GroupAssumption DEF TypeOK, Levels
<1>2. ASSUME TypeOK, [Next]_level PROVE TypeOK'
  <2>1. CASE Next
    <3> PICK position \in Targets : Drag(position)
      BY <2>1 DEF Next
    <3>1. Delta(position) \in Int
      BY <1>2, DeltaIsInteger
    <3>2. ASSUME NEW m \in Members
          PROVE  ShiftLevel(level[m], Lo[m], Hi[m], Delta(position)) \in Lo[m]..Hi[m]
      BY <1>2, <3>1, GroupAssumption, ShiftInRange DEF TypeOK
    <3> QED
      BY <3>2 DEF Drag, TypeOK
  <2>2. CASE UNCHANGED level
    BY <1>2, <2>2 DEF TypeOK
  <2> QED
    BY <1>2, <2>1, <2>2
<1> QED
  BY <1>1, <1>2, PTL DEF Spec

(* A settled group is not moved by a repeated command, for every group.    *)
THEOREM SettledGroupIsStable == Spec => []SettledGroupStays
<1>1. TypeOK => SettledGroupStays
  <2> SUFFICES ASSUME TypeOK, NEW m \in Members, Hi[m] - Lo[m] <= Scale
               PROVE  ShiftLevel(level[m], Lo[m], Hi[m], 0) = level[m]
    BY DEF SettledGroupStays
  <2>1. /\ Lo[m] \in Int /\ Hi[m] \in Int /\ level[m] \in Int
        /\ Mappable(level[m], Lo[m], Hi[m]) /\ Hi[m] - Lo[m] <= 1000
    BY GroupAssumption DEF TypeOK, Mappable, Scale
  <2>2. UnmapLevel(level[m], Lo[m], Hi[m]) \in Position
    BY <2>1, UnmapInPosition
  <2>3. Clamp(UnmapLevel(level[m], Lo[m], Hi[m]) + 0) = UnmapLevel(level[m], Lo[m], Hi[m])
    BY <2>2 DEF Clamp, Position, Scale
  <2> QED
    BY <2>1, <2>3, MapUndoesUnmap DEF ShiftLevel
<1> QED
  BY <1>1, LevelsStayDeclared, PTL

(* Like faders never overtake each other, for every group and drag.        *)
THEOREM LikeFadersKeepOrder == Spec => OrderKept
<1> DEFINE Kept == \A m, n \in Members :
                     (Lo[m] = Lo[n] /\ Hi[m] = Hi[n] /\ level[m] <= level[n])
                        => level'[m] <= level'[n]
<1>1. ASSUME TypeOK, [Next]_level PROVE [Kept]_level
  <2>1. CASE Next
    <3> PICK position \in Targets : Drag(position)
      BY <2>1 DEF Next
    <3>1. Delta(position) \in Int
      BY <1>1, DeltaIsInteger
    <3>2. ASSUME NEW m \in Members, NEW n \in Members,
                 Lo[m] = Lo[n], Hi[m] = Hi[n], level[m] <= level[n]
          PROVE  level'[m] <= level'[n]
      <4>1. /\ Lo[m] \in Int /\ Hi[m] \in Int /\ Lo[m] < Hi[m]
            /\ level[m] \in Lo[m]..Hi[m] /\ level[n] \in Lo[m]..Hi[m]
        BY <1>1, <3>2, GroupAssumption DEF TypeOK
      <4>2. ShiftLevel(level[m], Lo[m], Hi[m], Delta(position))
              <= ShiftLevel(level[n], Lo[m], Hi[m], Delta(position))
        BY <3>1, <3>2, <4>1, ShiftMonotone
      <4> QED
        BY <3>2, <4>2 DEF Drag
    <3> QED
      BY <3>2
  <2>2. CASE UNCHANGED level
    BY <2>2
  <2> QED
    BY <1>1, <2>1, <2>2
<1> QED
  BY <1>1, LevelsStayDeclared, PTL DEF Spec, OrderKept

-----------------------------------------------------------------------------
(* What rounding may do to a position: mapped to a level and back, it is   *)
(* off by half a native step and half a position.                          *)
LEMMA RoundTrip ==
    ASSUME NEW lo \in Int, NEW hi \in Int, lo < hi, NEW q \in Position
    PROVE  LET back == UnmapLevel(MapLevel(q, lo, hi), lo, hi)
           IN  /\ back \in Position
               /\ 2 * (back - q) <= (Scale \div (hi - lo)) + 1
               /\ 2 * (q - back) <= (Scale \div (hi - lo)) + 1
<1> DEFINE span == hi - lo
           h    == span \div 2
           n    == span * q + 500
           x    == n \div 1000
           a    == x * 1000 + h
           u    == a \div span
           k    == 1000 \div span
<1>1. span \in Int /\ span > 0 /\ q \in Int /\ 0 <= q /\ q <= 1000
  BY DEF Position, Scale
<1>2. h \in Int /\ 2 * h <= span /\ span <= 2 * h + 1
  BY <1>1
<1>3. MapLevel(q, lo, hi) = lo + x /\ MapLevel(q, lo, hi) \in lo..hi
  BY MapInRange DEF MapLevel, Scale
<1>4. UnmapLevel(MapLevel(q, lo, hi), lo, hi) \in Position
  <2>1. Mappable(MapLevel(q, lo, hi), lo, hi) /\ MapLevel(q, lo, hi) \in Int
    BY <1>3 DEF Mappable
  <2> QED
    BY <2>1, UnmapInPosition
<1> HIDE DEF span, h
<1>5. span * q \in Int /\ n \in Int /\ n = span * q + 500
  BY <1>1
<1> HIDE DEF n
<1>6. x \in Int /\ 1000 * x <= n /\ n < 1000 * x + 1000
  BY <1>5, Division
<1>7. UnmapLevel(MapLevel(q, lo, hi), lo, hi) = u
  <2> HIDE DEF x
  <2>1. UnmapLevel(lo + x, lo, hi) = (((lo + x) - lo) * 1000 + h) \div span
    BY DEF UnmapLevel, span, h, Scale
  <2>2. (lo + x) - lo = x
    BY <1>6
  <2> QED
    BY <1>3, <2>1, <2>2
<1> HIDE DEF x
<1>8. a \in Int /\ a = 1000 * x + h
  BY <1>2, <1>6
<1> HIDE DEF a
<1>9. u \in Int /\ span * u <= a /\ a < span * u + span /\ span * u \in Int
  BY <1>1, <1>8, Division
<1> HIDE DEF u
<1>10. k \in Int /\ 1000 < span * k + span /\ span * k \in Int
  BY <1>1, Division
<1> HIDE DEF k
<1>11. 2 * (u - q) <= k + 1
  <2> SUFFICES ASSUME k + 2 <= 2 * (u - q) PROVE FALSE
    BY <1>1, <1>9, <1>10
  <2>1. span * (k + 2) <= span * (2 * (u - q))
    BY <1>1, <1>9, <1>10, ProductMonotone
  <2>2. span * (k + 2) = span * k + 2 * span /\ span * (2 * (u - q)) = 2 * (span * u) - 2 * (span * q)
    BY <1>1, <1>9, <1>10
  <2> QED
    BY <1>1, <1>2, <1>5, <1>6, <1>8, <1>9, <1>10, <2>1, <2>2
<1>12. 2 * (q - u) <= k + 1
  <2> SUFFICES ASSUME k + 2 <= 2 * (q - u) PROVE FALSE
    BY <1>1, <1>9, <1>10
  <2>1. span * (k + 2) <= span * (2 * (q - u))
    BY <1>1, <1>9, <1>10, ProductMonotone
  <2>2. span * (k + 2) = span * k + 2 * span /\ span * (2 * (q - u)) = 2 * (span * q) - 2 * (span * u)
    BY <1>1, <1>9, <1>10
  <2> QED
    BY <1>1, <1>2, <1>5, <1>6, <1>8, <1>9, <1>10, <2>1, <2>2
<1> QED
  BY <1>4, <1>7, <1>11, <1>12 DEF k, span, Scale

(* Clamping brings a number nearer to every position.                      *)
LEMMA ClampNears ==
    ASSUME NEW n \in Int, NEW p \in Position, NEW e \in Int, 2 * (n - p) <= e, 2 * (p - n) <= e
    PROVE  2 * (Clamp(n) - p) <= e /\ 2 * (p - Clamp(n)) <= e
  BY DEF Clamp, Position, Scale

(* A group command rounds each member once, and so does the anchor's own   *)
(* position that the client sees: a member whose shifted position is one   *)
(* ends within half a native step of each and two half positions of it,    *)
(* for every group.                                                        *)
THEOREM DragsRoundOnce == Spec => OneDragRounds
<1> DEFINE Rounds ==
      \A m \in Members :
         LET moved == PositionOf(level', Anchor) - PositionOf(level, Anchor)
             ideal == PositionOf(level, m) + moved
             step  == Scale \div (Hi[m] - Lo[m]) + Scale \div (Hi[Anchor] - Lo[Anchor])
         IN  ideal \in Position
               => /\ 2 * (PositionOf(level', m) - ideal) <= step + 2
                  /\ 2 * (ideal - PositionOf(level', m)) <= step + 2
<1>1. ASSUME TypeOK, Next PROVE Rounds
  <2> SUFFICES ASSUME NEW m \in Members,
                      PositionOf(level, m) + (PositionOf(level', Anchor) - PositionOf(level, Anchor))
                        \in Position
               PROVE  LET moved == PositionOf(level', Anchor) - PositionOf(level, Anchor)
                          ideal == PositionOf(level, m) + moved
                          step  == Scale \div (Hi[m] - Lo[m]) + Scale \div (Hi[Anchor] - Lo[Anchor])
                      IN  /\ 2 * (PositionOf(level', m) - ideal) <= step + 2
                          /\ 2 * (ideal - PositionOf(level', m)) <= step + 2
    OBVIOUS
  <2> PICK position \in Targets : Drag(position)
    BY <1>1 DEF Next
  <2> DEFINE range(n) == Scale \div (Hi[n] - Lo[n])
             p == PositionOf(level, m)
             a == PositionOf(level, Anchor)
             d == Delta(position)
             b == PositionOf(level', Anchor)
             q == PositionOf(level', m)
  <2>1. ASSUME NEW n \in Members
        PROVE  /\ Lo[n] \in Int /\ Hi[n] \in Int /\ Lo[n] < Hi[n]
               /\ PositionOf(level, n) \in Position
               /\ range(n) \in Int
               /\ level'[n] = MapLevel(Clamp(PositionOf(level, n) + d), Lo[n], Hi[n])
    <3>1. /\ Lo[n] \in Int /\ Hi[n] \in Int /\ Lo[n] < Hi[n]
          /\ level[n] \in Int /\ Mappable(level[n], Lo[n], Hi[n])
      BY <1>1, GroupAssumption DEF TypeOK, Mappable
    <3>2. PositionOf(level, n) \in Position
      BY <3>1, UnmapInPosition DEF PositionOf
    <3>3. range(n) \in Int
      BY <3>1, Division DEF Scale
    <3>4. level'[n] = MapLevel(Clamp(PositionOf(level, n) + d), Lo[n], Hi[n])
      BY DEF Drag, ShiftLevel, PositionOf
    <3> QED
      BY <3>1, <3>2, <3>3, <3>4
  <2>2. Anchor \in Members /\ position \in Position /\ d = position - a
    BY GroupAssumption DEF Delta
  <2>3. ASSUME NEW n \in Members, d \in Int
        PROVE  /\ PositionOf(level', n) \in Position
               /\ 2 * (PositionOf(level', n) - Clamp(PositionOf(level, n) + d)) <= range(n) + 1
               /\ 2 * (Clamp(PositionOf(level, n) + d) - PositionOf(level', n)) <= range(n) + 1
    <3>1. PositionOf(level, n) + d \in Int
      BY <2>1, <2>3 DEF Position
    <3>2. Clamp(PositionOf(level, n) + d) \in Position
      BY <3>1, ClampInPosition
    <3> QED
      BY <2>1, <3>2, RoundTrip DEF PositionOf
  <2>4. p \in Position /\ a \in Position /\ d \in Int /\ range(m) \in Int /\ range(Anchor) \in Int
    <3>1. p \in Position /\ a \in Position /\ range(m) \in Int /\ range(Anchor) \in Int
      BY <2>1, <2>2, Zenon
    <3>2. d \in Int
      BY <1>1, DeltaIsInteger
    <3> QED
      BY <3>1, <3>2, Zenon
  <2> HIDE DEF range, p, a, d, b, q
  <2>5. /\ b \in Position
        /\ 2 * (b - position) <= range(Anchor) + 1 /\ 2 * (position - b) <= range(Anchor) + 1
    <3>1. Clamp(a + d) = position
      BY <2>2, <2>4 DEF Clamp, Position, Scale
    <3> QED
      BY <2>2, <2>3, <2>4, <3>1 DEF a, b
  <2>6. /\ q \in Position
        /\ 2 * (q - Clamp(p + d)) <= range(m) + 1 /\ 2 * (Clamp(p + d) - q) <= range(m) + 1
    BY <2>3, <2>4 DEF p, q
  <2>7. p + (b - a) \in Position
    BY DEF p, b, a
  <2>8. /\ 2 * (Clamp(p + d) - (p + (b - a))) <= range(Anchor) + 1
        /\ 2 * ((p + (b - a)) - Clamp(p + d)) <= range(Anchor) + 1
    <3>1. /\ p + d \in Int
          /\ 2 * ((p + d) - (p + (b - a))) <= range(Anchor) + 1
          /\ 2 * ((p + (b - a)) - (p + d)) <= range(Anchor) + 1
      BY <2>2, <2>4, <2>5 DEF Position
    <3> QED
      BY <2>4, <2>7, <3>1, ClampNears
  <2>9. Clamp(p + d) \in Position
    BY <2>4, ClampInPosition DEF Position
  <2>10. /\ 2 * (q - (p + (b - a))) <= (range(m) + range(Anchor)) + 2
         /\ 2 * ((p + (b - a)) - q) <= (range(m) + range(Anchor)) + 2
    <3> DEFINE c  == Clamp(p + d)
               rm == range(m)
               ra == range(Anchor)
    <3>1. p \in Int /\ a \in Int /\ b \in Int /\ q \in Int /\ c \in Int /\ rm \in Int /\ ra \in Int
      BY <2>4, <2>5, <2>6, <2>9 DEF Position, Scale
    <3>2. /\ 2 * (q - c) <= rm + 1 /\ 2 * (c - q) <= rm + 1
          /\ 2 * (c - (p + (b - a))) <= ra + 1 /\ 2 * ((p + (b - a)) - c) <= ra + 1
      BY <2>6, <2>8
    <3> HIDE DEF c, rm, ra
    <3>3. 2 * (q - (p + (b - a))) <= (rm + ra) + 2 /\ 2 * ((p + (b - a)) - q) <= (rm + ra) + 2
      BY ONLY <3>1, <3>2
    <3> QED
      BY <3>3 DEF rm, ra
  <2> QED
    BY <2>10 DEF range, p, a, b, q
<1>2. TypeOK /\ [Next]_level => [Rounds]_level
  BY <1>1
<1> QED
  BY <1>2, LevelsStayDeclared, PTL DEF Spec, OneDragRounds
=============================================================================
