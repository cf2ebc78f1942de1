--------------------------- MODULE BlockIdsProofs ---------------------------
(***************************************************************************)
(* Arithmetic of the wrapping block ids, for every modulus.  The lemmas    *)
(* reduce `%' to the quotient and remainder of a division, which the SMT   *)
(* solver cannot do by itself for a modulus that is not a number.          *)
(***************************************************************************)
EXTENDS BlockIds, TLAPS

\* A natural number is its quotient by IdModulus and its remainder.
LEMMA Euclid ==
  ASSUME NEW a \in Nat
  PROVE  /\ a = (IdModulus * (a \div IdModulus)) + (a % IdModulus)
         /\ a % IdModulus \in Ids
         /\ a \div IdModulus \in Nat
  BY IdModulusAssumption DEF Ids

\* A larger quotient means a number larger by at least one full turn.
LEMMA QuotientGap ==
  ASSUME NEW q \in Int, NEW r \in Int, q < r
  PROVE  IdModulus * r >= IdModulus * q + IdModulus
<1>1. r - q - 1 \in Nat
  OBVIOUS
<1>2. IdModulus * (r - q - 1) >= 0
  BY <1>1, IdModulusAssumption
<1>3. IdModulus * (r - q - 1) = IdModulus * r - IdModulus * q - IdModulus
  BY IdModulusAssumption
<1>4. QED
  BY <1>2, <1>3, IdModulusAssumption

\* Quotient and remainder are unique.
LEMMA QuotientUnique ==
  ASSUME NEW q \in Int, NEW r \in Int, NEW x \in Ids, NEW y \in Ids,
         IdModulus * q + x = IdModulus * r + y
  PROVE  q = r /\ x = y
<1>1. ~(q < r)
  BY QuotientGap, IdModulusAssumption DEF Ids
<1>2. ~(r < q)
  BY QuotientGap, IdModulusAssumption DEF Ids
<1>3. q = r
  BY <1>1, <1>2
<1>4. QED
  BY <1>3, IdModulusAssumption DEF Ids

\* Counting one position further increments the id, or wraps it to zero.
LEMMA SuccWraps ==
  ASSUME NEW a \in Nat
  PROVE  (a + 1) % IdModulus = IF (a % IdModulus) + 1 = IdModulus
                               THEN 0 ELSE (a % IdModulus) + 1
<1> DEFINE q == a \div IdModulus
           x == a % IdModulus
           r == (a + 1) \div IdModulus
           y == (a + 1) % IdModulus
<1>1. a = IdModulus * q + x /\ x \in Ids /\ q \in Nat
  BY Euclid
<1>2. a + 1 = IdModulus * r + y /\ y \in Ids /\ r \in Nat
  BY Euclid
<1>3. IdModulus * q \in Int /\ IdModulus * (q + 1) = IdModulus * q + IdModulus
  BY <1>1, IdModulusAssumption
<1> HIDE DEF q, x, r, y
<1>4. CASE x + 1 = IdModulus
  <2>1. IdModulus * (q + 1) + 0 = IdModulus * r + y
    BY <1>1, <1>2, <1>3, <1>4, IdModulusAssumption DEF Ids
  <2>2. q + 1 \in Int /\ 0 \in Ids
    BY <1>1, IdModulusAssumption DEF Ids
  <2>3. y = 0
    BY <2>1, <2>2, <1>2, QuotientUnique
  <2>4. QED
    BY <2>3, <1>4 DEF x, y
<1>5. CASE x + 1 # IdModulus
  <2>1. IdModulus * q + (x + 1) = IdModulus * r + y
    BY <1>1, <1>2, <1>3, IdModulusAssumption DEF Ids
  <2>2. x + 1 \in Ids
    BY <1>1, <1>5, IdModulusAssumption DEF Ids
  <2>3. y = x + 1
    BY <2>1, <2>2, <1>1, <1>2, QuotientUnique
  <2>4. QED
    BY <2>3, <1>5 DEF x, y
<1>6. QED
  BY <1>4, <1>5

\* Two positions less than a full turn apart have different ids.
LEMMA IdsDistinctInATurn ==
  ASSUME NEW a \in Nat, NEW b \in Nat, a <= b, b < a + IdModulus,
         IdOf(a) = IdOf(b)
  PROVE  a = b
<1> DEFINE q == a \div IdModulus
           r == b \div IdModulus
           x == a % IdModulus
<1>1. a = IdModulus * q + x /\ x \in Ids /\ q \in Nat
  BY Euclid
<1>2. b = IdModulus * r + x /\ r \in Nat
  BY Euclid DEF IdOf
<1>3. IdModulus * q \in Int /\ IdModulus * r \in Int
  BY <1>1, <1>2, IdModulusAssumption
<1> HIDE DEF q, r, x
<1>4. ~(q < r)
  BY <1>1, <1>2, <1>3, QuotientGap, IdModulusAssumption DEF Ids
<1>5. ~(r < q)
  BY <1>1, <1>2, <1>3, QuotientGap, IdModulusAssumption DEF Ids
<1>6. QED
  BY <1>4, <1>5, <1>1, <1>2

\* Ids are ids, and incrementing the id of a position gives the id of the next.
LEMMA IdOfType == ASSUME NEW n \in Nat PROVE IdOf(n) \in Ids
  BY Euclid DEF IdOf

LEMMA IdOfNext ==
  ASSUME NEW n \in Nat
  PROVE  WrappingAdd(IdOf(n), 1) = IdOf(n + 1)
<1>1. IdOf(n) \in Ids
  BY IdOfType
<1>2. CASE IdOf(n) + 1 = IdModulus
  <2>1. IdModulus % IdModulus = 0
    BY IdModulusAssumption
  <2>2. (IdOf(n) + 1) % IdModulus = 0
    BY <1>2, <2>1
  <2>3. IdOf(n + 1) = 0
    BY <1>2, SuccWraps DEF IdOf
  <2>4. QED
    BY <2>2, <2>3 DEF WrappingAdd
<1>3. CASE IdOf(n) + 1 # IdModulus
  <2>1. IdOf(n) + 1 \in 0 .. (IdModulus - 1)
    BY <1>1, <1>3, IdModulusAssumption DEF Ids
  <2>2. (IdOf(n) + 1) % IdModulus = IdOf(n) + 1
    BY <2>1, IdModulusAssumption
  <2>3. QED
    BY <2>2, <1>3, SuccWraps DEF WrappingAdd, IdOf
<1>4. QED
  BY <1>2, <1>3

-----------------------------------------------------------------------------
(* The ring of block ids as the window of reblock walks it: distances from *)
(* the current id, and how one step changes them.                          *)

\* A number between minus one turn and one turn, reduced to an id.
LEMMA ReduceOnce ==
  ASSUME NEW x \in Int, -IdModulus < x, x < IdModulus
  PROVE  x % IdModulus = IF x >= 0 THEN x ELSE x + IdModulus
<1>1. CASE x >= 0
  BY <1>1, IdModulusAssumption
<1>2. CASE x < 0
  <2> DEFINE q == x \div IdModulus
             y == x % IdModulus
  <2>1. x = IdModulus * q + y /\ q \in Int /\ y \in Ids
    BY IdModulusAssumption DEF Ids
  <2> HIDE DEF q, y
  <2>2. IdModulus * q + y = IdModulus * (-1) + (x + IdModulus)
    BY <2>1, IdModulusAssumption
  <2>3. x + IdModulus \in Ids /\ -1 \in Int
    BY <1>2, IdModulusAssumption DEF Ids
  <2>4. y = x + IdModulus
    BY <2>1, <2>2, <2>3, QuotientUnique
  <2>5. QED
    BY <2>4, <1>2 DEF y
<1>3. QED
  BY <1>1, <1>2

\* The distance between two ids, without the modulo.
LEMMA AheadValue ==
  ASSUME NEW from \in Ids, NEW to \in Ids
  PROVE  /\ Ahead(from, to) = IF from <= to THEN to - from ELSE to - from + IdModulus
         /\ Ahead(from, to) \in Ids
<1>1. to - from \in Int /\ -IdModulus < to - from /\ to - from < IdModulus
  BY IdModulusAssumption DEF Ids
<1>2. Ahead(from, to) = IF to - from >= 0 THEN to - from ELSE to - from + IdModulus
  BY <1>1, ReduceOnce DEF Ahead
<1>3. QED
  BY <1>1, <1>2, IdModulusAssumption DEF Ids

\* Adding less than a turn to an id, without the modulo.
LEMMA WrappingAddValue ==
  ASSUME NEW id \in Ids, NEW n \in Ids
  PROVE  /\ WrappingAdd(id, n) = IF id + n < IdModulus THEN id + n ELSE id + n - IdModulus
         /\ WrappingAdd(id, n) \in Ids
<1>1. CASE id + n < IdModulus
  BY <1>1, IdModulusAssumption DEF WrappingAdd, Ids
<1>2. CASE id + n >= IdModulus
  <2> DEFINE q == (id + n) \div IdModulus
             y == (id + n) % IdModulus
  <2>1. id + n = IdModulus * q + y /\ q \in Int /\ y \in Ids
    BY IdModulusAssumption DEF Ids
  <2> HIDE DEF q, y
  <2>2. IdModulus * q + y = IdModulus * 1 + (id + n - IdModulus)
    BY <2>1, IdModulusAssumption DEF Ids
  <2>3. id + n - IdModulus \in Ids
    BY <1>2, IdModulusAssumption DEF Ids
  <2>4. y = id + n - IdModulus
    BY <2>1, <2>2, <2>3, QuotientUnique
  <2>5. WrappingAdd(id, n) = id + n - IdModulus
    BY <2>4 DEF y, WrappingAdd
  <2>6. QED
    BY <2>3, <2>5, <1>2, IdModulusAssumption DEF Ids
<1>3. QED
  BY <1>1, <1>2, IdModulusAssumption DEF Ids

\* The window is not empty and leaves ids out.
LEMMA WindowWidthRange ==
  /\ WindowWidth \in Ids
  /\ 1 <= WindowWidth
  /\ WindowWidth + WindowWidth < IdModulus
  BY IdModulusAssumption DEF WindowWidth, Ids

\* An id is no step ahead of itself.
LEMMA AheadSelf == ASSUME NEW id \in Ids PROVE Ahead(id, id) = 0
  BY AheadValue, IdModulusAssumption DEF Ids

\* The id that Advance brings into the window lies just beyond it.
LEMMA OppositeJustBeyond ==
  ASSUME NEW id \in Ids
  PROVE  /\ WrappingAdd(id, WindowWidth) \in Ids
         /\ WrappingAdd(id, WindowWidth) # id
         /\ Ahead(id, WrappingAdd(id, WindowWidth)) = WindowWidth
<1>1. /\ WrappingAdd(id, WindowWidth) =
           IF id + WindowWidth < IdModulus THEN id + WindowWidth
           ELSE id + WindowWidth - IdModulus
      /\ WrappingAdd(id, WindowWidth) \in Ids
  BY WrappingAddValue, WindowWidthRange
<1>2. Ahead(id, WrappingAdd(id, WindowWidth)) =
        IF id <= WrappingAdd(id, WindowWidth) THEN WrappingAdd(id, WindowWidth) - id
        ELSE WrappingAdd(id, WindowWidth) - id + IdModulus
  BY <1>1, AheadValue
<1>3. QED
  BY <1>1, <1>2, WindowWidthRange, IdModulusAssumption DEF Ids

\* One step of the current id brings every other id one step nearer.
LEMMA AheadAfterStep ==
  ASSUME NEW id \in Ids, NEW x \in Ids
  PROVE  /\ WrappingAdd(id, 1) \in Ids
         /\ x # id => Ahead(WrappingAdd(id, 1), x) = Ahead(id, x) - 1
         /\ x = id => Ahead(WrappingAdd(id, 1), x) = IdModulus - 1
<1>1. 1 \in Ids
  BY IdModulusAssumption DEF Ids
<1>2. /\ WrappingAdd(id, 1) = IF id + 1 < IdModulus THEN id + 1 ELSE id + 1 - IdModulus
      /\ WrappingAdd(id, 1) \in Ids
  BY <1>1, WrappingAddValue
<1>3. Ahead(WrappingAdd(id, 1), x) =
        IF WrappingAdd(id, 1) <= x THEN x - WrappingAdd(id, 1)
        ELSE x - WrappingAdd(id, 1) + IdModulus
  BY <1>2, AheadValue
<1>4. Ahead(id, x) = IF id <= x THEN x - id ELSE x - id + IdModulus
  BY AheadValue
<1>5. QED
  BY <1>2, <1>3, <1>4, IdModulusAssumption DEF Ids

\* Less than a turn apart, block numbers are as far apart as their ids.
LEMMA AheadOfNumbers ==
  ASSUME NEW n \in Nat, NEW d \in Ids
  PROVE  Ahead(IdOf(n), IdOf(n + d)) = d
<1> DEFINE q == n \div IdModulus
           a == n % IdModulus
           r == (n + d) \div IdModulus
           b == (n + d) % IdModulus
<1>1. n = IdModulus * q + a /\ a \in Ids /\ q \in Nat
  BY Euclid
<1>2. n + d \in Nat
  BY IdModulusAssumption DEF Ids
<1>3. n + d = IdModulus * r + b /\ b \in Ids /\ r \in Nat
  BY <1>2, Euclid
<1>4. Ahead(a, b) = IF a <= b THEN b - a ELSE b - a + IdModulus
  BY <1>1, <1>3, AheadValue
<1>5. IdOf(n) = a /\ IdOf(n + d) = b
  BY DEF IdOf
<1>6. /\ IdModulus * q \in Int /\ IdModulus * r \in Int
      /\ IdModulus * (q + 1) = IdModulus * q + IdModulus
  BY <1>1, <1>3, IdModulusAssumption
<1> HIDE DEF q, a, r, b
<1>7. CASE a + d < IdModulus
  <2>1. IdModulus * q + (a + d) = IdModulus * r + b
    BY <1>1, <1>3, <1>6, IdModulusAssumption DEF Ids
  <2>2. a + d \in Ids /\ q \in Int /\ r \in Int
    BY <1>7, <1>1, <1>3, IdModulusAssumption DEF Ids
  <2>3. a + d = b
    BY <2>1, <2>2, <1>3, QuotientUnique
  <2>4. QED
    BY <2>3, <1>1, <1>4, <1>5, IdModulusAssumption DEF Ids
<1>8. CASE a + d >= IdModulus
  <2>1. IdModulus * (q + 1) + (a + d - IdModulus) = IdModulus * r + b
    BY <1>1, <1>3, <1>6, IdModulusAssumption DEF Ids
  <2>2. a + d - IdModulus \in Ids /\ q + 1 \in Int /\ r \in Int
    BY <1>8, <1>1, <1>3, IdModulusAssumption DEF Ids
  <2>3. a + d - IdModulus = b
    BY <2>1, <2>2, <1>3, QuotientUnique
  <2>4. QED
    BY <2>3, <1>1, <1>3, <1>4, <1>5, IdModulusAssumption DEF Ids
<1>9. QED
  BY <1>1, <1>7, <1>8, IdModulusAssumption DEF Ids

\* A number at most IdModulus - WindowWidth behind another has an id out of the
\* window that starts at the other's.
LEMMA BehindIsOutOfWindow ==
  ASSUME NEW n \in Nat, NEW b \in Nat, b < n, n <= b + (IdModulus - WindowWidth)
  PROVE  Ahead(IdOf(n), IdOf(b)) >= WindowWidth
<1>1. n - b \in Ids /\ n - b >= 1
  BY WindowWidthRange, IdModulusAssumption DEF Ids
<1>2. Ahead(IdOf(b), IdOf(b + (n - b))) = n - b
  BY <1>1, AheadOfNumbers
<1>3. b + (n - b) = n
  OBVIOUS
<1>4. IdOf(b) \in Ids /\ IdOf(n) \in Ids
  BY IdOfType
<1>5. Ahead(IdOf(b), IdOf(n)) = n - b
  BY <1>2, <1>3
<1>6. Ahead(IdOf(b), IdOf(n)) = IF IdOf(b) <= IdOf(n) THEN IdOf(n) - IdOf(b)
                                ELSE IdOf(n) - IdOf(b) + IdModulus
  BY <1>4, AheadValue
<1>7. Ahead(IdOf(n), IdOf(b)) = IF IdOf(n) <= IdOf(b) THEN IdOf(b) - IdOf(n)
                                ELSE IdOf(b) - IdOf(n) + IdModulus
  BY <1>4, AheadValue
<1>8. QED
  BY <1>1, <1>4, <1>5, <1>6, <1>7, WindowWidthRange, IdModulusAssumption DEF Ids

=============================================================================
