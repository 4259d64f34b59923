----------------------------- MODULE Notes_proofs -----------------------------
(***************************************************************************)
(* What is proved of the scores of Notes: for every melody of up to 255    *)
(* notes a score is a percentage, 100 for the whole melody only and -25    *)
(* for nothing right only; for every melody of up to 75 notes more right   *)
(* notes give a better score.  And of the notes: the loop over the table   *)
(* finds the closest one of any frequency, and each has its bin.           *)
(***************************************************************************)
EXTENDS MCNotes, FiniteSetTheorems, WellFoundedInduction, TLAPS

(***************************************************************************)
(* Division.                                                               *)
(***************************************************************************)
LEMMA AtLeast ==
    ASSUME NEW a \in Nat, NEW b \in Nat \ {0}, NEW k \in Nat, k * b <= a
    PROVE  a \div b \in Nat /\ k <= a \div b
OBVIOUS

LEMMA LessThan ==
    ASSUME NEW a \in Nat, NEW b \in Nat \ {0}, NEW k \in Nat, a < k * b
    PROVE  a \div b \in Nat /\ a \div b < k
OBVIOUS

LEMMA QuotientType ==
    ASSUME NEW a \in Int, NEW b \in Nat \ {0}
    PROVE  /\ Quotient(a, b) \in Int
           /\ a >= 0 => Quotient(a, b) >= 0
           /\ a <= 0 => Quotient(a, b) <= 0
<1>1. CASE a >= 0
  <2>1. Quotient(a, b) = a \div b /\ a \in Nat
    BY <1>1 DEF Quotient
  <2>2. a \div b \in Nat
    BY <2>1
  <2>3. a = 0 => a \div b = 0
    OBVIOUS
  <2> QED
    BY <1>1, <2>1, <2>2, <2>3
<1>2. CASE a < 0
  <2>1. Quotient(a, b) = -((-a) \div b) /\ -a \in Nat
    BY <1>2 DEF Quotient
  <2>2. (-a) \div b \in Nat
    BY <2>1
  <2> QED
    BY <1>2, <2>1, <2>2
<1> QED
  BY <1>1, <1>2

\* The division of C grows by one at least when its first operand grows by
\* the second, on one side of zero.
LEMMA QuotientGrows ==
    ASSUME NEW a \in Int, NEW d \in Int, NEW b \in Nat \ {0}, d >= a + b,
           a >= 0 \/ d <= 0
    PROVE  Quotient(a, b) < Quotient(d, b)
<1>1. \A m, k \in Nat : k >= m + b => m \div b < k \div b
  <2> SUFFICES ASSUME NEW m \in Nat, NEW k \in Nat, k >= m + b
               PROVE  m \div b < k \div b
    OBVIOUS
  <2>1. m \div b \in Nat /\ (m \div b) * b <= m
    OBVIOUS
  <2>2. PICK q \in Nat : q = m \div b
    BY <2>1
  <2>3. (q + 1) * b <= k /\ q + 1 \in Nat
    BY <2>1, <2>2
  <2>4. q + 1 <= k \div b /\ k \div b \in Nat
    BY <2>3, AtLeast
  <2> QED
    BY <2>2, <2>4
<1>2. CASE a >= 0
  <2>1. a \in Nat /\ d \in Nat
    BY <1>2
  <2>2. a \div b < d \div b
    BY <1>1, <2>1
  <2> QED
    BY <2>1, <2>2 DEF Quotient
<1>3. CASE a < 0 /\ d <= 0
  <2>1. PICK m \in Nat, k \in Nat : m = -a /\ k = -d /\ k + d = 0
    <3>1. -a \in Nat /\ -d \in Nat /\ -d + d = 0
      BY <1>3
    <3> QED
      BY <3>1
  <2>2. k \div b < m \div b /\ k \div b \in Nat /\ m \div b \in Nat
    <3>1. m >= k + b
      BY <2>1
    <3> QED
      BY <1>1, <3>1
  <2>3. Quotient(a, b) = -(m \div b)
    BY <1>3, <2>1 DEF Quotient
  <2>4. Quotient(d, b) = -(k \div b)
    <3>1. CASE d = 0
      <4>1. k = 0
        <5>1. k + d = 0
          BY <2>1
        <5>2. k + d = k + 0
          BY <3>1, Zenon
        <5>3. k + 0 = k
          OBVIOUS
        <5> QED
          BY <5>1, <5>2, <5>3, Zenon
      <4>2. 0 \div b = 0
        BY ONLY b \in Nat \ {0}
      <4>3. Quotient(d, b) = 0 \div b
        BY <3>1 DEF Quotient
      <4> QED
        BY <4>1, <4>2, <4>3
    <3>2. CASE d < 0
      BY <2>1, <3>2 DEF Quotient
    <3> QED
      BY <1>3, <3>1, <3>2
  <2> QED
    BY <2>2, <2>3, <2>4
<1> QED
  BY <1>2, <1>3

-----------------------------------------------------------------------------
(***************************************************************************)
(* Scores.                                                                 *)
(***************************************************************************)

\* The score of r right notes in a melody of s notes, before it is clamped.
Percent(r, s) == Quotient(100 * (5 * r - s), 4 * s)

\* No right note costs a quarter, and more right notes than the melody has
\* there are none, so that the clamp of the score never changes it.
LEMMA PercentIs ==
    ASSUME NEW s \in 1..255, NEW r \in 0..s
    PROVE  /\ Percent(r, s) \in -25..100
           /\ Percent(r, s) = 100 <=> r = s
           /\ Percent(r, s) = -25 <=> r = 0
<1> DEFINE a == 100 * (5 * r - s)
           b == 4 * s
<1>1. a \in Int /\ b \in Nat \ {0} /\ s \in Nat /\ r \in Nat /\ r <= s
  OBVIOUS
<1>2. Percent(r, s) = Quotient(a, b)
  BY DEF Percent
<1>3. CASE a >= 0
  <2>1. Percent(r, s) = a \div b /\ a \in Nat
    BY <1>1, <1>2, <1>3 DEF Quotient
  <2>2. CASE r = s
    <3>1. a = 100 * b
      BY <1>1, <2>2
    <3> HIDE DEF a, b
    <3>2. 100 * b <= a /\ a < 101 * b
      BY <1>1, <3>1
    <3>3. a \div b \in Nat /\ 100 <= a \div b /\ a \div b < 101
      BY <1>1, <2>1, <3>2, AtLeast, LessThan
    <3> QED
      BY <1>1, <2>1, <2>2, <3>3
  <2>3. CASE r < s
    <3>1. a < 100 * b
      BY <1>1, <2>3
    <3>2. r # 0
      BY <1>1, <1>3
    <3> HIDE DEF a, b
    <3>3. a \div b \in Nat /\ a \div b < 100
      BY <1>1, <2>1, <3>1, LessThan
    <3> QED
      BY <1>1, <2>1, <2>3, <3>2, <3>3
  <2> QED
    BY <1>1, <2>2, <2>3
<1>4. CASE a < 0
  <2>1. PICK c \in Nat : c = -a
    <3>1. -a \in Nat
      BY <1>1, <1>4
    <3> QED
      BY <3>1
  <2>2. Percent(r, s) = -(c \div b)
    BY <1>1, <1>2, <1>4, <2>1 DEF Quotient
  <2>3. r # s
    BY <1>1, <1>4
  <2>4. CASE r = 0
    <3>1. c = 25 * b
      BY <1>1, <2>1, <2>4
    <3> HIDE DEF a, b
    <3>2. 25 * b <= c /\ c < 26 * b
      BY <1>1, <3>1
    <3>3. c \div b \in Nat /\ 25 <= c \div b /\ c \div b < 26
      BY <1>1, <3>2, AtLeast, LessThan
    <3> QED
      BY <2>2, <2>3, <2>4, <3>3
  <2>5. CASE r # 0
    <3>1. c < 25 * b
      BY <1>1, <2>1, <2>5
    <3> HIDE DEF a, b
    <3>2. c \div b \in Nat /\ c \div b < 25
      BY <1>1, <3>1, LessThan
    <3> QED
      BY <2>2, <2>3, <2>5, <3>2
  <2> QED
    BY <2>4, <2>5
<1> QED
  BY <1>1, <1>3, <1>4

\* Two scores differ as long as what lies between them is not truncated to
\* zero from both sides, which takes more than 75 notes.
LEMMA PercentGrows ==
    ASSUME NEW s \in 1..75, NEW r \in 0..s, NEW q \in 0..s, r < q
    PROVE  Percent(r, s) < Percent(q, s)
<1> DEFINE a == 100 * (5 * r - s)
           d == 100 * (5 * q - s)
           b == 4 * s
<1>1. /\ a \in Int /\ d \in Int /\ b \in Nat \ {0} /\ d >= a + 500
      /\ b <= 300 /\ (a >= -200 \/ a <= -300)
  OBVIOUS
<1>2. Percent(r, s) = Quotient(a, b) /\ Percent(q, s) = Quotient(d, b)
  BY DEF Percent
<1> HIDE DEF a, d, b
<1>3. /\ Quotient(a, b) \in Int
      /\ a <= 0 => Quotient(a, b) <= 0
  BY <1>1, QuotientType
<1>4. /\ Quotient(d, b) \in Int
      /\ d >= 0 => Quotient(d, b) >= 0
  BY <1>1, QuotientType
<1>5. CASE a >= 0 \/ d <= 0
  BY <1>1, <1>2, <1>5, QuotientGrows
<1>6. CASE a < 0 /\ d > 0 /\ a <= -300
  <2>1. Quotient(a, b) < Quotient(0, b)
    BY <1>1, <1>6, QuotientGrows
  <2>2. Quotient(0, b) <= 0 /\ Quotient(0, b) \in Int
    BY <1>1, QuotientType
  <2> QED
    BY <1>1, <1>2, <1>3, <1>4, <1>6, <2>1, <2>2
<1>7. CASE a < 0 /\ d > 0 /\ a >= -200
  <2>1. Quotient(0, b) < Quotient(d, b)
    BY <1>1, <1>7, QuotientGrows
  <2>2. Quotient(0, b) >= 0 /\ Quotient(0, b) \in Int
    BY <1>1, QuotientType
  <2> QED
    BY <1>1, <1>2, <1>3, <1>4, <1>7, <2>1, <2>2
<1> QED
  BY <1>1, <1>5, <1>6, <1>7

\* The score of a recording is that of the number of its right notes.
LEMMA ScoreIs ==
    ASSUME NEW S, NEW m \in Seq(S), Len(m) \in 1..255, NEW p
    PROVE  /\ Cardinality(Matches(m, p)) \in 0..Len(m)
           /\ calculate_score(m, p) = Percent(Cardinality(Matches(m, p)), Len(m))
<1> DEFINE s == Len(m)
           r == Cardinality(Matches(m, p))
<1>1. s \in Nat /\ s \in 1..255 /\ DOMAIN m = 1..s
  OBVIOUS
<1>2. r \in 0..s
  <2>1. Matches(m, p) \subseteq 1..s
    BY <1>1, Zenon DEF Matches
  <2>2. IsFiniteSet(1..s) /\ Cardinality(1..s) = s
    <3>1. 1 \in Int /\ s \in Int
      BY <1>1
    <3>2. /\ IsFiniteSet(1..s)
          /\ Cardinality(1..s) = IF 1 > s THEN 0 ELSE s - 1 + 1
      BY <3>1, FS_Interval
    <3> QED
      BY <1>1, <3>2
  <2>3. IsFiniteSet(Matches(m, p)) /\ r <= s
    BY <2>1, <2>2, FS_Subset
  <2>4. r \in Nat
    BY <2>3, FS_CardinalityType
  <2> QED
    BY <1>1, <2>3, <2>4
<1> HIDE DEF s, r
<1>3. check_note_sequence(m, p) = 5 * r - s
  <2>1. check_note_sequence(m, p) = 4 * r - 1 * (s - r)
    BY Zenon DEF check_note_sequence, POSITIVE_POINTS, NEGATIVE_POINTS, r, s
  <2> QED
    BY <1>1, <1>2, <2>1
<1>4. Percent(r, s) \in -25..100
  BY <1>1, <1>2, PercentIs
<1>5. calculate_score(m, p) =
         IF Percent(r, s) > 100 THEN 100
         ELSE IF Percent(r, s) < -100 THEN -100 ELSE Percent(r, s)
  BY <1>3, Zenon DEF calculate_score, POSITIVE_POINTS, Percent, s
<1>6. calculate_score(m, p) = Percent(r, s)
  <2>1. PICK x \in -25..100 : x = Percent(r, s)
    BY <1>4
  <2>2. ~(x > 100) /\ ~(x < -100)
    OBVIOUS
  <2> QED
    BY <1>5, <2>1, <2>2, Zenon
<1> QED
  BY <1>2, <1>6 DEF s, r

\* Whoever plays more right notes of a melody, of up to 75, scores more, in
\* whatever octaves and with whatever wrong notes in between: no two different
\* results are made equal by the integer division (music.c:187-197).
THEOREM MoreRightNotesScoreMore ==
    ASSUME NEW S, NEW m \in Seq(S), Len(m) \in 1..75, NEW p, NEW q,
           Cardinality(Matches(m, p)) < Cardinality(Matches(m, q))
    PROVE  calculate_score(m, p) < calculate_score(m, q)
<1>1. Len(m) \in 1..255
  OBVIOUS
<1>2. /\ Cardinality(Matches(m, p)) \in 0..Len(m)
      /\ calculate_score(m, p) = Percent(Cardinality(Matches(m, p)), Len(m))
      /\ Cardinality(Matches(m, q)) \in 0..Len(m)
      /\ calculate_score(m, q) = Percent(Cardinality(Matches(m, q)), Len(m))
  BY <1>1, ScoreIs
<1> QED
  BY <1>2, PercentGrows

-----------------------------------------------------------------------------
(***************************************************************************)
(* The recordings of MCNotes.                                              *)
(***************************************************************************)
SizesInv == size \in 1..MaxSize /\ right \in 0..size /\ n \in Nat

LEMMA Size == MaxSize \in Nat /\ 1 <= MaxSize /\ MaxSize <= 255
BY MaxSizeAssumption

LEMMA SizesInvariant == Spec => []SizesInv
<1>1. Init => SizesInv
  BY Size DEF Init, SizesInv
<1>2. SizesInv /\ [Next]_<<n, size, right>> => SizesInv'
  <2> SUFFICES ASSUME SizesInv, [Next]_<<n, size, right>> PROVE SizesInv'
    OBVIOUS
  <2>1. CASE HearNext
    BY <2>1, Size DEF HearNext, SizesInv
  <2>2. CASE PlayBetter
    BY <2>2, Size DEF PlayBetter, SizesInv
  <2>3. CASE NextMelody
    <3>1. size' \in 1..MaxSize
      <4>1. PICK m \in Nat \ {0} : m = MaxSize
        BY Size
      <4>2. size % m \in 0..m - 1
        <5>1. size \in Nat
          BY Size DEF SizesInv
        <5> QED
          BY <5>1
      <4> QED
        BY <2>3, <4>1, <4>2, Size DEF NextMelody
    <3> QED
      BY <2>3, <3>1, Size DEF NextMelody, SizesInv
  <2>4. CASE UNCHANGED <<n, size, right>>
    BY <2>4 DEF SizesInv
  <2> QED
    BY <2>1, <2>2, <2>3, <2>4 DEF Next
<1> QED
  BY <1>1, <1>2, PTL DEF Spec

\* An octave changes nothing, a semitone makes another note.
LEMMA Octaves ==
    ASSUME NEW x \in 0..59, NEW k \in Nat
    PROVE  /\ ((x + 12 * k) % 60) % 12 = x % 12
           /\ ((x + 1 + 12 * k) % 60) % 12 # x % 12
OBVIOUS

\* The right notes are the ones that were meant to be, and so are the points.
PointsInv ==
    /\ points = Percent(right, size)
    /\ size \in 1..255 /\ right \in 0..size /\ size <= MaxSize

LEMMA PointsAre == SizesInv => PointsInv
<1> SUFFICES ASSUME SizesInv
             PROVE  /\ points = Percent(right, size)
                    /\ size \in 1..255 /\ right \in 0..size /\ size <= MaxSize
  BY DEF PointsInv
<1>1. /\ size \in Nat /\ size \in 1..255 /\ right \in 0..size
      /\ right \in Nat /\ size <= MaxSize
  BY Size DEF SizesInv
<1>2. /\ melody \in Seq(0..59) /\ Len(melody) = size
      /\ \A k \in 1..size : melody[k] \in 0..59
  BY <1>1 DEF melody
<1>3. ASSUME NEW k \in 1..size
      PROVE  played[k] % 12 = melody[k] % 12 <=> k <= right
  <2>1. PICK x \in 0..59 : x = melody[k]
    BY <1>2
  <2>2. k \in Nat
    BY <1>1
  <2>3. played[k] = IF k <= right THEN (x + 12 * k) % 60
                    ELSE IF k % 2 = 0 /\ x % 12 # 0 THEN NONE
                    ELSE (x + 1 + 12 * k) % 60
    BY <2>1, Zenon DEF played
  <2>4. /\ ((x + 12 * k) % 60) % 12 = x % 12
        /\ ((x + 1 + 12 * k) % 60) % 12 # x % 12
    BY <2>2, Octaves
  <2>5. NONE % 12 = 0
    BY DEF NONE
  <2> QED
    BY <2>1, <2>3, <2>4, <2>5, Zenon
<1>4. Matches(melody, played) = 1..right
  <2>1. DOMAIN melody = 1..size
    BY DEF melody
  <2>2. Matches(melody, played) =
           {k \in 1..size : played[k] % 12 = melody[k] % 12}
    BY <2>1, Zenon DEF Matches
  <2>3. Matches(melody, played) = {k \in 1..size : k <= right}
    BY <1>3, <2>2, Zenon
  <2> QED
    BY <1>1, <2>3
<1>5. Cardinality(1..right) = right
  <2>1. 1 \in Int /\ right \in Int
    BY <1>1
  <2>2. Cardinality(1..right) = IF 1 > right THEN 0 ELSE right - 1 + 1
    BY <2>1, FS_Interval
  <2> QED
    BY <1>1, <2>2
<1>6. points = Percent(right, size)
  <2>1. melody \in Seq(0..59) /\ Len(melody) \in 1..255
    BY <1>1, <1>2
  <2>2. calculate_score(melody, played) =
           Percent(Cardinality(Matches(melody, played)), Len(melody))
    BY <2>1, ScoreIs
  <2> QED
    BY <1>2, <1>4, <1>5, <2>2, Zenon DEF points
<1> QED
  BY <1>1, <1>6

LEMMA PointsAreNext == SizesInv' => PointsInv'
BY PointsAre, PTL

\* "Calculates the score percentage", for melodies of up to 255 notes: 100
\* for the whole melody and for nothing less, -25 for no right note and for
\* nothing more (music.c:187-197).
THEOREM ScoresArePercentages == Spec => []ScoreIsPercentage
<1>1. SizesInv => ScoreIsPercentage
  <2> SUFFICES ASSUME PointsInv PROVE ScoreIsPercentage
    BY PointsAre
  <2>1. /\ Percent(right, size) \in -25..100
        /\ Percent(right, size) = 100 <=> right = size
        /\ Percent(right, size) = -25 <=> right = 0
    BY PercentIs, Zenon DEF PointsInv
  <2> QED
    BY <2>1, Zenon DEF PointsInv, ScoreIsPercentage
<1> QED
  BY <1>1, SizesInvariant, PTL

\* One more right note makes a better score, for melodies of up to 75 notes;
\* with 77 there are two results that are both truncated to zero
\* (music.c:189-190, game.c:87).
THEOREM BetterPlayersScoreMore == MaxSize <= 75 => (Spec => BetterScores)
<1> SUFFICES ASSUME MaxSize <= 75 PROVE Spec => BetterScores
  OBVIOUS
<1>1. SizesInv /\ SizesInv' /\ [Next]_<<n, size, right>>
         => [right' > right => points' > points]_<<n, size, right>>
  <2> SUFFICES ASSUME SizesInv, SizesInv', Next, right' > right
               PROVE  points' > points
    BY Zenon
  <2>1. PlayBetter
    <3>1. right \in Int /\ right >= 0
      BY Size DEF SizesInv
    <3>2. CASE HearNext
      BY <3>1, <3>2 DEF HearNext
    <3>3. CASE NextMelody
      BY <3>1, <3>3 DEF NextMelody
    <3> QED
      BY <3>2, <3>3 DEF Next
  <2>2. size' = size
    BY <2>1 DEF PlayBetter
  <2>3. PICK s \in 1..75, r \in Nat, q \in Nat :
           /\ s = size /\ r = right /\ q = right'
           /\ r \in 0..s /\ q \in 0..s /\ r < q
    <3>1. size \in 1..75 /\ right \in 0..size /\ right' \in 0..size
      BY <2>2, Size, PointsAre, PointsAreNext DEF PointsInv
    <3>2. right < right' /\ right \in Nat /\ right' \in Nat
      BY <3>1
    <3> QED
      BY <3>1, <3>2
  <2>4. Percent(r, s) < Percent(q, s)
    BY <2>3, PercentGrows
  <2>5. points = Percent(r, s) /\ points' = Percent(q, s)
    BY <2>2, <2>3, PointsAre, PointsAreNext, Zenon DEF PointsInv
  <2>6. Percent(r, s) \in -25..100 /\ Percent(q, s) \in -25..100
    <3>1. s \in 1..255
      OBVIOUS
    <3> QED
      BY <2>3, <3>1, PercentIs, Zenon
  <2> QED
    BY <2>4, <2>5, <2>6
<1> QED
  BY <1>1, SizesInvariant, PTL DEF Spec, BetterScores

(***************************************************************************)
(* The recognition of a note.                                              *)
(***************************************************************************)

\* Induction up to a bound, over a set instead of a predicate.
LEMMA UpTo ==
    ASSUME NEW b \in Nat, NEW P, 0 \in P,
           \A i \in 0..b - 1 : i \in P => i + 1 \in P
    PROVE  0..b \subseteq P
<1> DEFINE T == (0..b) \ P
<1> SUFFICES ASSUME T # {} PROVE FALSE
  OBVIOUS
<1>1. T \subseteq Nat
  OBVIOUS
<1>2. PICK x \in T : \A y \in T : <<y, x>> \notin OpToRel(<, Nat)
  BY <1>1, NatLessThanWellFounded, WFMin, Zenon
<1>3. \A y \in T : ~(y < x)
  BY <1>1, <1>2 DEF OpToRel
<1>4. x \in 0..b /\ x \notin P /\ x # 0
  BY <1>2
<1>5. x - 1 \in 0..b - 1 /\ x - 1 < x /\ (x - 1) + 1 = x
  BY <1>4
<1>6. x - 1 \in P
  BY <1>3, <1>5
<1> QED
  BY <1>4, <1>5, <1>6

\* The values of NoteLoop's variables before the first note, and the equation
\* of its recursion for the first b notes.
Nothing == [note |-> NONE, error |-> MAX_ACCEPTABLE_FREQ_ERROR]

Loop(f, b, best) ==
    best = [i \in 0..b |-> IF i = 0 THEN Nothing ELSE Improve(best[i - 1], f, i - 1)]

LEMMA LoopGoesOn ==
    ASSUME NEW f, NEW b \in Nat, NEW g, Loop(f, b, g)
    PROVE  \E h : Loop(f, b + 1, h)
<1> DEFINE h == [i \in 0..b + 1 |-> IF i <= b THEN g[i] ELSE Improve(g[b], f, b)]
<1>1. \A i \in 0..b : g[i] = IF i = 0 THEN Nothing ELSE Improve(g[i - 1], f, i - 1)
  BY Zenon DEF Loop
<1>2. \A i \in 0..b + 1 : h[i] = IF i = 0 THEN Nothing ELSE Improve(h[i - 1], f, i - 1)
  <2> TAKE i \in 0..b + 1
  <2>1. CASE i = 0
    <3>1. 0 \in 0..b /\ 0 \in 0..b + 1 /\ 0 <= b
      OBVIOUS
    <3> QED BY <1>1, <2>1, <3>1, Zenon
  <2>2. CASE i \in 1..b
    <3>1. i \in 0..b /\ i <= b /\ i - 1 \in 0..b /\ i - 1 \in 0..b + 1 /\ i - 1 <= b /\ i # 0
      BY <2>2
    <3> QED BY <1>1, <3>1, Zenon
  <2>3. CASE i = b + 1
    <3>1. ~(i <= b) /\ i - 1 = b /\ b \in 0..b /\ b \in 0..b + 1 /\ b <= b /\ i # 0
      BY <2>3
    <3> QED BY <3>1, Zenon
  <2> QED BY <2>1, <2>2, <2>3
<1>3. h = [i \in 0..b + 1 |-> h[i]]
  OBVIOUS
<1> HIDE DEF h
<1>4. h = [i \in 0..b + 1 |-> IF i = 0 THEN Nothing ELSE Improve(h[i - 1], f, i - 1)]
  BY <1>2, <1>3, Zenon
<1> QED BY <1>4 DEF Loop

\* There is a function that satisfies the equation of the loop.
LEMMA LoopExists == ASSUME NEW f PROVE \E g : Loop(f, 60, g)
<1> DEFINE P == {b \in Nat : \E g : Loop(f, b, g)}
<1>1. 0 \in P
  <2>1. Loop(f, 0, [i \in 0..0 |-> Nothing])
    <3>1. \A i \in 0..0 : i = 0
      OBVIOUS
    <3> QED BY <3>1, Zenon DEF Loop
  <2> QED BY <2>1
<1>2. \A i \in 0..59 : i \in P => i + 1 \in P
  BY LoopGoesOn
<1> HIDE DEF P
<1>3. 0..60 \subseteq P
  <2>1. 60 \in Nat /\ 60 - 1 = 59
    OBVIOUS
  <2> QED BY <1>1, <1>2, <2>1, UpTo
<1>4. 60 \in P
  BY <1>3
<1> QED BY <1>4 DEF P

LEMMA LoopIs ==
    ASSUME NEW f
    PROVE  \E g : Loop(f, 60, g) /\ NoteLoop(f) = g[60].note
<1> DEFINE g == CHOOSE g : Loop(f, 60, g)
<1>1. NoteLoop(f) = g[60].note
  BY Zenon DEF NoteLoop, Loop, Nothing
<1>2. Loop(f, 60, g)
  BY LoopExists, Zenon
<1> QED BY <1>1, <1>2, Zenon

\* The table: rising by at least three, and by five from its eighth note on.
LEMMA Table ==
    /\ DOMAIN NoteFreq = 1..60
    /\ \A i \in 1..60 : NoteFreq[i] \in Nat /\ 55 <= NoteFreq[i] /\ NoteFreq[i] <= 1662
    /\ \A i \in 1..59 : NoteFreq[i + 1] - NoteFreq[i] >= 3
    /\ \A i \in 8..59 : NoteFreq[i + 1] - NoteFreq[i] >= 5
BY SMTT(120) DEF NoteFreq

LEMMA ErrorType ==
    ASSUME NEW f \in Int, NEW m \in Note PROVE FreqError(f, m) \in Nat
<1>1. m + 1 \in 1..60
  BY DEF Note
<1>2. NoteFreq[m + 1] \in Int
  BY <1>1, Table
<1> QED BY <1>2 DEF FreqError

\* What the variables hold after the notes below i: no acceptable error yet,
\* or the smallest, and its first note.
FoundNone(f, i, b) ==
    b = Nothing /\ \A m \in 0..i - 1 : FreqError(f, m) >= MAX_ACCEPTABLE_FREQ_ERROR

FoundOne(f, i, b) ==
    /\ b.note \in 0..i - 1 /\ b.error = FreqError(f, b.note)
    /\ b.error < MAX_ACCEPTABLE_FREQ_ERROR
    /\ \A m \in 0..i - 1 :
          b.error <= FreqError(f, m) /\ (m < b.note => b.error < FreqError(f, m))

Found(f, i, b) == FoundNone(f, i, b) \/ FoundOne(f, i, b)

LEMMA ImproveFinds ==
    ASSUME NEW f \in Int, NEW i \in Note, NEW b, Found(f, i, b)
    PROVE  Found(f, i + 1, Improve(b, f, i))
<1> DEFINE e == FreqError(f, i)
           c == Improve(b, f, i)
<1>1. i \in 0..59 /\ e \in Nat /\ \A m \in 0..i : FreqError(f, m) \in Nat
  <2>1. i \in 0..59 /\ \A m \in 0..i : m \in Note
    BY DEF Note
  <2> QED BY <2>1, ErrorType
<1>2. 0..(i + 1) - 1 = 0..i /\ i \in 0..i /\ \A m \in 0..i : m \in 0..i - 1 \/ m = i
  BY <1>1
<1>3. /\ e < b.error => c.note = i /\ c.error = e
      /\ ~(e < b.error) => c = b
  BY Zenon DEF Improve
<1>4. MAX_ACCEPTABLE_FREQ_ERROR = 7
  BY DEF MAX_ACCEPTABLE_FREQ_ERROR
<1> HIDE DEF e, c
<1>5. CASE FoundNone(f, i, b)
  <2>1. b.error = 7 /\ \A m \in 0..i - 1 : FreqError(f, m) >= 7
    BY <1>4, <1>5 DEF FoundNone, Nothing
  <2>2. CASE e < 7
    <3>1. c.note = i /\ c.error = e
      BY <1>3, <2>1, <2>2
    <3>2. \A m \in 0..i : e <= FreqError(f, m) /\ (m < i => e < FreqError(f, m))
      BY <1>1, <1>2, <2>1, <2>2 DEF e
    <3> QED BY <1>1, <1>2, <1>4, <2>2, <3>1, <3>2 DEF Found, FoundOne, e, c
  <2>3. CASE ~(e < 7)
    <3>1. c = b
      BY <1>3, <2>1, <2>3
    <3>2. \A m \in 0..i : FreqError(f, m) >= 7
      BY <1>1, <1>2, <2>1, <2>3 DEF e
    <3> QED BY <1>2, <1>4, <1>5, <3>1, <3>2 DEF Found, FoundNone, c
  <2> QED BY <2>2, <2>3
<1>6. CASE FoundOne(f, i, b)
  <2>1. /\ b.note \in 0..i - 1 /\ b.error = FreqError(f, b.note) /\ b.error < 7
        /\ \A m \in 0..i - 1 :
             b.error <= FreqError(f, m) /\ (m < b.note => b.error < FreqError(f, m))
    BY <1>4, <1>6 DEF FoundOne
  <2>2. b.error \in Nat
    BY <1>1, <2>1
  <2>3. CASE e < b.error
    <3>1. c.note = i /\ c.error = e
      BY <1>3, <2>3
    <3>2. \A m \in 0..i : e <= FreqError(f, m) /\ (m < i => e < FreqError(f, m))
      BY <1>1, <1>2, <2>1, <2>2, <2>3 DEF e
    <3> QED BY <1>1, <1>2, <1>4, <2>1, <2>2, <2>3, <3>1, <3>2 DEF Found, FoundOne, e, c
  <2>4. CASE ~(e < b.error)
    <3>1. c = b
      BY <1>3, <2>4
    <3>2. \A m \in 0..i :
             b.error <= FreqError(f, m) /\ (m < b.note => b.error < FreqError(f, m))
      BY <1>1, <1>2, <2>1, <2>2, <2>4 DEF e
    <3> QED BY <1>1, <1>2, <1>4, <2>1, <3>1, <3>2 DEF Found, FoundOne, c
  <2> QED BY <2>3, <2>4
<1> QED BY <1>5, <1>6 DEF Found

LEMMA LoopFinds ==
    ASSUME NEW f \in Int, NEW g, Loop(f, 60, g)
    PROVE  Found(f, 60, g[60])
<1>1. \A i \in 0..60 : g[i] = IF i = 0 THEN Nothing ELSE Improve(g[i - 1], f, i - 1)
  BY Zenon DEF Loop
<1> DEFINE P == {i \in 0..60 : Found(f, i, g[i])}
<1>2. 0 \in P
  <2>1. g[0] = Nothing
    <3>1. 0 \in 0..60
      OBVIOUS
    <3> QED BY <1>1, <3>1, Zenon
  <2> QED BY <2>1 DEF Found, FoundNone
<1>3. ASSUME NEW i \in 0..60 - 1, i \in P PROVE i + 1 \in P
  <2>1. i \in Note /\ i + 1 \in 0..60 /\ (i + 1) - 1 = i /\ i + 1 # 0
    BY <1>3 DEF Note
  <2>2. g[i + 1] = Improve(g[i], f, i)
    BY <1>1, <2>1, Zenon
  <2>3. Found(f, i + 1, g[i + 1])
    BY <1>3, <2>1, <2>2, ImproveFinds
  <2> QED BY <2>1, <2>3
<1> HIDE DEF P
<1>4. 0..60 \subseteq P
  <2>1. 60 \in Nat
    OBVIOUS
  <2> QED BY <1>2, <1>3, <2>1, UpTo
<1>5. 60 \in P
  BY <1>4
<1> QED BY <1>5 DEF P

\* The loop of freq_to_note ends with the note whose frequency is closest, the
\* lowest of them, or with none if no error is acceptable, for every
\* frequency a message may carry (music.c:226-241).
THEOREM LoopFindsClosest == \A f \in Int : NoteLoop(f) = freq_to_note(f)
<1> TAKE f \in Int
<1>1. PICK g : Loop(f, 60, g) /\ NoteLoop(f) = g[60].note
  BY LoopIs
<1> DEFINE b == g[60]
<1>2. Found(f, 60, b)
  BY <1>1, LoopFinds
<1>3. \A m \in Note : FreqError(f, m) \in Nat
  BY ErrorType
<1>4. 0..60 - 1 = Note
  BY DEF Note
<1>5. MAX_ACCEPTABLE_FREQ_ERROR = 7
  BY DEF MAX_ACCEPTABLE_FREQ_ERROR
<1> HIDE DEF b
<1>6. CASE FoundNone(f, 60, b)
  <2>1. ClosestNote(f) = {}
    <3>1. \A m \in Note : ~(FreqError(f, m) < 7)
      BY <1>3, <1>4, <1>5, <1>6 DEF FoundNone
    <3> QED BY <1>5, <3>1 DEF ClosestNote
  <2>2. b.note = NONE
    BY <1>6 DEF FoundNone, Nothing
  <2> QED BY <1>1, <2>1, <2>2, Zenon DEF freq_to_note, b
<1>7. CASE FoundOne(f, 60, b)
  <2>1. /\ b.note \in Note /\ FreqError(f, b.note) < 7
        /\ \A m \in Note : /\ FreqError(f, b.note) <= FreqError(f, m)
                           /\ m < b.note => FreqError(f, b.note) < FreqError(f, m)
    BY <1>4, <1>5, <1>7 DEF FoundOne
  <2>2. b.note \in ClosestNote(f)
    <3>1. FreqError(f, b.note) < MAX_ACCEPTABLE_FREQ_ERROR
      BY <1>5, <2>1
    <3>2. ASSUME NEW m \in Note
          PROVE  \/ FreqError(f, b.note) < FreqError(f, m)
                 \/ FreqError(f, b.note) = FreqError(f, m) /\ b.note <= m
      <4>1. FreqError(f, m) \in Nat /\ FreqError(f, b.note) \in Nat
        BY <1>3, <2>1
      <4>2. m \in Int /\ b.note \in Int
        BY <2>1 DEF Note
      <4> QED BY <2>1, <4>1, <4>2
    <3> QED BY <2>1, <3>1, <3>2, Zenon DEF ClosestNote
  <2>3. ASSUME NEW k \in ClosestNote(f) PROVE k = b.note
    <3>1. /\ k \in Note
          /\ \/ FreqError(f, k) < FreqError(f, b.note)
             \/ FreqError(f, k) = FreqError(f, b.note) /\ k <= b.note
      BY <2>1, Zenon DEF ClosestNote
    <3>2. FreqError(f, k) \in Nat /\ FreqError(f, b.note) \in Nat
      BY <1>3, <2>1, <3>1
    <3>3. k \in Int /\ b.note \in Int
      BY <2>1, <3>1 DEF Note
    <3>4. /\ FreqError(f, b.note) <= FreqError(f, k)
          /\ k < b.note => FreqError(f, b.note) < FreqError(f, k)
      BY <2>1, <3>1
    <3> QED BY <3>1, <3>2, <3>3, <3>4
  <2>4. ClosestNote(f) = {b.note}
    BY <2>2, <2>3
  <2> QED BY <1>1, <2>4, Zenon DEF freq_to_note, b
<1> QED BY <1>2, <1>6, <1>7 DEF Found

\* The frequencies are apart: by three, and by five from the ninth on.
LEMMA Apart ==
    ASSUME NEW i \in 1..60, NEW j \in 1..60, i < j
    PROVE  /\ NoteFreq[j] >= NoteFreq[i] + 3
           /\ j >= 9 => NoteFreq[j] >= NoteFreq[i] + 5
<1> DEFINE P == {d \in 0..60 - i : NoteFreq[i + d] >= NoteFreq[i] + 3 * d}
<1>1. 0 \in P
  BY Table
<1>2. ASSUME NEW d \in 0..(60 - i) - 1, d \in P PROVE d + 1 \in P
  <2>1. i + d \in 1..59 /\ i + d \in 1..60 /\ (i + d) + 1 \in 1..60 /\ i + (d + 1) = (i + d) + 1
    OBVIOUS
  <2>2. NoteFreq[i + d] >= NoteFreq[i] + 3 * d
    BY <1>2
  <2>3. NoteFreq[(i + d) + 1] - NoteFreq[i + d] >= 3
    BY <2>1, Table
  <2>4. NoteFreq[i] \in Nat /\ NoteFreq[i + d] \in Nat /\ NoteFreq[(i + d) + 1] \in Nat
    BY <2>1, Table
  <2>5. NoteFreq[(i + d) + 1] >= NoteFreq[i] + 3 * (d + 1)
    BY <2>2, <2>3, <2>4
  <2> QED BY <2>1, <2>5
<1>3. 0..60 - i \subseteq P
  <2> HIDE DEF P
  <2>1. 60 - i \in Nat
    OBVIOUS
  <2> QED BY <1>1, <1>2, <2>1, UpTo
<1>4. ASSUME NEW k \in 1..60, i <= k PROVE NoteFreq[k] >= NoteFreq[i] + 3 * (k - i)
  <2>1. k - i \in 0..60 - i /\ i + (k - i) = k
    BY <1>4
  <2>2. k - i \in P
    BY <1>3, <2>1
  <2> QED BY <2>1, <2>2
<1>5. NoteFreq[i] \in Nat /\ NoteFreq[j] \in Nat
  BY Table
<1>6. NoteFreq[j] >= NoteFreq[i] + 3
  <2>1. NoteFreq[j] >= NoteFreq[i] + 3 * (j - i) /\ 3 * (j - i) >= 3
    BY <1>4
  <2> QED BY <1>5, <2>1
<1>7. ASSUME j >= 9 PROVE NoteFreq[j] >= NoteFreq[i] + 5
  <2> DEFINE k == j - 1
  <2>1. k \in 8..59 /\ k \in 1..60 /\ i <= k /\ k + 1 = j
    BY <1>7
  <2> HIDE DEF k
  <2>2. NoteFreq[k] >= NoteFreq[i] + 3 * (k - i) /\ 3 * (k - i) >= 0
    BY <1>4, <2>1
  <2>3. NoteFreq[k + 1] - NoteFreq[k] >= 5 /\ NoteFreq[k] \in Nat
    BY <2>1, Table
  <2> QED BY <1>5, <2>1, <2>2, <2>3
<1> QED BY <1>6, <1>7

\* A frequency as close to a note's as that is recognised as the note.
LEMMA HeardAs ==
    ASSUME NEW f \in Int, NEW i \in 1..60,
           f <= NoteFreq[i] + 1,
           f >= NoteFreq[i] - 1 \/ (i >= 9 /\ f >= NoteFreq[i] - 2)
    PROVE  freq_to_note(f) = i - 1
<1>1. \A j \in 1..60 : NoteFreq[j] \in Nat
  BY Table
<1>2. i - 1 \in Note /\ (i - 1) + 1 = i
  BY DEF Note
<1>3. FreqError(f, i - 1) <= 2 /\ FreqError(f, i - 1) \in Nat
  <2> DEFINE e == FreqError(f, i - 1)
  <2>1. e = IF f < NoteFreq[i] THEN NoteFreq[i] - f ELSE f - NoteFreq[i]
    BY <1>2, Zenon DEF FreqError
  <2> HIDE DEF e
  <2>2. e \in Nat /\ e <= 2
    BY <1>1, <2>1
  <2> QED BY <2>2 DEF e
<1>4. ASSUME NEW m \in Note, m # i - 1 PROVE FreqError(f, i - 1) < FreqError(f, m)
  <2> DEFINE j == m + 1
             e == FreqError(f, i - 1)
             d == FreqError(f, m)
  <2>1. j \in 1..60 /\ j # i
    BY <1>4 DEF Note
  <2>2. e = IF f < NoteFreq[i] THEN NoteFreq[i] - f ELSE f - NoteFreq[i]
    BY <1>2, Zenon DEF FreqError
  <2>3. d = IF f < NoteFreq[j] THEN NoteFreq[j] - f ELSE f - NoteFreq[j]
    BY Zenon DEF FreqError
  <2> HIDE DEF e, d, j
  <2>4. CASE i < j
    <3>1. NoteFreq[j] >= NoteFreq[i] + 3
      BY <2>1, <2>4, Apart
    <3>2. e < d
      BY <1>1, <2>1, <2>2, <2>3, <3>1
    <3> QED BY <3>2 DEF e, d
  <2>5. CASE j < i
    <3>1. /\ NoteFreq[i] >= NoteFreq[j] + 3
          /\ i >= 9 => NoteFreq[i] >= NoteFreq[j] + 5
      BY <2>1, <2>5, Apart
    <3>2. e < d
      BY <1>1, <2>1, <2>2, <2>3, <3>1
    <3> QED BY <3>2 DEF e, d
  <2>6. i < j \/ j < i
    BY <2>1
  <2> QED BY <2>4, <2>5, <2>6
<1>5. \A m \in Note : FreqError(f, m) \in Nat
  BY ErrorType
<1>6. i - 1 \in ClosestNote(f)
  <2>1. FreqError(f, i - 1) < MAX_ACCEPTABLE_FREQ_ERROR
    BY <1>3 DEF MAX_ACCEPTABLE_FREQ_ERROR
  <2>2. \A m \in Note : m = i - 1 => FreqError(f, i - 1) = FreqError(f, m) /\ i - 1 <= m
    OBVIOUS
  <2> QED BY <1>2, <1>4, <2>1, <2>2, Zenon DEF ClosestNote
<1>7. ASSUME NEW m \in ClosestNote(f) PROVE m = i - 1
  <2>1. /\ m \in Note
        /\ \/ FreqError(f, m) < FreqError(f, i - 1)
           \/ FreqError(f, m) = FreqError(f, i - 1) /\ m <= i - 1
    BY <1>2, Zenon DEF ClosestNote
  <2>2. CASE m # i - 1
    <3>1. FreqError(f, i - 1) < FreqError(f, m)
      BY <1>4, <2>1, <2>2
    <3>2. FreqError(f, i - 1) \in Nat /\ FreqError(f, m) \in Nat
      BY <1>2, <1>5, <2>1
    <3> QED BY <2>1, <3>1, <3>2
  <2> QED BY <2>2
<1>8. ClosestNote(f) = {i - 1}
  BY <1>6, <1>7
<1> QED BY <1>8, Zenon DEF freq_to_note

\* The bin closest to the frequency of a note.
NoteBin(i) == 2 + (32 * NoteFreq[i] + 62) \div 125

LEMMA NoteBinIs ==
    ASSUME NEW i \in 1..60
    PROVE  /\ NoteBin(i) \in Bin /\ BinFreq(NoteBin(i)) \in Int
           /\ BinFreq(NoteBin(i)) <= NoteFreq[i] + 1
           /\ BinFreq(NoteBin(i)) >= NoteFreq[i] - 2
           /\ i <= 8 => BinFreq(NoteBin(i)) >= NoteFreq[i] - 1
<1> DEFINE F == NoteFreq[i]
           q == (32 * F + 62) \div 125
           f == (125 * q) \div 32
<1>1. F \in Nat /\ 55 <= F /\ F <= 1662
  BY Table
<1> HIDE DEF F
<1>2. q \in Nat /\ 125 * q <= 32 * F + 62 /\ 32 * F + 62 < 125 * q + 125
  BY <1>1
<1> HIDE DEF q
<1>3. f \in Nat /\ 32 * f <= 125 * q /\ 125 * q < 32 * f + 32
  BY <1>2
<1> HIDE DEF f
<1>4. f <= F + 1 /\ f >= F - 2
  BY <1>1, <1>2, <1>3
<1>5. q <= 426 /\ 2 + q \in Bin
  BY <1>1, <1>2 DEF Bin
<1>6. BinFreq(2 + q) = f
  <2>1. ~(2 + q < 2) /\ (2 + q) - 2 = q
    BY <1>2
  <2> QED BY <2>1, SMT DEF BinFreq, f
<1>7. NoteBin(i) = 2 + q
  BY Zenon DEF NoteBin, q, F
<1>8. ASSUME i <= 8 PROVE f >= F - 1
  <2>1. F \in {55, 58, 62, 65, 69, 73, 77, 82}
    <3>1. i \in 1..8
      BY <1>8
    <3> QED BY <3>1, SMTT(60) DEF F, NoteFreq
  <2> QED BY <1>2, <1>3, <2>1
<1> QED BY <1>3, <1>4, <1>5, <1>6, <1>7, <1>8 DEF F

\* Every note has a bin whose frequency is recognised as it, although the two
\* lowest octaves are closer together than the bins and the cast to msg_t drops
\* the fraction: the bin that is closest to the note's frequency
\* (audio_processing.c:58-72, music.c:226-241).
THEOREM ClosestBinIsHeard ==
    \A m \in Note : NoteBin(m + 1) \in Bin /\ freq_to_note(BinFreq(NoteBin(m + 1))) = m
<1> TAKE m \in Note
<1> DEFINE i == m + 1
           f == BinFreq(NoteBin(i))
<1>1. i \in 1..60 /\ i - 1 = m
  BY DEF Note
<1> HIDE DEF i
<1>2. /\ NoteBin(i) \in Bin /\ f \in Int
      /\ f <= NoteFreq[i] + 1 /\ f >= NoteFreq[i] - 2
      /\ i <= 8 => f >= NoteFreq[i] - 1
  BY <1>1, NoteBinIs
<1> HIDE DEF f
<1>3. f >= NoteFreq[i] - 1 \/ (i >= 9 /\ f >= NoteFreq[i] - 2)
  BY <1>1, <1>2
<1>4. freq_to_note(f) = m
  BY <1>1, <1>2, <1>3, HeardAs
<1> QED BY <1>2, <1>4 DEF f, i

\* The bins below the offset are no note.
LEMMA NoNoteBelowOffset ==
    ASSUME NEW k \in 0..1 PROVE freq_to_note(BinFreq(k)) = NONE
<1> DEFINE f == BinFreq(k)
<1>1. f = 2147483647
  BY SMT DEF BinFreq
<1> HIDE DEF f
<1>2. ASSUME NEW m \in Note PROVE ~(FreqError(f, m) < MAX_ACCEPTABLE_FREQ_ERROR)
  <2>1. m + 1 \in 1..60
    BY DEF Note
  <2>2. NoteFreq[m + 1] \in Nat /\ NoteFreq[m + 1] <= 1662
    BY <2>1, Table
  <2> QED BY <1>1, <2>2, SMT DEF FreqError, MAX_ACCEPTABLE_FREQ_ERROR
<1>3. ClosestNote(f) = {}
  BY <1>2, Zenon DEF ClosestNote
<1> QED BY <1>3, Zenon DEF freq_to_note, f

\* In every state: the loop finds the closest note of the frequency that is
\* tried (music.c:226-241).
THEOREM ClosestNoteIsFound == Spec => []ClosestNoteFound
<1>1. SizesInv => ClosestNoteFound
  BY LoopFindsClosest DEF SizesInv, ClosestNoteFound
<1> QED BY <1>1, SizesInvariant, PTL

\* In every state: the note that is tried can be heard, and a bin below the
\* offset is none (audio_processing.c:58-72, music.c:395).
THEOREM EveryNoteIsHeard == Spec => []EveryNoteHeard
<1>1. SizesInv => EveryNoteHeard
  <2> SUFFICES ASSUME SizesInv PROVE EveryNoteHeard
    OBVIOUS
  <2>1. n \in Note => \E k \in Bin : freq_to_note(BinFreq(k)) = n
    BY ClosestBinIsHeard, Zenon
  <2>2. n < 2 => freq_to_note(BinFreq(n)) = NONE
    <3>1. n < 2 => n \in 0..1
      BY DEF SizesInv
    <3> QED BY <3>1, NoNoteBelowOffset, Zenon
  <2> QED BY <2>1, <2>2, Zenon DEF EveryNoteHeard
<1> QED BY <1>1, SizesInvariant, PTL
=============================================================================
