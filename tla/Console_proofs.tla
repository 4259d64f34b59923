--------------------------- MODULE Console_proofs ---------------------------
(***************************************************************************)
(* Proofs about the serial line of Console, for every picture, whatever    *)
(* the user types and any size of the robot's queue: its types, that only  *)
(* empty lines stall the two programs, that the search for START knows     *)
(* what it has seen, and that the PC gets the picture.                     *)
(***************************************************************************)
EXTENDS Console, SequenceTheorems, TLAPS

\* The length of a row, and the two bytes that say it.
RowLen == 2 * width
Low == RowLen % 256
High == RowLen \div 256

LEMMA Rows ==
    /\ RowLen \in Nat /\ 2 <= RowLen /\ RowLen <= 32766 /\ RowLen % 2 = 0
    /\ RowBytes \subseteq [1..RowLen -> 0..255]
    /\ height \in Nat \ {0} /\ ROWS \in Nat /\ height <= ROWS
    /\ SERIAL_BUFFERS_SIZE \in Nat /\ MaxAsks \in Nat /\ MaxLost \in Nat
<1>1. width \in Int /\ 1 <= width /\ width <= 16383
  BY ConsoleAssumption
<1>2. RowLen \in Nat /\ 2 <= RowLen /\ RowLen <= 32766 /\ RowLen % 2 = 0
  BY <1>1 DEF RowLen
<1>3. RowBytes \subseteq [1..RowLen -> 0..255]
  BY ConsoleAssumption DEF RowLen
<1>4. height \in 1..ROWS /\ ROWS \in Nat
  BY ConsoleAssumption
<1>5. SERIAL_BUFFERS_SIZE \in Nat /\ MaxAsks \in Nat /\ MaxLost \in Nat
  BY ConsoleAssumption
<1> QED BY <1>2, <1>3, <1>4, <1>5

\* The two bytes make up the length, and the sign bit is clear.
LEMMA SizeBytes ==
    /\ Low \in 0..255 /\ High \in 0..255 /\ RowLen = Low + 256 * High
<1>1. RowLen \in Nat /\ RowLen <= 32766
  BY Rows
<1>2. Low \in 0..255 /\ RowLen = Low + 256 * High
  BY <1>1 DEF Low, High
<1>3. High \in Int /\ 0 <= High /\ High <= 255
  BY <1>1 DEF High
<1> QED BY <1>2, <1>3

\* Two sequences, one after the other.
LEMMA Concat ==
    ASSUME NEW S, NEW s \in Seq(S), NEW t \in Seq(S)
    PROVE  /\ s \o t \in Seq(S) /\ Len(s \o t) = Len(s) + Len(t)
           /\ \A i \in 1..Len(s) : (s \o t)[i] = s[i]
           /\ \A i \in 1..Len(t) : (s \o t)[Len(s) + i] = t[i]
<1> DEFINE m == Len(s)
           n == Len(t)
<1>1. /\ s \o t \in Seq(S) /\ Len(s \o t) = m + n /\ m \in Nat /\ n \in Nat
      /\ \A i \in 1..m + n : (s \o t)[i] = IF i <= m THEN s[i] ELSE t[i - m]
  BY ConcatProperties, LenProperties
<1> HIDE DEF m, n
<1>2. \A i \in 1..m : (s \o t)[i] = s[i]
  BY <1>1
<1>3. ASSUME NEW i \in 1..n PROVE (s \o t)[m + i] = t[i]
  <2>1. PICK j \in 1..m + n : j = m + i /\ ~(j <= m) /\ j - m = i
    BY <1>1
  <2>2. (s \o t)[j] = t[j - m]
    BY <1>1, <2>1
  <2> QED BY <2>1, <2>2
<1> QED BY <1>1, <1>2, <1>3 DEF m, n

\* A row is the sequence of its bytes.
LEMMA RowIsSeq ==
    ASSUME NEW bytes \in RowBytes
    PROVE  bytes \in Seq(Item) /\ Len(bytes) = RowLen
           /\ \A q \in 1..RowLen : bytes[q] \in 0..255
<1>1. bytes \in [1..RowLen -> 0..255] /\ RowLen \in Nat
  BY Rows
<1>2. 0..255 \subseteq Item
  BY DEF Item
<1>3. bytes \in [1..RowLen -> Item]
  BY <1>1, <1>2
<1>4. bytes \in Seq(Item)
  BY <1>1, <1>3, SeqDef
<1>5. Len(bytes) = RowLen
  BY <1>1, <1>4, LenProperties
<1> QED BY <1>1, <1>4, <1>5

\* What goes over the line for a row: START, the size, and the bytes.
LEMMA FrameIs ==
    ASSUME NEW bytes \in RowBytes
    PROVE  /\ Frame(bytes) \in Seq(Item) /\ Len(Frame(bytes)) = RowLen + 7
           /\ \A q \in 1..5 : Frame(bytes)[q] = START[q]
           /\ Frame(bytes)[6] = Low /\ Frame(bytes)[7] = High
           /\ \A q \in 1..RowLen : Frame(bytes)[q + 7] = bytes[q]
           /\ \A q \in 1..RowLen + 7 : Frame(bytes)[q] \in 0..255
<1> DEFINE two == <<Low, High>>
<1> DEFINE Head7 == START \o two
<1>1. /\ bytes \in Seq(Item) /\ Len(bytes) = RowLen /\ RowLen \in Nat
      /\ \A q \in 1..RowLen : bytes[q] \in 0..255
  BY Rows, RowIsSeq
<1>2. START \in Seq(Item) /\ Len(START) = 5
      /\ \A q \in 1..5 : START[q] \in 0..255
  BY DEF START, Item
<1>3. two \in Seq(Item) /\ Len(two) = 2 /\ two[1] = Low /\ two[2] = High
  BY SizeBytes DEF Item
<1>5. Frame(bytes) = Head7 \o bytes
  BY <1>1 DEF Frame, Low, High
<1> HIDE DEF two
<1>6a. /\ Head7 \in Seq(Item) /\ Len(Head7) = Len(START) + Len(two)
       /\ \A q \in 1..Len(START) : Head7[q] = START[q]
       /\ \A q \in 1..Len(two) : Head7[Len(START) + q] = two[q]
  <2>1. START \in Seq(Item) /\ two \in Seq(Item)
    BY <1>2, <1>3
  <2> QED BY <2>1, Concat
<1> HIDE DEF Head7
<1>6. /\ Head7 \in Seq(Item) /\ Len(Head7) = 7
      /\ \A q \in 1..5 : Head7[q] = START[q]
      /\ \A q \in 1..2 : Head7[5 + q] = two[q]
  BY <1>6a, <1>2, <1>3
<1>7. Head7[6] = Low /\ Head7[7] = High
  BY <1>3, <1>6
<1> DEFINE f == Frame(bytes)
<1>8. /\ f \in Seq(Item) /\ Len(f) = Len(Head7) + Len(bytes)
      /\ \A q \in 1..Len(Head7) : f[q] = Head7[q]
      /\ \A q \in 1..Len(bytes) : f[Len(Head7) + q] = bytes[q]
  <2>1. Head7 \in Seq(Item) /\ bytes \in Seq(Item)
    BY <1>1, <1>6
  <2> HIDE DEF f
  <2>2. f = Head7 \o bytes
    BY <1>5 DEF f
  <2> QED BY <2>1, <2>2, Concat
<1> HIDE DEF f
<1>9. /\ f \in Seq(Item) /\ Len(f) = 7 + RowLen
      /\ \A q \in 1..7 : f[q] = Head7[q]
      /\ \A q \in 1..RowLen : f[7 + q] = bytes[q]
  BY <1>1, <1>6, <1>8
<1>10. /\ \A q \in 1..5 : f[q] = START[q]
       /\ f[6] = Low /\ f[7] = High
  BY <1>6, <1>7, <1>9
<1>11. \A q \in 1..RowLen : f[q + 7] = bytes[q]
  BY <1>1, <1>9
<1>12. ASSUME NEW q \in 1..RowLen + 7 PROVE f[q] \in 0..255
  <2>1. CASE q <= 5
    <3>1. q \in 1..5
      BY <1>1, <2>1
    <3> QED BY <1>2, <1>10, <3>1
  <2>2. CASE q = 6 \/ q = 7
    <3> QED BY <1>10, <2>2, SizeBytes
  <2>3. CASE q > 7
    <3>1. PICK j \in 1..RowLen : q = 7 + j
      <4>1. q - 7 \in 1..RowLen /\ q = 7 + (q - 7)
        BY <1>1, <2>3
      <4> QED BY <4>1
    <3> QED BY <1>1, <1>9, <3>1
  <2> QED BY <1>1, <2>1, <2>2, <2>3
<1>13. Len(f) = RowLen + 7
  BY <1>1, <1>9
<1> QED BY <1>9, <1>10, <1>11, <1>12, <1>13 DEF f

\* A part of a sequence.
LEMMA Part ==
    ASSUME NEW S, NEW s \in Seq(S), NEW m \in Nat \ {0}, NEW n \in Nat, n <= Len(s)
    PROVE  /\ SubSeq(s, m, n) \in Seq(S)
           /\ Len(SubSeq(s, m, n)) = IF m <= n THEN n - m + 1 ELSE 0
           /\ \A i \in 1..n - m + 1 : SubSeq(s, m, n)[i] = s[m + i - 1]
<1>1. \A i \in m..n : s[i] \in S
  <2> SUFFICES ASSUME NEW i \in m..n PROVE s[i] \in S
    OBVIOUS
  <2>1. i \in 1..Len(s)
    BY LenProperties
  <2> QED BY <2>1, ElementOfSeq
<1>2. m \in Int /\ n \in Int
  OBVIOUS
<1> QED BY <1>1, <1>2, SubSeqProperties

\* A sequence without its k-th item.
LEMMA Without ==
    ASSUME NEW S, NEW s \in Seq(S), NEW k \in 1..Len(s)
    PROVE  /\ RemoveAt(s, k) \in Seq(S) /\ Len(RemoveAt(s, k)) = Len(s) - 1
           /\ \A j \in 1..k - 1 : RemoveAt(s, k)[j] = s[j]
           /\ \A j \in k..Len(s) - 1 : RemoveAt(s, k)[j] = s[j + 1]
<1> DEFINE len == Len(s)
           a == SubSeq(s, 1, k - 1)
           b == SubSeq(s, k + 1, len)
<1>1. len \in Nat
  BY LenProperties
<1>2. a \in Seq(S) /\ Len(a) = k - 1 /\ \A j \in 1..k - 1 : a[j] = s[j]
  <2>1. k - 1 \in Nat /\ k - 1 <= Len(s) /\ 1 \in Nat \ {0}
    BY <1>1
  <2>2. /\ a \in Seq(S) /\ Len(a) = IF 1 <= k - 1 THEN k - 1 - 1 + 1 ELSE 0
        /\ \A j \in 1..k - 1 - 1 + 1 : a[j] = s[1 + j - 1]
    BY <2>1, Part
  <2> HIDE DEF a
  <2> QED BY <1>1, <2>2
<1>3. b \in Seq(S) /\ Len(b) = len - k /\ \A j \in 1..len - k : b[j] = s[k + j]
  <2>1. k + 1 \in Nat \ {0} /\ len <= Len(s)
    BY <1>1
  <2>2. /\ b \in Seq(S) /\ Len(b) = IF k + 1 <= len THEN len - (k + 1) + 1 ELSE 0
        /\ \A j \in 1..len - (k + 1) + 1 : b[j] = s[k + 1 + j - 1]
    BY <1>1, <2>1, Part
  <2> HIDE DEF b, len
  <2>3. len \in Nat /\ k \in 1..len
    BY <1>1 DEF len
  <2> QED BY <2>2, <2>3
<1>4. RemoveAt(s, k) = a \o b
  BY DEF RemoveAt
<1> DEFINE c == RemoveAt(s, k)
<1> HIDE DEF a, b, c
<1>5. /\ a \o b \in Seq(S) /\ Len(a \o b) = Len(a) + Len(b)
      /\ \A i \in 1..Len(a) : (a \o b)[i] = a[i]
      /\ \A i \in 1..Len(b) : (a \o b)[Len(a) + i] = b[i]
  <2>1. a \in Seq(S) /\ b \in Seq(S)
    BY <1>2, <1>3
  <2> QED BY <2>1, Concat
<1>6. /\ c \in Seq(S) /\ Len(c) = Len(a) + Len(b)
      /\ \A i \in 1..Len(a) : c[i] = a[i]
      /\ \A i \in 1..Len(b) : c[Len(a) + i] = b[i]
  BY <1>4, <1>5 DEF c
<1> HIDE DEF len
<1>7. len \in Nat /\ k \in 1..len
  BY <1>1 DEF len
<1>8. Len(c) = len - 1
  BY <1>2, <1>3, <1>6, <1>7
<1>9. \A j \in 1..k - 1 : c[j] = s[j]
  BY <1>2, <1>6, <1>7
<1>10. ASSUME NEW j \in k..len - 1 PROVE c[j] = s[j + 1]
  <2>1. PICK i \in 1..len - k : j = k - 1 + i /\ j + 1 = k + i
    <3>1. /\ j - k + 1 \in 1..len - k /\ j = k - 1 + (j - k + 1)
          /\ j + 1 = k + (j - k + 1)
      BY <1>7
    <3> QED BY <3>1
  <2>2. c[k - 1 + i] = b[i]
    BY <1>2, <1>3, <1>6, <2>1
  <2>3. b[i] = s[k + i]
    BY <1>3, <2>1
  <2> QED BY <2>1, <2>2, <2>3
<1> QED BY <1>6, <1>8, <1>9, <1>10 DEF c, len

\* One sequence begins with another.
LEMMA PrefixIs ==
    ASSUME NEW S, NEW s \in Seq(S), NEW T, NEW t \in Seq(T)
    PROVE  IsPrefix(s, t) <=>
              /\ Len(s) <= Len(t)
              /\ \A i \in 1..Len(s) : s[i] = t[i]
<1> DEFINE m == Len(s)
           a == SubSeq(s, 1, m)
           b == SubSeq(t, 1, m)
<1>1. m \in Nat /\ Len(t) \in Nat
  BY LenProperties
<1>2. a = s
  BY SubSeqFull
<1>3. IsPrefix(s, t) <=> m <= Len(t) /\ a = b
  BY DEF IsPrefix
<1>4. ASSUME m <= Len(t)
      PROVE  b \in Seq(T) /\ Len(b) = m /\ \A i \in 1..m : b[i] = t[i]
  <2>1. 1 \in Nat \ {0}
    OBVIOUS
  <2>2. /\ b \in Seq(T) /\ Len(b) = IF 1 <= m THEN m - 1 + 1 ELSE 0
        /\ \A i \in 1..m - 1 + 1 : b[i] = t[1 + i - 1]
    BY <1>1, <1>4, <2>1, Part
  <2> HIDE DEF b, m
  <2> QED BY <1>1, <2>2
<1> HIDE DEF a, b
<1>5. ASSUME m <= Len(t), \A i \in 1..m : s[i] = t[i] PROVE s = b
  <2>1. b \in Seq(T) /\ Len(b) = m /\ \A i \in 1..m : b[i] = t[i]
    BY <1>4, <1>5
  <2>2. \A i \in 1..m : s[i] = b[i]
    BY <1>5, <2>1
  <2>3. \A i \in 1..m : s[i] \in T
    BY <1>5, <2>2, <2>1, ElementOfSeq
  <2>4. s \in Seq(S \cup T) /\ b \in Seq(S \cup T)
    BY <2>1, SeqMonotonic
  <2> QED BY <2>1, <2>2, <2>4, SeqEqual
<1>6. ASSUME m <= Len(t), s = b PROVE \A i \in 1..m : s[i] = t[i]
  BY <1>4, <1>6
<1> QED BY <1>2, <1>3, <1>5, <1>6

\* One sequence ends in another.
LEMMA ReverseIs ==
    ASSUME NEW S, NEW s \in Seq(S)
    PROVE  /\ Reverse(s) \in Seq(S) /\ Len(Reverse(s)) = Len(s)
           /\ \A i \in 1..Len(s) : Reverse(s)[i] = s[Len(s) - i + 1]
<1> DEFINE m == Len(s)
           r == Reverse(s)
<1>1. m \in Nat
  BY LenProperties
<1>2. r = [i \in 1..m |-> s[(m - i) + 1]]
  BY DEF Reverse
<1>3. \A i \in 1..m : s[(m - i) + 1] \in S
  <2> SUFFICES ASSUME NEW i \in 1..m PROVE s[(m - i) + 1] \in S
    OBVIOUS
  <2>1. (m - i) + 1 \in 1..m
    BY <1>1
  <2> QED BY <2>1, ElementOfSeq
<1> HIDE DEF m, r
<1>4. r \in [1..m -> S]
  BY <1>2, <1>3
<1>5. r \in Seq(S)
  BY <1>1, <1>4, SeqDef
<1>6. Len(r) = m
  BY <1>1, <1>4, <1>5, LenProperties
<1>7. \A i \in 1..m : r[i] = s[m - i + 1]
  BY <1>2
<1> QED BY <1>5, <1>6, <1>7 DEF m, r

LEMMA SuffixIs ==
    ASSUME NEW S, NEW s \in Seq(S), NEW T, NEW t \in Seq(T)
    PROVE  IsSuffix(s, t) <=>
              /\ Len(s) <= Len(t)
              /\ \A i \in 1..Len(s) : s[i] = t[Len(t) - Len(s) + i]
<1> DEFINE m == Len(s)
           n == Len(t)
           x == Reverse(s)
           y == Reverse(t)
<1>1. /\ x \in Seq(S) /\ Len(x) = m /\ y \in Seq(T) /\ Len(y) = n
      /\ m \in Nat /\ n \in Nat
  BY ReverseIs, LenProperties
<1>2. \A i \in 1..m : x[i] = s[m - i + 1]
  BY ReverseIs
<1>3. \A i \in 1..n : y[i] = t[n - i + 1]
  BY ReverseIs
<1>4. IsSuffix(s, t) <=> IsPrefix(x, y)
  BY DEF IsSuffix
<1> HIDE DEF m, n, x, y
<1>5. IsSuffix(s, t) <=> m <= n /\ \A i \in 1..m : x[i] = y[i]
  <2>1. x \in Seq(S) /\ y \in Seq(T)
    BY <1>1
  <2>2. IsPrefix(x, y) <=> Len(x) <= Len(y) /\ \A i \in 1..Len(x) : x[i] = y[i]
    BY <2>1, PrefixIs
  <2> QED BY <1>1, <1>4, <2>2
<1>6. ASSUME m <= n, NEW i \in 1..m
      PROVE  x[m - i + 1] = s[i] /\ y[m - i + 1] = t[n - m + i]
  <2>1. PICK k \in 1..m : k = m - i + 1 /\ m - k + 1 = i /\ n - k + 1 = n - m + i
    <3>1. LET k == m - i + 1 IN
             k \in 1..m /\ m - k + 1 = i /\ n - k + 1 = n - m + i
      BY <1>1
    <3> QED BY <3>1
  <2>2. k \in 1..n
    BY <1>1, <1>6, <2>1
  <2>3. x[k] = s[m - k + 1] /\ y[k] = t[n - k + 1]
    BY <1>2, <1>3, <2>2
  <2> QED BY <2>1, <2>3
<1>7. ASSUME m <= n, \A i \in 1..m : x[i] = y[i], NEW i \in 1..m
      PROVE  s[i] = t[n - m + i]
  <2>1. m - i + 1 \in 1..m
    BY <1>1
  <2> QED BY <1>6, <1>7, <2>1
<1>8. ASSUME m <= n, \A i \in 1..m : s[i] = t[n - m + i], NEW j \in 1..m
      PROVE  x[j] = y[j]
  <2>1. PICK i \in 1..m : j = m - i + 1
    <3>1. m - j + 1 \in 1..m /\ j = m - (m - j + 1) + 1
      BY <1>1
    <3> QED BY <3>1
  <2> QED BY <1>6, <1>8, <2>1
<1>9. IsSuffix(s, t) <=> m <= n /\ \A i \in 1..m : s[i] = t[n - m + i]
  BY <1>5, <1>7, <1>8
<1> QED BY <1>9 DEF m, n

\* An item is taken from the line.
LEMMA TakeIs ==
    ASSUME TypeOK, NEW S, Take(S)
    PROVE  /\ toHost # << >> /\ Len(toHost) \in Nat \ {0}
           /\ Head(toHost) = toHost[1] /\ toHost[1] \in S /\ toHost[1] \in Item
           /\ toHost' \in Seq(Item) /\ Len(toHost') = Len(toHost) - 1
           /\ \A j \in 1..Len(toHost) - 1 : toHost'[j] = toHost[j + 1]
<1>1. toHost \in Seq(Item) /\ toHost # << >> /\ toHost' = Tail(toHost)
      /\ Head(toHost) \in S
  BY DEF TypeOK, Take
<1>2. Len(toHost) \in Nat \ {0}
  BY <1>1, EmptySeq
<1>3. Head(toHost) = toHost[1]
  BY <1>1
<1> QED BY <1>1, <1>2, <1>3, HeadTailProperties

\* A line or a frame is put on it.
LEMMA SayIs ==
    ASSUME TypeOK, NEW from, NEW line \in Text, NEW to, Say(from, line, to)
    PROVE  /\ robot = from /\ robot' = to
           /\ toHost' \in Seq(Item) /\ Len(toHost) \in Nat
           /\ Len(toHost') = Len(toHost) + 1
           /\ \A j \in 1..Len(toHost) : toHost'[j] = toHost[j]
           /\ toHost'[Len(toHost) + 1] = line
           /\ UNCHANGED <<toRobot, host, reader, picture, history>>
<1>1. toHost \in Seq(Item) /\ line \in Item
  BY DEF TypeOK, Item
<1> QED BY <1>1, AppendProperties, LenProperties DEF Say

LEMMA SendRowIs ==
    ASSUME TypeOK, NEW bytes \in RowBytes, SendRow(bytes)
    PROVE  /\ toHost' \in Seq(Item) /\ Len(toHost) \in Nat
           /\ Len(toHost') = Len(toHost) + RowLen + 7
           /\ \A j \in 1..Len(toHost) : toHost'[j] = toHost[j]
           /\ \A q \in 1..RowLen + 7 : toHost'[Len(toHost) + q] = Frame(bytes)[q]
           /\ picture' \in Seq(RowBytes) /\ Len(picture) \in Nat
           /\ Len(picture') = Len(picture) + 1 /\ Len(picture) < ROWS
           /\ \A r \in 1..Len(picture) : picture'[r] = picture[r]
           /\ picture'[Len(picture) + 1] = bytes
<1>1. /\ toHost \in Seq(Item) /\ picture \in Seq(RowBytes)
      /\ Frame(bytes) \in Seq(Item) /\ Len(Frame(bytes)) = RowLen + 7
  <2>1. toHost \in Seq(Item) /\ picture \in Seq(RowBytes)
    BY DEF TypeOK
  <2>2. Frame(bytes) \in Seq(Item) /\ Len(Frame(bytes)) = RowLen + 7
    BY FrameIs
  <2> QED BY <2>1, <2>2
<1>2. toHost' = toHost \o Frame(bytes) /\ picture' = Append(picture, bytes)
      /\ Len(picture) < ROWS
  BY DEF SendRow, RowsLeft
<1>3. Len(toHost) \in Nat /\ Len(picture) \in Nat /\ RowLen \in Nat
  BY <1>1, LenProperties, Rows
<1> DEFINE f == Frame(bytes)
           len == Len(toHost)
           add == RowLen + 7
<1> HIDE DEF f
<1>4. len \in Nat /\ add \in Nat /\ f \in Seq(Item) /\ Len(f) = add
  BY <1>1, <1>3 DEF f
<1> HIDE DEF add
<1>5. /\ toHost \o f \in Seq(Item) /\ Len(toHost \o f) = Len(toHost) + Len(f)
      /\ \A j \in 1..Len(toHost) : (toHost \o f)[j] = toHost[j]
      /\ \A q \in 1..Len(f) : (toHost \o f)[Len(toHost) + q] = f[q]
  <2>1. toHost \in Seq(Item) /\ f \in Seq(Item)
    BY <1>1, <1>4
  <2> QED BY <2>1, Concat
<1>6. /\ toHost' \in Seq(Item) /\ Len(toHost') = len + add
      /\ \A j \in 1..len : toHost'[j] = toHost[j]
      /\ \A q \in 1..add : toHost'[len + q] = f[q]
  BY <1>2, <1>4, <1>5 DEF f
<1>8. Len(toHost') = len + RowLen + 7
  BY <1>3, <1>4, <1>6 DEF add
<1>7. /\ picture' \in Seq(RowBytes) /\ Len(picture') = Len(picture) + 1
      /\ \A r \in 1..Len(picture) : picture'[r] = picture[r]
      /\ picture'[Len(picture) + 1] = bytes
  BY <1>1, <1>2, AppendProperties
<1> QED BY <1>2, <1>3, <1>4, <1>6, <1>7, <1>8 DEF f, add

\* A byte of the picture is lost.
LEMMA LoseByteIs ==
    ASSUME TypeOK, NEW k \in DOMAIN toHost, LoseByte(k)
    PROVE  /\ k \in 1..Len(toHost) /\ Len(toHost) \in Nat
           /\ toHost[k] \in 0..255 /\ toHost[k] \notin Text
           /\ toHost' \in Seq(Item) /\ Len(toHost') = Len(toHost) - 1
           /\ \A j \in 1..k - 1 : toHost'[j] = toHost[j]
           /\ \A j \in k..Len(toHost) - 1 : toHost'[j] = toHost[j + 1]
           /\ lost' \in 1..MaxLost
           /\ UNCHANGED <<robot, toRobot, host, reader, picture, asks, typed>>
<1>1. toHost \in Seq(Item) /\ lost \in 0..MaxLost
  BY DEF TypeOK
<1>2. k \in 1..Len(toHost) /\ Len(toHost) \in Nat
  BY <1>1, LenProperties
<1>3. toHost[k] \in 0..255 /\ toHost[k] \notin Text
  <2>1. toHost[k] \notin Text
    BY DEF LoseByte
  <2>2. toHost[k] \in Item
    BY <1>1, <1>2, ElementOfSeq
  <2> QED BY <2>1, <2>2 DEF Item
<1>4. toHost' = RemoveAt(toHost, k)
  BY DEF LoseByte
<1>5. /\ RemoveAt(toHost, k) \in Seq(Item)
      /\ Len(RemoveAt(toHost, k)) = Len(toHost) - 1
      /\ \A j \in 1..k - 1 : RemoveAt(toHost, k)[j] = toHost[j]
      /\ \A j \in k..Len(toHost) - 1 : RemoveAt(toHost, k)[j] = toHost[j + 1]
  BY <1>1, <1>2, Without
<1>6. lost' \in 1..MaxLost
  BY <1>1, Rows DEF LoseByte
<1> QED BY <1>2, <1>3, <1>4, <1>5, <1>6 DEF LoseByte

-----------------------------------------------------------------------------
(***************************************************************************)
(* The inductive invariant.                                                *)
(***************************************************************************)
Prompting == {"readline", "ask", "input"}
Receiving == {"sync", "size", "data"}

\* What the PC's variables are in each of its loops.
HostInv ==
    /\ host \in Prompting => read = << >> /\ data = << >>
    /\ host # "sync" => state = 0
    /\ host = "size" => Len(read) <= 2
    /\ host \in Receiving => Len(data) < height

\* What was read ends in the first k letters of START.
EndsIn(bytes, k) ==
    /\ k <= Len(bytes)
    /\ \A i \in 1..k : bytes[Len(bytes) - k + i] = START[i]

\* No beginning of START ends in a shorter one: there is but one such k.
SyncInv ==
    host = "sync" => \A k \in 1..5 : EndsIn(read, k) <=> k = state

\* The bytes of n rows, on the line.
Off(n) == n * (RowLen + 7)

\* The byte at q of the r-th row's frame is item D + Off(r - 1) + q, until it is
\* taken.
RowsAt(D) ==
    /\ D + Off(Len(picture)) <= Len(toHost)
    /\ robot = "rows" => D + Off(Len(picture)) = Len(toHost)
    /\ \A r \in 1..Len(picture), q \in 1..RowLen + 7 :
          1 <= D + Off(r - 1) + q =>
              /\ D + Off(r - 1) + q <= Len(toHost)
              /\ toHost[D + Off(r - 1) + q] = Frame(picture[r])[q]

\* What the robot printed and read of a prompt, and what the PC did.
RobotSteps == [r \in {"input", "prompt", "getchar", "game"} |->
                  CASE r = "prompt" -> 1 [] r = "getchar" -> 2 [] OTHER -> 0]
HostSteps == [h \in Prompting |->
                 CASE h = "ask" -> 1 [] h = "input" -> 2 [] OTHER -> 0]

\* Before the game, every two lines printed bring a line typed, and every
\* character of it two more.
BeforeGame ==
    /\ robot \in {"input", "prompt", "getchar", "game"} /\ host \in Prompting
    /\ picture = << >>
    /\ \A j \in 1..Len(toHost) : toHost[j] \in {INPUT, PROMPT}
    /\ Len(toHost) + 2 * asks + HostSteps[host] =
          2 * (typed - Len(toRobot)) + RobotSteps[robot]

\* TAKING_PHOTO is item k, or will be; what the game printed is before it, and
\* the prompts before that are read in step.
PhotoAt(k) ==
    /\ IF robot = "photo" THEN k = Len(toHost) + 1 /\ picture = << >>
       ELSE k <= Len(toHost) /\ toHost[k] = TAKING_PHOTO
    /\ k > 1 => toHost[k - 1] = OTHER_TEXT
    /\ \A j \in 1..k - 2 : toHost[j] \in {INPUT, PROMPT}
    /\ k = 1 => host = "readline"
    /\ k > 1 => (k % 2 = 0 <=> host # "ask")
    /\ robot # "photo" /\ lost = 0 => RowsAt(k)

Sent == robot \notin {"photo", "rows"} => Len(picture) = ROWS

BeforePhoto ==
    /\ host \in Prompting /\ robot # "game" /\ Sent
    /\ \E k \in 1..Len(toHost) + 1 : PhotoAt(k)

AfterPhoto ==
    /\ host \notin Prompting /\ robot \notin {"game", "photo"} /\ Sent

LineInv == BeforeGame \/ BeforePhoto \/ AfterPhoto

\* The bytes the PC took of the row it is at, of START, its size and its bytes.
Taken ==
    CASE host = "sync" -> state
      [] host = "size" -> 5 + Len(read)
      [] OTHER -> 7 + Len(read)

\* The rows the PC has are the first of the picture.
RowsRight ==
    /\ Len(data) <= Len(picture)
    /\ \A r \in 1..Len(data) : data[r] = picture[r]

\* What it has of the next row.
RowSoFar ==
    /\ host = "size" =>
          /\ Len(read) >= 1 => read[1] = Low
          /\ Len(read) >= 2 => read[2] = High
    /\ host = "data" =>
          /\ size = RowLen /\ Len(read) <= RowLen
          /\ \A i \in 1..Len(read) : read[i] = picture[Len(data) + 1][i]

\* Where the rest of the picture is on the line.
RestOnLine == host \in Receiving => RowsAt(-(Off(Len(data)) + Taken))

ReceiveInv ==
    lost = 0 => host # "failed" /\ RowsRight /\ RowSoFar /\ RestOnLine

TypeInv == TypeOK /\ HostInv

-----------------------------------------------------------------------------
(***************************************************************************)
(* The types.                                                              *)
(***************************************************************************)
LEMMA Short16 ==
    ASSUME NEW b \in Seq(Item), Len(b) = 2
    PROVE  /\ Short(b) \in Int
           /\ -SHRT_MAX - 1 <= Short(b) /\ Short(b) <= SHRT_MAX
           /\ b[1] = Low /\ b[2] = High => Short(b) = RowLen
<1>1. b[1] \in Item /\ b[2] \in Item
  <2>1. 1 \in 1..Len(b) /\ 2 \in 1..Len(b)
    BY LenProperties
  <2> QED BY <2>1, ElementOfSeq
<1>2. \A i \in Item : Byte(i) \in 0..255
  BY DEF Byte, Item
<1>3. \A i \in 0..255 : Byte(i) = i
  BY DEF Byte, Text, INPUT, PROMPT, TAKING_PHOTO, OTHER_TEXT
<1> DEFINE x == Byte(b[1])
           y == Byte(b[2])
<1>4. x \in 0..255 /\ y \in 0..255
  BY <1>1, <1>2
<1> DEFINE n == x + 256 * y
<1>5. Short(b) = IF n < 32768 THEN n ELSE n - 65536
  BY DEF Short
<1> HIDE DEF x, y
<1>7. n \in Nat /\ n < 65536
  BY <1>4
<1>8. /\ Short(b) \in Int
      /\ -SHRT_MAX - 1 <= Short(b) /\ Short(b) <= SHRT_MAX
  <2> HIDE DEF n
  <2>1. CASE n < 32768
    <3>1. Short(b) = n
      BY <1>5, <2>1
    <3> QED BY <1>7, <2>1, <3>1 DEF SHRT_MAX
  <2>2. CASE ~(n < 32768)
    <3>1. Short(b) = n - 65536
      BY <1>5, <2>2
    <3> QED BY <1>7, <2>2, <3>1 DEF SHRT_MAX
  <2> QED BY <2>1, <2>2
<1>6. ASSUME b[1] = Low, b[2] = High PROVE Short(b) = RowLen
  <2>1. b[1] \in 0..255 /\ b[2] \in 0..255
    BY <1>6, SizeBytes
  <2>2. x = Low /\ y = High
    BY <1>3, <1>6, <2>1 DEF x, y
  <2>3. n = RowLen
    BY <2>2, SizeBytes
  <2> HIDE DEF n
  <2>4. n < 32768
    BY <2>3, Rows
  <2> QED BY <1>5, <2>3, <2>4
<1> QED BY <1>6, <1>8

\* Where the PC goes on when a row is complete.
LEMMA StoreRowHost ==
    ASSUME StoreRow
    PROVE  /\ host' \in {"sync", "mailed", "failed"}
           /\ host' = "sync" => Len(data') < height
<1>1. CASE data' = data /\ host' = "failed"
  BY <1>1
<1>2. CASE host' \in AfterRow(data')
  <2>1. CASE Len(data') < height
    <3>1. AfterRow(data') = {"sync"}
      BY <2>1 DEF AfterRow
    <3> QED BY <1>2, <2>1, <3>1
  <2>2. CASE ~(Len(data') < height)
    <3>1. AfterRow(data') \subseteq {"mailed", "failed"}
      BY <2>2 DEF AfterRow
    <3> QED BY <1>2, <3>1
  <2> QED BY <2>1, <2>2
<1> QED BY <1>1, <1>2 DEF StoreRow

LEMMA SayTypes ==
    ASSUME TypeInv, NEW from, NEW line \in Text,
           NEW to \in {"input", "prompt", "getchar", "game", "photo", "rows"},
           Say(from, line, to)
    PROVE  TypeInv'
<1>1. TypeOK
  BY DEF TypeInv
<1>2. robot' = to /\ toHost' \in Seq(Item)
      /\ UNCHANGED <<toRobot, host, reader, picture, history>>
  BY <1>1, SayIs
<1>a. /\ toRobot' = toRobot /\ host' = host /\ state' = state /\ read' = read
      /\ size' = size /\ data' = data /\ picture' = picture /\ asks' = asks
      /\ typed' = typed /\ lost' = lost
  BY <1>2 DEF reader, history
<1>b. robot' \in {"input", "prompt", "getchar", "game", "photo", "rows", "halted"}
  BY <1>2
<1>c. toHost' \in Seq(Item)
  BY <1>2
<1>3. TypeOK'
  BY <1>1, <1>a, <1>b, <1>c, Zenon DEF TypeOK
<1>4. HostInv'
  BY <1>2 DEF TypeInv, HostInv, reader
<1> QED BY <1>3, <1>4 DEF TypeInv

LEMMA ReceivedIs ==
    ASSUME TypeOK, NEW line \in Typed
    PROVE  /\ Received(line) \in Seq({"w", "x"})
           /\ Len(Received(line)) \in Len(toRobot)..SERIAL_BUFFERS_SIZE
<1> DEFINE S == {"w", "x"}
           all == toRobot \o line
           n == SERIAL_BUFFERS_SIZE
<1>1. toRobot \in Seq(S) /\ Len(toRobot) <= n
  BY DEF TypeOK
<1>2. line \in Seq(S) /\ n \in Nat \ {0}
  BY ConsoleAssumption
<1> HIDE DEF S
<1>3. all \in Seq(S) /\ Len(all) = Len(toRobot) + Len(line)
  <2> HIDE DEF n
  <2> QED BY <1>1, <1>2, Concat
<1>4. Len(toRobot) \in Nat /\ Len(line) \in Nat
  BY <1>1, <1>2, LenProperties
<1> HIDE DEF all, n
<1>5. CASE Len(all) <= n
  <2>1. Received(line) = all
    BY <1>5 DEF Received, all, n
  <2> QED BY <1>1, <1>2, <1>3, <1>4, <1>5, <2>1 DEF S, n
<1>6. CASE ~(Len(all) <= n)
  <2>1. Received(line) = SubSeq(all, 1, n)
    BY <1>6 DEF Received, all, n
  <2>2. n \in Nat /\ n <= Len(all) /\ 1 \in Nat \ {0} /\ 1 <= n
    BY <1>2, <1>3, <1>4, <1>6
  <2>3. /\ SubSeq(all, 1, n) \in Seq(S)
        /\ Len(SubSeq(all, 1, n)) = IF 1 <= n THEN n - 1 + 1 ELSE 0
    BY <1>3, <2>2, Part
  <2>4. Len(SubSeq(all, 1, n)) = n
    BY <2>2, <2>3
  <2> QED BY <1>1, <1>4, <2>1, <2>2, <2>3, <2>4 DEF S, n
<1> QED BY <1>5, <1>6

LEMMA TypesInit == Init => TypeInv
<1> SUFFICES ASSUME Init PROVE TypeInv
  OBVIOUS
<1>1. TypeOK
  <2>1. 0 \in 0..MaxAsks /\ 0 \in 0..MaxLost /\ 0 <= height /\ 0 <= ROWS
        /\ 0 <= SERIAL_BUFFERS_SIZE
    BY Rows
  <2>a. -SHRT_MAX - 1 <= 0 /\ 0 <= SHRT_MAX /\ 0 \in 0..5
    BY DEF SHRT_MAX
  <2>2. /\ << >> \in Seq(Item) /\ << >> \in Seq({"w", "x"}) /\ << >> \in Seq(Seq(Item))
        /\ << >> \in Seq(RowBytes) /\ Len(<< >>) = 0
    BY EmptySeq
  <2>b. /\ robot = "input" /\ host = "readline" /\ toHost = << >> /\ toRobot = << >>
        /\ state = 0 /\ read = << >> /\ size = 0 /\ data = << >> /\ picture = << >>
        /\ asks = 0 /\ typed = 0 /\ lost = 0
    BY DEF Init
  <2> QED BY <2>1, <2>2, <2>a, <2>b DEF TypeOK
<1>2. HostInv
  BY EmptySeq, Rows DEF Init, HostInv, Prompting, Receiving
<1> QED BY <1>1, <1>2 DEF TypeInv

LEMMA TypesStep == TypeInv /\ [Next]_vars => TypeInv'
<1> SUFFICES ASSUME TypeInv, [Next]_vars PROVE TypeInv'
  OBVIOUS
<1> USE DEF TypeInv
<1>0. TypeOK /\ HostInv
  OBVIOUS
<1>a. /\ toHost \in Seq(Item) /\ toRobot \in Seq({"w", "x"})
      /\ Len(toRobot) <= SERIAL_BUFFERS_SIZE
  BY <1>0, Zenon DEF TypeOK
<1>b. state \in 0..5 /\ read \in Seq(Item)
  BY <1>0, Zenon DEF TypeOK
<1>c. data \in Seq(Seq(Item)) /\ Len(data) <= height
  BY <1>0, Zenon DEF TypeOK
<1>d. asks \in 0..MaxAsks /\ typed \in Nat
  BY <1>0, Zenon DEF TypeOK
<1>1. CASE SayInput
  BY <1>1, SayTypes DEF SayInput, Text
<1>2. CASE SayPrompt
  BY <1>2, SayTypes DEF SayPrompt, Text
<1>3. CASE GetChar
  <2>1. /\ toRobot' \in Seq({"w", "x"}) /\ Len(toRobot') = Len(toRobot) - 1
        /\ Len(toRobot) \in Nat
    <3>1. toRobot # << >> /\ toRobot' = Tail(toRobot)
      BY <1>3 DEF GetChar, Rest
    <3> QED BY <1>a, <3>1, HeadTailProperties, LenProperties
  <2>2. robot' \in {"input", "game", "halted"}
        /\ UNCHANGED <<toHost, host, reader, picture, history>>
    BY <1>3 DEF GetChar
  <2>3. Len(toRobot') <= SERIAL_BUFFERS_SIZE
    BY <1>a, <2>1, Rows
  <2>a. /\ toHost' = toHost /\ host' = host /\ state' = state /\ read' = read
        /\ size' = size /\ data' = data /\ picture' = picture /\ asks' = asks
        /\ typed' = typed /\ lost' = lost
    BY <2>2 DEF reader, history
  <2>b. robot' \in {"input", "prompt", "getchar", "game", "photo", "rows", "halted"}
    BY <2>2
  <2>4. TypeOK'
    BY <1>0, <2>1, <2>3, <2>a, <2>b, Zenon DEF TypeOK
  <2> QED BY <1>0, <2>2, <2>4 DEF HostInv, reader
<1>4. CASE PlayGame
  BY <1>4, SayTypes DEF PlayGame, Text
<1>5. CASE SayPhoto
  BY <1>5, SayTypes DEF SayPhoto, Text
<1>6. ASSUME NEW bytes \in RowBytes, SendRow(bytes) PROVE TypeInv'
  <2>1. /\ toHost' \in Seq(Item) /\ picture' \in Seq(RowBytes)
        /\ Len(picture) \in Nat /\ Len(picture') = Len(picture) + 1
        /\ Len(picture) < ROWS
    BY <1>0, <1>6, SendRowIs
  <2>2. UNCHANGED <<robot, toRobot, host, reader, history>>
    BY <1>6 DEF SendRow
  <2>3. Len(picture') <= ROWS
    BY <2>1, Rows
  <2>a. /\ robot' = robot /\ host' = host /\ state' = state /\ read' = read
        /\ size' = size /\ data' = data /\ toRobot' = toRobot /\ asks' = asks
        /\ typed' = typed /\ lost' = lost
    BY <2>2 DEF reader, history
  <2>4. TypeOK'
    BY <1>0, <2>1, <2>3, <2>a, Zenon DEF TypeOK
  <2> QED BY <1>0, <2>2, <2>4 DEF HostInv, reader
<1>7. CASE SayTaken
  BY <1>7, SayTypes DEF SayTaken, Text
<1>8. CASE ReadLine
  <2>1. toHost' \in Seq(Item) /\ host' \in {"ask", "sync", "readline"}
        /\ host = "readline"
    BY <1>0, <1>8, TakeIs DEF ReadLine
  <2>2. UNCHANGED <<robot, toRobot, reader, picture, history>>
    BY <1>8 DEF ReadLine
  <2>a. /\ robot' = robot /\ state' = state /\ read' = read
        /\ size' = size /\ data' = data /\ toRobot' = toRobot /\ asks' = asks
        /\ typed' = typed /\ lost' = lost /\ picture' = picture
    BY <2>2 DEF reader, history
  <2>b. host' \in {"readline", "ask", "input", "sync", "size", "data", "mailed",
                   "failed"}
    BY <2>1
  <2>3. TypeOK'
    BY <1>0, <2>1, <2>a, <2>b, Zenon DEF TypeOK
  <2>4. data = << >> /\ read = << >> /\ state = 0
    BY <1>0, <2>1 DEF HostInv, Prompting
  <2>5. data' = << >> /\ read' = << >> /\ state' = 0
    BY <2>2, <2>4 DEF reader
  <2>6. HostInv'
    BY <2>1, <2>5, EmptySeq, Rows DEF HostInv, Prompting, Receiving
  <2> QED BY <2>3, <2>6
<1>9. CASE Ask
  <2>1. toHost' \in Seq(Item) /\ host' = "input" /\ host = "ask"
    BY <1>0, <1>9, TakeIs DEF Ask
  <2>2. UNCHANGED <<robot, toRobot, reader, picture, history>>
    BY <1>9 DEF Ask
  <2>a. /\ robot' = robot /\ state' = state /\ read' = read
        /\ size' = size /\ data' = data /\ toRobot' = toRobot /\ asks' = asks
        /\ typed' = typed /\ lost' = lost /\ picture' = picture
    BY <2>2 DEF reader, history
  <2>b. host' \in {"readline", "ask", "input", "sync", "size", "data", "mailed",
                   "failed"}
    BY <2>1
  <2>3. TypeOK'
    BY <1>0, <2>1, <2>a, <2>b, Zenon DEF TypeOK
  <2>4. HostInv'
    BY <1>0, <2>1, <2>2 DEF HostInv, Prompting, Receiving, reader
  <2> QED BY <2>3, <2>4
<1>10. ASSUME NEW line \in Typed, Answer(line) PROVE TypeInv'
  <2>1. /\ toRobot' \in Seq({"w", "x"})
        /\ Len(toRobot') \in Len(toRobot)..SERIAL_BUFFERS_SIZE
    BY <1>0, <1>10, ReceivedIs DEF Answer
  <2>2. /\ host = "input" /\ host' = "readline" /\ asks < MaxAsks
        /\ asks' = asks + 1 /\ typed' = typed + Len(toRobot') - Len(toRobot)
        /\ UNCHANGED <<robot, toHost, reader, picture, lost>>
    BY <1>10 DEF Answer
  <2>3. Len(toRobot) \in Nat
    BY <1>a, LenProperties
  <2>4. asks' \in 0..MaxAsks /\ typed' \in Nat /\ Len(toRobot') <= SERIAL_BUFFERS_SIZE
    BY <1>a, <1>d, <2>1, <2>2, <2>3, Rows
  <2>a. /\ robot' = robot /\ state' = state /\ read' = read /\ toHost' = toHost
        /\ size' = size /\ data' = data /\ lost' = lost /\ picture' = picture
    BY <2>2 DEF reader
  <2>b. host' \in {"readline", "ask", "input", "sync", "size", "data", "mailed",
                   "failed"}
    BY <2>2
  <2>5. TypeOK'
    BY <1>0, <2>1, <2>4, <2>a, <2>b, Zenon DEF TypeOK
  <2>6. HostInv'
    BY <1>0, <2>2 DEF HostInv, Prompting, Receiving, reader
  <2> QED BY <2>5, <2>6
<1>11. CASE Sync
  <2>1. toHost' \in Seq(Item) /\ Head(toHost) \in Item
    BY <1>0, <1>11, TakeIs DEF Sync
  <2>2. read' \in Seq(Item)
    BY <1>b, <1>11, <2>1, AppendProperties DEF Sync
  <2>3. state' \in 0..5
    <3>1. state < 5 /\ state' = SyncNext(state, Head(toHost))
      BY <1>11 DEF Sync
    <3> QED BY <1>b, <3>1 DEF SyncNext
  <2>4. host = "sync" /\ UNCHANGED <<robot, toRobot, host, size, data, picture, history>>
    BY <1>11 DEF Sync
  <2>a. /\ robot' = robot /\ toRobot' = toRobot /\ asks' = asks /\ size' = size
        /\ data' = data /\ host' = host
        /\ typed' = typed /\ lost' = lost /\ picture' = picture
    BY <2>4 DEF history
  <2>5. TypeOK'
    BY <1>0, <2>1, <2>2, <2>3, <2>a, Zenon DEF TypeOK
  <2>6. HostInv'
    BY <1>0, <2>4 DEF HostInv, Prompting, Receiving
  <2> QED BY <2>5, <2>6
<1>12. CASE Synchronised
  <2>1. /\ host = "sync" /\ host' = "size" /\ state' = 0 /\ read' = << >>
        /\ UNCHANGED <<robot, toHost, toRobot, size, data, picture, history>>
    BY <1>12 DEF Synchronised
  <2>2. read' \in Seq(Item) /\ Len(read') = 0
    BY <2>1, EmptySeq
  <2>a. /\ robot' = robot /\ toRobot' = toRobot /\ asks' = asks /\ size' = size
        /\ data' = data /\ toHost' = toHost
        /\ typed' = typed /\ lost' = lost /\ picture' = picture
    BY <2>1 DEF history
  <2>b. host' \in {"readline", "ask", "input", "sync", "size", "data", "mailed",
                   "failed"}
    BY <2>1
  <2>c. state' \in 0..5
    BY <2>1
  <2>3. TypeOK'
    BY <1>0, <2>2, <2>a, <2>b, <2>c, Zenon DEF TypeOK
  <2>4. HostInv'
    BY <1>0, <2>1, <2>2 DEF HostInv, Prompting, Receiving
  <2> QED BY <2>3, <2>4
<1>13. CASE ReadByte
  <2>1. toHost' \in Seq(Item) /\ Head(toHost) \in Item
    BY <1>0, <1>13, TakeIs DEF ReadByte
  <2>2. read' \in Seq(Item) /\ Len(read') = Len(read) + 1 /\ Len(read) \in Nat
    BY <1>b, <1>13, <2>1, AppendProperties, LenProperties DEF ReadByte
  <2>3. UNCHANGED <<robot, toRobot, host, state, size, data, picture, history>>
        /\ host \in {"size", "data"} /\ (host = "size" => Len(read) < 2)
    BY <1>13 DEF ReadByte
  <2>a. /\ robot' = robot /\ toRobot' = toRobot /\ asks' = asks /\ size' = size
        /\ data' = data /\ host' = host /\ state' = state
        /\ typed' = typed /\ lost' = lost /\ picture' = picture
    BY <2>3 DEF history
  <2>4. TypeOK'
    BY <1>0, <2>1, <2>2, <2>a, Zenon DEF TypeOK
  <2>5. HostInv'
    BY <1>0, <2>2, <2>3 DEF HostInv, Prompting, Receiving
  <2> QED BY <2>4, <2>5
<1>14. CASE ReadSize
  <2>1. /\ host = "size" /\ read' = << >> /\ size' = Short(read) /\ Len(read) = 2
        /\ host' \in {"data", "failed", "sync"}
        /\ UNCHANGED <<robot, toHost, toRobot, state, data, picture, history>>
    BY <1>14 DEF ReadSize
  <2>2. read' \in Seq(Item) /\ Len(read') = 0
    BY <2>1, EmptySeq
  <2>3. size' \in Int /\ -SHRT_MAX - 1 <= size' /\ size' <= SHRT_MAX
    BY <1>b, <2>1, Short16
  <2>a. /\ robot' = robot /\ toRobot' = toRobot /\ asks' = asks /\ toHost' = toHost
        /\ data' = data /\ state' = state
        /\ typed' = typed /\ lost' = lost /\ picture' = picture
    BY <2>1 DEF history
  <2>b. host' \in {"readline", "ask", "input", "sync", "size", "data", "mailed",
                   "failed"}
    BY <2>1
  <2>4. TypeOK'
    BY <1>0, <2>2, <2>3, <2>a, <2>b, Zenon DEF TypeOK
  <2>5. HostInv'
    BY <1>0, <2>1, <2>2 DEF HostInv, Prompting, Receiving
  <2> QED BY <2>4, <2>5
<1>15. CASE StoreRow
  <2>1. /\ host = "data" /\ read' = << >>
        /\ UNCHANGED <<robot, toHost, toRobot, state, size, picture, history>>
        /\ \/ data' = Append(data, read)
           \/ data' = data
    BY <1>15 DEF StoreRow
  <2>2. read' \in Seq(Item) /\ Len(read') = 0
    BY <2>1, EmptySeq
  <2>3. data \in Seq(Seq(Item)) /\ read \in Seq(Item) /\ Len(data) < height
    BY <1>0, <1>b, <1>c, <2>1 DEF HostInv, Receiving
  <2>4. data' \in Seq(Seq(Item)) /\ Len(data') <= height
    <3>1. Len(data) \in Nat
      BY <2>3, LenProperties
    <3>2. CASE data' = Append(data, read)
      <4>1. data' \in Seq(Seq(Item)) /\ Len(data') = Len(data) + 1
        BY <2>3, <3>2, AppendProperties
      <4> QED BY <2>3, <3>1, <4>1, Rows
    <3>3. CASE data' = data
      BY <2>3, <3>1, <3>3, Rows
    <3> QED BY <2>1, <3>2, <3>3
  <2>6. host' \in {"sync", "mailed", "failed"} /\ (host' = "sync" => Len(data') < height)
    BY <1>15, StoreRowHost
  <2>a. /\ robot' = robot /\ toRobot' = toRobot /\ asks' = asks /\ toHost' = toHost
        /\ size' = size /\ state' = state
        /\ typed' = typed /\ lost' = lost /\ picture' = picture
    BY <2>1 DEF history
  <2>b. host' \in {"readline", "ask", "input", "sync", "size", "data", "mailed",
                   "failed"}
    BY <2>6
  <2>7. TypeOK'
    BY <1>0, <2>2, <2>4, <2>a, <2>b, Zenon DEF TypeOK
  <2>8. HostInv'
    BY <1>0, <2>1, <2>6 DEF HostInv, Prompting, Receiving
  <2> QED BY <2>7, <2>8
<1>16. ASSUME NEW k \in DOMAIN toHost, LoseByte(k) PROVE TypeInv'
  <2>1. /\ toHost' \in Seq(Item) /\ lost' \in 1..MaxLost
        /\ UNCHANGED <<robot, toRobot, host, reader, picture, asks, typed>>
    BY <1>0, <1>16, LoseByteIs
  <2>2. lost' \in 0..MaxLost
    BY <2>1, Rows
  <2>3. TypeOK'
    <3>1. /\ robot' = robot /\ state' = state /\ read' = read /\ host' = host
          /\ size' = size /\ data' = data /\ toRobot' = toRobot /\ asks' = asks
          /\ typed' = typed /\ picture' = picture
      BY <2>1 DEF reader
    <3> QED BY <1>0, <2>1, <2>2, <3>1, Zenon DEF TypeOK
  <2>4. HostInv'
    BY <1>0, <2>1 DEF HostInv, reader
  <2> QED BY <2>3, <2>4
<1>17. CASE UNCHANGED vars
  <2>1. /\ robot' = robot /\ state' = state /\ read' = read /\ host' = host
        /\ size' = size /\ data' = data /\ toRobot' = toRobot /\ asks' = asks
        /\ typed' = typed /\ picture' = picture /\ lost' = lost /\ toHost' = toHost
    BY <1>17 DEF vars, reader, history
  <2> QED BY <1>0, <2>1, Zenon DEF TypeOK, HostInv
<1> QED
  BY <1>1, <1>2, <1>3, <1>4, <1>5, <1>6, <1>7, <1>8, <1>9, <1>10, <1>11, <1>12,
     <1>13, <1>14, <1>15, <1>16, <1>17 DEF Next, Robot, Host, User

\* Every variable has its type: the robot's queue keeps within its size and the
\* PC never takes more rows than the picture has (console.c:95-98,
\* 2puck.py:19-23).
THEOREM ConsoleTypes == Spec => []TypeOK
<1>1. Spec => []TypeInv
  BY TypesInit, TypesStep, PTL DEF Spec
<1>2. TypeInv => TypeOK
  BY DEF TypeInv
<1> QED BY <1>1, <1>2, PTL

-----------------------------------------------------------------------------
(***************************************************************************)
(* The search for START.                                                   *)
(***************************************************************************)
LEMMA Letters ==
    /\ START \in Seq(Item) /\ Len(START) = 5
    /\ START[1] = 83 /\ START[2] = 84 /\ START[3] = 65 /\ START[4] = 82
    /\ START[5] = 84
BY DEF START, Item

LEMMA EndsInMore ==
    ASSUME NEW bytes \in Seq(Item), NEW b \in Item, NEW k \in 0..4
    PROVE  EndsIn(Append(bytes, b), k + 1) <=> EndsIn(bytes, k) /\ b = START[k + 1]
<1> DEFINE len == Len(bytes)
           more == Append(bytes, b)
<1>1. /\ len \in Nat /\ Len(more) = len + 1 /\ more[len + 1] = b
      /\ \A j \in 1..len : more[j] = bytes[j]
  BY LenProperties, AppendProperties
<1> HIDE DEF len, more
<1>2. EndsIn(more, k + 1) <=>
         /\ k + 1 <= len + 1
         /\ \A i \in 1..k + 1 : more[len + 1 - (k + 1) + i] = START[i]
  BY <1>1 DEF EndsIn
<1>3. EndsIn(bytes, k) <=> k <= len /\ \A i \in 1..k : bytes[len - k + i] = START[i]
  BY DEF EndsIn, len
<1>4. ASSUME k <= len, NEW i \in 1..k
      PROVE  more[len + 1 - (k + 1) + i] = bytes[len - k + i]
  <2>1. PICK j \in 1..len : j = len - k + i /\ len + 1 - (k + 1) + i = j
    BY <1>1, <1>4
  <2> QED BY <1>1, <2>1
<1>5. ASSUME k <= len PROVE more[len + 1 - (k + 1) + (k + 1)] = b
  <2>1. len + 1 - (k + 1) + (k + 1) = len + 1
    BY <1>1
  <2> QED BY <1>1, <2>1
<1>6. ASSUME EndsIn(more, k + 1) PROVE EndsIn(bytes, k) /\ b = START[k + 1]
  <2>1. k <= len /\ \A i \in 1..k + 1 : more[len + 1 - (k + 1) + i] = START[i]
    BY <1>1, <1>2, <1>6
  <2>2. \A i \in 1..k : i \in 1..k + 1
    OBVIOUS
  <2>3. \A i \in 1..k : bytes[len - k + i] = START[i]
    BY <1>4, <2>1, <2>2
  <2>4. k + 1 \in 1..k + 1
    OBVIOUS
  <2>5. b = START[k + 1]
    BY <1>5, <2>1, <2>4
  <2> QED BY <1>3, <2>1, <2>3, <2>5
<1>7. ASSUME EndsIn(bytes, k), b = START[k + 1] PROVE EndsIn(more, k + 1)
  <2>1. k <= len /\ \A i \in 1..k : bytes[len - k + i] = START[i]
    BY <1>3, <1>7
  <2>2. ASSUME NEW i \in 1..k + 1
        PROVE  more[len + 1 - (k + 1) + i] = START[i]
    <3>1. CASE i = k + 1
      BY <1>5, <1>7, <2>1, <3>1
    <3>2. CASE i # k + 1
      <4>1. i \in 1..k
        BY <3>2
      <4> QED BY <1>4, <2>1, <4>1
    <3> QED BY <3>1, <3>2
  <2> QED BY <1>1, <1>2, <2>1, <2>2
<1> QED BY <1>6, <1>7 DEF more

\* How the search is touched.
LEMMA SyncMoves ==
    ASSUME TypeInv, [Next]_vars
    PROVE  \/ host' # "sync"
           \/ host' = host /\ read' = read /\ state' = state
           \/ read' = << >> /\ state' = 0
           \/ Sync
<1>0. HostInv
  BY DEF TypeInv
<1>1. CASE Robot
  BY <1>1 DEF Robot, SayInput, SayPrompt, GetChar, PlayGame, SayPhoto, SendRow,
              SayTaken, Say, reader
<1>2. CASE ReadLine
  <2>1. host = "readline" /\ read' = read /\ state' = state
    BY <1>2 DEF ReadLine, reader
  <2> QED BY <1>0, <2>1 DEF HostInv, Prompting
<1>3. CASE Ask
  BY <1>3 DEF Ask
<1>4. ASSUME NEW line \in Typed, Answer(line) PROVE host' # "sync"
  BY <1>4 DEF Answer
<1>5. CASE Synchronised
  BY <1>5 DEF Synchronised
<1>6. CASE ReadByte
  BY <1>6 DEF ReadByte
<1>7. CASE ReadSize
  <2>1. host = "size" /\ read' = << >> /\ state' = state
    BY <1>7 DEF ReadSize
  <2> QED BY <1>0, <2>1 DEF HostInv
<1>8. CASE StoreRow
  <2>1. host = "data" /\ read' = << >> /\ state' = state
    BY <1>8 DEF StoreRow
  <2> QED BY <1>0, <2>1 DEF HostInv
<1>9. ASSUME NEW k \in DOMAIN toHost, LoseByte(k)
      PROVE  host' = host /\ read' = read /\ state' = state
  BY <1>9 DEF LoseByte, reader
<1>10. CASE UNCHANGED vars
  BY <1>10 DEF vars, reader
<1> QED
  BY <1>1, <1>2, <1>3, <1>4, <1>5, <1>6, <1>7, <1>8, <1>9, <1>10
     DEF Next, Host, User

LEMMA SyncStep == TypeInv /\ SyncInv /\ [Next]_vars => SyncInv'
<1> SUFFICES ASSUME TypeInv, SyncInv, [Next]_vars, host' = "sync"
             PROVE  \A k \in 1..5 : EndsIn(read, k)' <=> k = state'
  BY DEF SyncInv
<1>0. TypeOK
  BY DEF TypeInv
<1>1. CASE host' = host /\ read' = read /\ state' = state
  BY <1>1 DEF SyncInv, EndsIn
<1>2. CASE read' = << >> /\ state' = 0
  <2>1. Len(read') = 0
    BY <1>2, EmptySeq
  <2> QED BY <1>2, <2>1 DEF EndsIn
<1>3. CASE Sync
  <2> DEFINE b == Head(toHost)
  <2>1. /\ host = "sync" /\ state < 5 /\ read' = Append(read, b)
        /\ state' = SyncNext(state, b)
    BY <1>3 DEF Sync
  <2>2. b \in Item
    BY <1>0, <1>3, TakeIs DEF Sync
  <2>3. read \in Seq(Item)
    BY <1>0, Zenon DEF TypeOK
  <2>4. state \in 0..4
    <3>1. state \in 0..5
      BY <1>0, Zenon DEF TypeOK
    <3> QED BY <2>1, <3>1
  <2>5. \A k \in 1..5 : EndsIn(read, k) <=> k = state
    BY <2>1 DEF SyncInv
  <2> HIDE DEF b
  <2>6. EndsIn(read, 0)
    BY <2>3, LenProperties DEF EndsIn
  <2>7. \A k \in 0..4 : EndsIn(read', k + 1) <=>
                           (k = 0 \/ k = state) /\ b = START[k + 1]
    <3> SUFFICES ASSUME NEW k \in 0..4
                 PROVE  EndsIn(read', k + 1) <=>
                           (k = 0 \/ k = state) /\ b = START[k + 1]
      OBVIOUS
    <3>1. EndsIn(Append(read, b), k + 1) <=> EndsIn(read, k) /\ b = START[k + 1]
      BY <2>2, <2>3, EndsInMore
    <3>2. EndsIn(read, k) <=> k = 0 \/ k = state
      BY <2>5, <2>6
    <3> QED BY <2>1, <3>1, <3>2
  <2>8. ASSUME NEW k \in 0..4
        PROVE  (k = 0 \/ k = state) /\ b = START[k + 1] <=> k + 1 = state'
    <3>1. state' = IF b = START[state + 1] THEN state + 1
                   ELSE IF b = START[1] THEN 1 ELSE 0
      BY <2>1 DEF SyncNext
    <3>2. state \in 1..4 => START[state + 1] # START[1]
      <4>1. ASSUME state = 1 PROVE START[state + 1] # START[1]
        BY <4>1, Letters
      <4>2. ASSUME state = 2 PROVE START[state + 1] # START[1]
        BY <4>2, Letters
      <4>3. ASSUME state = 3 PROVE START[state + 1] # START[1]
        BY <4>3, Letters
      <4>4. ASSUME state = 4 PROVE START[state + 1] # START[1]
        BY <4>4, Letters
      <4> QED BY <4>1, <4>2, <4>3, <4>4
    <3>3. CASE b = START[state + 1]
      <4>1. state' = state + 1
        BY <3>1, <3>3
      <4>2. k = 0 /\ b = START[k + 1] => k = state
        BY <2>4, <3>2, <3>3
      <4>3. k = state => b = START[k + 1]
        BY <3>3
      <4>4. k + 1 = state' <=> k = state
        BY <2>4, <4>1
      <4> QED BY <4>2, <4>3, <4>4
    <3>4. CASE b # START[state + 1] /\ b = START[1]
      <4>1. state' = 1
        BY <3>1, <3>4
      <4>2. k = 0 => b = START[k + 1]
        BY <3>4
      <4>3. k = state => b # START[k + 1]
        BY <3>4
      <4>4. k + 1 = state' <=> k = 0
        BY <4>1
      <4> QED BY <4>2, <4>3, <4>4
    <3>5. CASE b # START[state + 1] /\ b # START[1]
      <4>1. state' = 0
        BY <3>1, <3>5
      <4>2. k = 0 => b # START[k + 1]
        BY <3>5
      <4>3. k = state => b # START[k + 1]
        BY <3>5
      <4>4. k + 1 # state'
        BY <4>1
      <4> QED BY <4>2, <4>3, <4>4
    <3> QED BY <3>3, <3>4, <3>5
  <2>9. \A k \in 0..4 : EndsIn(read', k + 1) <=> k + 1 = state'
    BY <2>7, <2>8
  <2>10. \A k \in 1..5 : EndsIn(read', k) <=> k = state'
    <3> SUFFICES ASSUME NEW k \in 1..5 PROVE EndsIn(read', k) <=> k = state'
      OBVIOUS
    <3>1. PICK j \in 0..4 : k = j + 1
      <4>1. k - 1 \in 0..4 /\ k = (k - 1) + 1
        OBVIOUS
      <4> QED BY <4>1
    <3> QED BY <2>9, <3>1
  <2> QED BY <2>10 DEF EndsIn
<1> QED BY <1>1, <1>2, <1>3, SyncMoves

\* readSyncMsg knows at every byte how much of START it has seen: the state is
\* the longest beginning of START that what it read ends in, also where the
\* letters overlap (Function.py:12-44).
THEOREM SearchForStart == Spec => []SyncIsRight
<1>1. Init => SyncInv
  BY DEF Init, SyncInv
<1>2. Spec => [](TypeInv /\ SyncInv)
  BY <1>1, TypesInit, TypesStep, SyncStep, PTL DEF Spec
<1>3. TypeInv /\ SyncInv => SyncIsRight
  <2> SUFFICES ASSUME TypeInv, SyncInv, host = "sync"
               PROVE  /\ IsSuffix(SubSeq(START, 1, state), read)
                      /\ \A k \in state + 1..5 : ~IsSuffix(SubSeq(START, 1, k), read)
    BY DEF SyncIsRight
  <2>1. read \in Seq(Item) /\ state \in 0..5
    <3>1. TypeOK
      BY DEF TypeInv
    <3> QED BY <3>1, Zenon DEF TypeOK
  <2>2. \A k \in 1..5 : EndsIn(read, k) <=> k = state
    BY DEF SyncInv
  <2>3. EndsIn(read, 0)
    BY <2>1, LenProperties DEF EndsIn
  <2>4. ASSUME NEW k \in 0..5
        PROVE  IsSuffix(SubSeq(START, 1, k), read) <=> EndsIn(read, k)
    <3> DEFINE s == SubSeq(START, 1, k)
    <3>1. /\ s \in Seq(Item) /\ Len(s) = IF 1 <= k THEN k - 1 + 1 ELSE 0
          /\ \A i \in 1..k - 1 + 1 : s[i] = START[1 + i - 1]
      <4>1. k \in Nat /\ k <= Len(START) /\ 1 \in Nat \ {0} /\ START \in Seq(Item)
        BY Letters
      <4> QED BY <4>1, Part
    <3> HIDE DEF s
    <3>2. Len(s) = k /\ \A i \in 1..k : s[i] = START[i]
      BY <3>1
    <3>3. IsSuffix(s, read) <=>
             Len(s) <= Len(read) /\ \A i \in 1..Len(s) : s[i] = read[Len(read) - Len(s) + i]
      BY <2>1, <3>1, SuffixIs
    <3>4. IsSuffix(s, read) <=> EndsIn(read, k)
      BY <3>2, <3>3 DEF EndsIn
    <3> QED BY <3>4 DEF s
  <2>5. EndsIn(read, state)
    BY <2>1, <2>2, <2>3
  <2>6. ASSUME NEW k \in state + 1..5 PROVE ~EndsIn(read, k)
    BY <2>1, <2>2
  <2>7. \A k \in state + 1..5 : k \in 0..5
    BY <2>1
  <2> QED BY <2>1, <2>4, <2>5, <2>6, <2>7
<1> QED BY <1>2, <1>3, PTL

-----------------------------------------------------------------------------
(***************************************************************************)
(* The rows on the line.                                                   *)
(***************************************************************************)
LEMMA OffIs ==
    /\ \A n \in Nat : Off(n) \in Nat /\ Off(n + 1) = Off(n) + RowLen + 7
    /\ Off(0) = 0
<1>1. RowLen \in Nat
  BY Rows
<1>2. ASSUME NEW n \in Nat PROVE Off(n) \in Nat /\ Off(n + 1) = Off(n) + RowLen + 7
  <2>1. n * (RowLen + 7) \in Nat
    BY <1>1
  <2>2. (n + 1) * (RowLen + 7) = n * (RowLen + 7) + (RowLen + 7)
    BY <1>1
  <2> QED BY <1>1, <2>1, <2>2 DEF Off
<1>3. Off(0) = 0
  BY <1>1 DEF Off
<1> QED BY <1>2, <1>3

\* What RowsAt says of one byte.
LEMMA RowByte ==
    ASSUME TypeOK, NEW r \in 1..Len(picture), NEW q \in 1..RowLen + 7, NEW D \in Int
    PROVE  Off(r - 1) \in Nat /\ D + Off(r - 1) + q \in Int
<1>1. picture \in Seq(RowBytes)
  BY Zenon DEF TypeOK
<1>2. PICK n \in Nat : n = r - 1
  <2>1. r - 1 \in Nat
    BY <1>1, LenProperties
  <2> QED BY <2>1
<1>3. Off(n) \in Nat
  BY OffIs, Zenon
<1>4. Off(r - 1) \in Nat
  BY <1>2, <1>3
<1> QED BY <1>4, Rows

LEMMA Lengths ==
    ASSUME TypeOK
    PROVE  /\ Len(toHost) \in Nat /\ Len(picture) \in Nat /\ Len(toRobot) \in Nat
           /\ Len(data) \in Nat /\ Len(read) \in Nat /\ Off(Len(picture)) \in Nat
<1>1. /\ toHost \in Seq(Item) /\ picture \in Seq(RowBytes)
      /\ toRobot \in Seq({"w", "x"}) /\ data \in Seq(Seq(Item)) /\ read \in Seq(Item)
  BY Zenon DEF TypeOK
<1>2. /\ Len(toHost) \in Nat /\ Len(picture) \in Nat /\ Len(toRobot) \in Nat
      /\ Len(data) \in Nat /\ Len(read) \in Nat
  BY <1>1, LenProperties
<1> QED BY <1>2, OffIs

LEMMA RowsTake ==
    ASSUME TypeOK, NEW S, Take(S), UNCHANGED <<robot, picture>>,
           NEW D \in Int, RowsAt(D)
    PROVE  RowsAt(D - 1)'
<1>1. /\ Len(toHost) \in Nat /\ Len(toHost') = Len(toHost) - 1
      /\ \A j \in 1..Len(toHost) - 1 : toHost'[j] = toHost[j + 1]
  BY TakeIs
<1>2. Off(Len(picture)) \in Nat
  BY Lengths
<1>3. /\ D - 1 + Off(Len(picture)) <= Len(toHost')
      /\ robot = "rows" => D - 1 + Off(Len(picture)) = Len(toHost')
  BY <1>1, <1>2 DEF RowsAt
<1>4. ASSUME NEW r \in 1..Len(picture), NEW q \in 1..RowLen + 7,
             1 <= D - 1 + Off(r - 1) + q
      PROVE  /\ D - 1 + Off(r - 1) + q <= Len(toHost')
             /\ toHost'[D - 1 + Off(r - 1) + q] = Frame(picture[r])[q]
  <2>1. PICK j \in Int : j = D - 1 + Off(r - 1) + q /\ j + 1 = D + Off(r - 1) + q
    <3>1. Off(r - 1) \in Nat /\ q \in Int
      BY RowByte, Rows
    <3> QED BY <3>1
  <2>2. j + 1 <= Len(toHost) /\ toHost[j + 1] = Frame(picture[r])[q]
    <3>1. 1 <= D + Off(r - 1) + q
      BY <1>4, <2>1
    <3>2. /\ D + Off(r - 1) + q <= Len(toHost)
          /\ toHost[D + Off(r - 1) + q] = Frame(picture[r])[q]
      BY <3>1 DEF RowsAt
    <3> QED BY <2>1, <3>2
  <2>3. j \in 1..Len(toHost) - 1
    BY <1>1, <1>4, <2>1, <2>2
  <2>4. j <= Len(toHost') /\ toHost'[j] = Frame(picture[r])[q]
    BY <1>1, <2>2, <2>3
  <2> QED BY <2>1, <2>4
<1> QED BY <1>3, <1>4 DEF RowsAt

LEMMA RowsSay ==
    ASSUME TypeOK, NEW from, NEW line \in Text, NEW to, to # "rows",
           Say(from, line, to), NEW D \in Int, RowsAt(D)
    PROVE  RowsAt(D)'
<1>1. /\ robot' = to /\ picture' = picture
      /\ Len(toHost) \in Nat /\ Len(toHost') = Len(toHost) + 1
      /\ \A j \in 1..Len(toHost) : toHost'[j] = toHost[j]
  BY SayIs
<1>2. Off(Len(picture)) \in Nat
  BY Lengths
<1>3. D + Off(Len(picture)) <= Len(toHost')
  BY <1>1, <1>2 DEF RowsAt
<1>4. ASSUME NEW r \in 1..Len(picture), NEW q \in 1..RowLen + 7,
             1 <= D + Off(r - 1) + q
      PROVE  /\ D + Off(r - 1) + q <= Len(toHost')
             /\ toHost'[D + Off(r - 1) + q] = Frame(picture[r])[q]
  <2>1. PICK j \in Int : j = D + Off(r - 1) + q
    BY RowByte
  <2>2. j <= Len(toHost) /\ toHost[j] = Frame(picture[r])[q]
    BY <1>4, <2>1 DEF RowsAt
  <2>3. j \in 1..Len(toHost)
    BY <1>4, <2>1, <2>2
  <2>4. j <= Len(toHost') /\ toHost'[j] = Frame(picture[r])[q]
    BY <1>1, <2>2, <2>3
  <2> QED BY <2>1, <2>4
<1> QED BY <1>1, <1>3, <1>4 DEF RowsAt

LEMMA RowsSend ==
    ASSUME TypeOK, NEW bytes \in RowBytes, SendRow(bytes), NEW D \in Int, RowsAt(D)
    PROVE  RowsAt(D)'
<1> DEFINE p == Len(picture)
           len == Len(toHost)
<1>1. /\ len \in Nat /\ p \in Nat /\ Len(toHost') = len + RowLen + 7
      /\ \A j \in 1..len : toHost'[j] = toHost[j]
      /\ \A q \in 1..RowLen + 7 : toHost'[len + q] = Frame(bytes)[q]
      /\ Len(picture') = p + 1
      /\ \A r \in 1..p : picture'[r] = picture[r]
      /\ picture'[p + 1] = bytes
  BY SendRowIs
<1>2. robot = "rows" /\ robot' = robot /\ D + Off(p) = len
  BY DEF SendRow, RowsAt
<1>3. Off(p) \in Nat /\ Off(p + 1) = Off(p) + RowLen + 7 /\ RowLen \in Nat
  <2>1. p \in Nat
    BY <1>1
  <2> HIDE DEF p
  <2>2. Off(p) \in Nat /\ Off(p + 1) = Off(p) + RowLen + 7
    BY <2>1, OffIs, Zenon
  <2> QED BY <2>2, Rows
<1>4. \A r \in 1..p, q \in 1..RowLen + 7 :
         1 <= D + Off(r - 1) + q =>
            /\ D + Off(r - 1) + q <= len
            /\ toHost[D + Off(r - 1) + q] = Frame(picture[r])[q]
  BY DEF RowsAt
<1>5. ASSUME NEW r \in 1..p, NEW q \in 1..RowLen + 7 PROVE D + Off(r - 1) + q \in Int
  BY RowByte
<1> HIDE DEF p, len
<1>6. D + Off(Len(picture')) = Len(toHost')
  <2>1. Off(Len(picture')) = Off(p + 1)
    BY <1>1, Zenon
  <2>2. D + Off(p + 1) = len + RowLen + 7
    BY <1>2, <1>3
  <2> QED BY <1>1, <2>1, <2>2
<1>7. ASSUME NEW r \in 1..Len(picture'), NEW q \in 1..RowLen + 7,
             1 <= D + Off(r - 1) + q
      PROVE  /\ D + Off(r - 1) + q <= Len(toHost')
             /\ toHost'[D + Off(r - 1) + q] = Frame(picture'[r])[q]
  <2>1. CASE r = p + 1
    <3>1. r - 1 = p
      BY <1>1, <2>1
    <3>2. D + Off(r - 1) + q = len + q
      BY <1>2, <1>3, <3>1
    <3>3. len + q <= Len(toHost')
      BY <1>1, <1>3
    <3>4. toHost'[len + q] = Frame(bytes)[q] /\ picture'[r] = bytes
      BY <1>1, <2>1
    <3> QED BY <3>2, <3>3, <3>4
  <2>2. CASE r # p + 1
    <3>1. r \in 1..p
      BY <1>1, <2>2
    <3>2. PICK j \in Int : j = D + Off(r - 1) + q
      BY <1>5, <3>1
    <3>3. j <= len /\ toHost[j] = Frame(picture[r])[q]
      BY <1>4, <1>7, <3>1, <3>2
    <3>4. j \in 1..len
      BY <1>7, <3>2, <3>3
    <3>5. j <= Len(toHost') /\ toHost'[j] = Frame(picture'[r])[q]
      BY <1>1, <1>3, <3>1, <3>3, <3>4
    <3> QED BY <3>2, <3>5
  <2> QED BY <2>1, <2>2
<1> QED BY <1>6, <1>7 DEF RowsAt

LEMMA RowsSame ==
    ASSUME NEW D, RowsAt(D), toHost' = toHost, picture' = picture,
           robot' = "rows" => robot = "rows"
    PROVE  RowsAt(D)'
BY DEF RowsAt

-----------------------------------------------------------------------------
(***************************************************************************)
(* What is on the line before, at and after the photo.                     *)
(***************************************************************************)
LEMMA Steps ==
    /\ RobotSteps["input"] = 0 /\ RobotSteps["prompt"] = 1
    /\ RobotSteps["getchar"] = 2 /\ RobotSteps["game"] = 0
    /\ HostSteps["readline"] = 0 /\ HostSteps["ask"] = 1 /\ HostSteps["input"] = 2
BY DEF RobotSteps, HostSteps, Prompting

LEMMA Lines ==
    /\ INPUT \in Text /\ PROMPT \in Text /\ TAKING_PHOTO \in Text
    /\ OTHER_TEXT \in Text
    /\ INPUT # PROMPT /\ INPUT # TAKING_PHOTO /\ INPUT # OTHER_TEXT
    /\ PROMPT # TAKING_PHOTO /\ PROMPT # OTHER_TEXT /\ TAKING_PHOTO # OTHER_TEXT
BY DEF Text, INPUT, PROMPT, TAKING_PHOTO, OTHER_TEXT

\* The PC takes an item before TAKING_PHOTO.
LEMMA PhotoTake ==
    ASSUME TypeOK, NEW S, Take(S), UNCHANGED <<robot, picture, lost>>,
           NEW k \in 2..Len(toHost) + 1, PhotoAt(k),
           k - 1 = 1 => host' = "readline",
           k - 1 > 1 => ((k - 1) % 2 = 0 <=> host' # "ask")
    PROVE  k - 1 \in 1..Len(toHost') + 1 /\ PhotoAt(k - 1)'
<1>1. /\ Len(toHost) \in Nat \ {0} /\ Len(toHost') = Len(toHost) - 1
      /\ \A j \in 1..Len(toHost) - 1 : toHost'[j] = toHost[j + 1]
  BY TakeIs
<1>2. PICK n \in Nat \ {0} : n = k - 1 /\ k = n + 1
  BY <1>1
<1>3. n \in 1..Len(toHost') + 1
  BY <1>1, <1>2
<1>4. IF robot' = "photo" THEN n = Len(toHost') + 1 /\ picture' = << >>
      ELSE n <= Len(toHost') /\ toHost'[n] = TAKING_PHOTO
  <2>1. CASE robot = "photo"
    BY <1>1, <1>2, <2>1 DEF PhotoAt
  <2>2. CASE robot # "photo"
    <3>1. k <= Len(toHost) /\ toHost[k] = TAKING_PHOTO
      BY <2>2 DEF PhotoAt
    <3>2. n \in 1..Len(toHost) - 1
      BY <1>1, <1>2, <3>1
    <3> QED BY <1>1, <1>2, <2>2, <3>1, <3>2
  <2> QED BY <2>1, <2>2
<1>5. n > 1 => toHost'[n - 1] = OTHER_TEXT
  <2> SUFFICES ASSUME n > 1 PROVE toHost'[n - 1] = OTHER_TEXT
    OBVIOUS
  <2>1. PICK j \in 1..Len(toHost) - 1 : j = n - 1 /\ j + 1 = k - 1
    <3>1. n - 1 \in 1..Len(toHost) - 1 /\ (n - 1) + 1 = k - 1
      BY <1>1, <1>2, <1>3
    <3> QED BY <3>1
  <2>2. toHost[k - 1] = OTHER_TEXT
    BY <1>2 DEF PhotoAt
  <2> QED BY <1>1, <2>1, <2>2
<1>6. \A j \in 1..n - 2 : toHost'[j] \in {INPUT, PROMPT}
  <2> SUFFICES ASSUME NEW j \in 1..n - 2 PROVE toHost'[j] \in {INPUT, PROMPT}
    OBVIOUS
  <2>1. j \in 1..Len(toHost) - 1 /\ j + 1 \in 1..k - 2
    BY <1>1, <1>2, <1>3
  <2>2. toHost[j + 1] \in {INPUT, PROMPT}
    BY <2>1 DEF PhotoAt
  <2> QED BY <1>1, <2>1, <2>2
<1>7. robot' # "photo" /\ lost' = 0 => RowsAt(n)'
  <2> SUFFICES ASSUME robot' # "photo", lost' = 0 PROVE RowsAt(n)'
    OBVIOUS
  <2>1. RowsAt(k) /\ k \in Int
    BY <1>2 DEF PhotoAt
  <2>2. RowsAt(k - 1)'
    BY <2>1, RowsTake
  <2> QED BY <1>2, <2>2
<1>8. n = 1 => host' = "readline"
  BY <1>2
<1>9. n > 1 => (n % 2 = 0 <=> host' # "ask")
  BY <1>2
<1>10. PhotoAt(n)'
  BY <1>4, <1>5, <1>6, <1>7, <1>8, <1>9 DEF PhotoAt
<1> QED BY <1>2, <1>3, <1>10

\* The robot prints a line after it.
LEMMA PhotoSay ==
    ASSUME TypeOK, NEW from, NEW line \in Text, NEW to,
           to \notin {"rows", "photo", "game"}, robot # "photo",
           Say(from, line, to), Len(picture) = ROWS, BeforePhoto
    PROVE  BeforePhoto'
<1>1. /\ robot' = to /\ Len(toHost) \in Nat /\ Len(toHost') = Len(toHost) + 1
      /\ \A j \in 1..Len(toHost) : toHost'[j] = toHost[j]
      /\ host' = host /\ picture' = picture /\ lost' = lost
  BY SayIs DEF history
<1>2. PICK k \in 1..Len(toHost) + 1 : PhotoAt(k)
  BY DEF BeforePhoto
<1>3. k <= Len(toHost) /\ toHost[k] = TAKING_PHOTO
  BY <1>2 DEF PhotoAt
<1>4. k <= Len(toHost') /\ toHost'[k] = TAKING_PHOTO /\ k \in 1..Len(toHost') + 1
  BY <1>1, <1>3
<1>5. k > 1 => toHost'[k - 1] = OTHER_TEXT
  <2> SUFFICES ASSUME k > 1 PROVE toHost'[k - 1] = OTHER_TEXT
    OBVIOUS
  <2>1. k - 1 \in 1..Len(toHost) /\ toHost[k - 1] = OTHER_TEXT
    BY <1>1, <1>2, <1>3 DEF PhotoAt
  <2> QED BY <1>1, <2>1
<1>6. \A j \in 1..k - 2 : toHost'[j] \in {INPUT, PROMPT}
  <2> SUFFICES ASSUME NEW j \in 1..k - 2 PROVE toHost'[j] \in {INPUT, PROMPT}
    OBVIOUS
  <2>1. j \in 1..Len(toHost) /\ toHost[j] \in {INPUT, PROMPT}
    BY <1>1, <1>2, <1>3 DEF PhotoAt
  <2> QED BY <1>1, <2>1
<1>7. lost' = 0 => RowsAt(k)'
  <2> SUFFICES ASSUME lost' = 0 PROVE RowsAt(k)'
    OBVIOUS
  <2>1. RowsAt(k) /\ k \in Int
    BY <1>1, <1>2 DEF PhotoAt
  <2> QED BY <2>1, RowsSay
<1>8. PhotoAt(k)'
  <2>1. /\ k = 1 => host' = "readline"
        /\ k > 1 => (k % 2 = 0 <=> host' # "ask")
    BY <1>1, <1>2 DEF PhotoAt
  <2> QED BY <1>1, <1>4, <1>5, <1>6, <1>7, <2>1 DEF PhotoAt
<1>9. host' \in Prompting /\ robot' # "game" /\ Sent'
  BY <1>1 DEF BeforePhoto, Sent
<1> QED BY <1>4, <1>8, <1>9 DEF BeforePhoto

\* Nothing on the line changes.
LEMMA PhotoSame ==
    ASSUME NEW k, PhotoAt(k), UNCHANGED <<toHost, picture, lost>>,
           k = 1 => host' = "readline", k > 1 => (k % 2 = 0 <=> host' # "ask"),
           robot' = robot \/ (robot # "photo" /\ robot' \notin {"photo", "rows"})
    PROVE  PhotoAt(k)'
<1>1. robot' # "photo" /\ lost' = 0 => RowsAt(k)'
  BY RowsSame DEF PhotoAt
<1>2. IF robot' = "photo" THEN k = Len(toHost') + 1 /\ picture' = << >>
      ELSE k <= Len(toHost') /\ toHost'[k] = TAKING_PHOTO
  BY DEF PhotoAt
<1>3. /\ k > 1 => toHost'[k - 1] = OTHER_TEXT
      /\ \A j \in 1..k - 2 : toHost'[j] \in {INPUT, PROMPT}
  BY DEF PhotoAt
<1> QED BY <1>1, <1>2, <1>3 DEF PhotoAt

LEMMA LinesInit == Init => LineInv
<1> SUFFICES ASSUME Init PROVE BeforeGame
  BY DEF LineInv
<1>1. /\ robot = "input" /\ host = "readline" /\ picture = << >> /\ toHost = << >>
      /\ toRobot = << >> /\ asks = 0 /\ typed = 0
  BY DEF Init
<1>2. Len(toHost) = 0 /\ Len(toRobot) = 0
  BY <1>1, EmptySeq
<1>3. /\ Len(toHost) + 2 * asks + HostSteps[host] =
            2 * (typed - Len(toRobot)) + RobotSteps[robot]
  BY <1>1, <1>2, Steps
<1>4. \A j \in 1..Len(toHost) : toHost[j] \in {INPUT, PROMPT}
  BY <1>2
<1> QED BY <1>1, <1>3, <1>4 DEF BeforeGame, Prompting

\* A line printed before the game.
LEMMA GameSay ==
    ASSUME TypeOK, BeforeGame, NEW from, NEW line \in {INPUT, PROMPT},
           NEW to \in {"prompt", "getchar"}, Say(from, line, to),
           RobotSteps[to] = RobotSteps[from] + 1, RobotSteps[from] \in Nat
    PROVE  BeforeGame'
<1>1. line \in Text
  BY Lines
<1>2. /\ robot = from /\ robot' = to /\ Len(toHost) \in Nat
      /\ Len(toHost') = Len(toHost) + 1
      /\ \A j \in 1..Len(toHost) : toHost'[j] = toHost[j]
      /\ toHost'[Len(toHost) + 1] = line
      /\ UNCHANGED <<toRobot, host, reader, picture, history>>
  BY <1>1, SayIs
<1>3. /\ toRobot' = toRobot /\ host' = host /\ picture' = picture
      /\ asks' = asks /\ typed' = typed
  BY <1>2 DEF history
<1>4. \A j \in 1..Len(toHost') : toHost'[j] \in {INPUT, PROMPT}
  <2> SUFFICES ASSUME NEW j \in 1..Len(toHost') PROVE toHost'[j] \in {INPUT, PROMPT}
    OBVIOUS
  <2>1. CASE j = Len(toHost) + 1
    BY <1>2, <2>1
  <2>2. CASE j # Len(toHost) + 1
    <3>1. j \in 1..Len(toHost)
      BY <1>2, <2>2
    <3> QED BY <1>2, <3>1 DEF BeforeGame
  <2> QED BY <2>1, <2>2
<1>5. /\ host \in Prompting /\ picture = << >>
      /\ Len(toHost) + 2 * asks + HostSteps[host] =
            2 * (typed - Len(toRobot)) + RobotSteps[robot]
  BY DEF BeforeGame
<1>6. HostSteps[host] \in Nat /\ asks \in Nat /\ typed - Len(toRobot) \in Int
  <2>1. asks \in 0..MaxAsks /\ typed \in Nat
    BY Zenon DEF TypeOK
  <2>2. HostSteps[host] \in Nat
    BY <1>5, Steps DEF Prompting
  <2> QED BY <2>1, <2>2, Lengths
<1> DEFINE h == HostSteps[host]
           f == RobotSteps[from]
           d == typed - Len(toRobot)
<1>7. Len(toHost) + 2 * asks + h = 2 * d + f
  BY <1>2, <1>5
<1>8. h \in Nat /\ f \in Nat /\ d \in Int /\ asks \in Nat
  BY <1>6
<1> HIDE DEF h, f, d
<1>9. Len(toHost') + 2 * asks + h = 2 * d + (f + 1)
  BY <1>2, <1>7, <1>8
<1>10. Len(toHost') + 2 * asks' + HostSteps[host'] =
         2 * (typed' - Len(toRobot')) + RobotSteps[robot']
  BY <1>2, <1>3, <1>9 DEF h, f, d
<1>11. robot' \in {"input", "prompt", "getchar", "game"}
  BY <1>2
<1> QED BY <1>3, <1>4, <1>5, <1>10, <1>11 DEF BeforeGame

LEMMA LinesRobot == TypeInv /\ LineInv /\ Robot => LineInv'
<1> SUFFICES ASSUME TypeInv, LineInv, Robot PROVE LineInv'
  OBVIOUS
<1>0. TypeOK /\ Len(picture) <= ROWS /\ ROWS \in Nat \ {0} /\ Len(picture) \in Nat
  <2>1. TypeOK
    BY DEF TypeInv
  <2>2. Len(picture) <= ROWS
    BY <2>1, Zenon DEF TypeOK
  <2> QED BY <2>1, <2>2, Lengths, Rows
<1>1. CASE SayInput
  <2>1. Say("input", INPUT, "prompt") /\ robot = "input" /\ robot' = "prompt"
        /\ host' = host /\ picture' = picture
    BY <1>1 DEF SayInput, Say
  <2>2. CASE BeforeGame
    <3>1. BeforeGame'
      BY <1>0, <2>1, <2>2, GameSay, Steps
    <3> QED BY <3>1 DEF LineInv
  <2>3. CASE BeforePhoto
    <3>1. Len(picture) = ROWS
      BY <2>1, <2>3 DEF BeforePhoto, Sent
    <3>2. BeforePhoto'
      BY <1>0, <2>1, <2>3, <3>1, PhotoSay, Lines
    <3> QED BY <3>2 DEF LineInv
  <2>4. CASE AfterPhoto
    BY <2>1, <2>4 DEF AfterPhoto, Sent, LineInv
  <2> QED BY <2>2, <2>3, <2>4 DEF LineInv
<1>2. CASE SayPrompt
  <2>1. Say("prompt", PROMPT, "getchar") /\ robot = "prompt" /\ robot' = "getchar"
        /\ host' = host /\ picture' = picture
    BY <1>2 DEF SayPrompt, Say
  <2>2. CASE BeforeGame
    <3>1. BeforeGame'
      BY <1>0, <2>1, <2>2, GameSay, Steps
    <3> QED BY <3>1 DEF LineInv
  <2>3. CASE BeforePhoto
    <3>1. Len(picture) = ROWS
      BY <2>1, <2>3 DEF BeforePhoto, Sent
    <3>2. BeforePhoto'
      BY <1>0, <2>1, <2>3, <3>1, PhotoSay, Lines
    <3> QED BY <3>2 DEF LineInv
  <2>4. CASE AfterPhoto
    BY <2>1, <2>4 DEF AfterPhoto, Sent, LineInv
  <2> QED BY <2>2, <2>3, <2>4 DEF LineInv
<1>3. CASE GetChar
  <2>1. /\ robot = "getchar" /\ toRobot # << >> /\ toRobot' = Tail(toRobot)
        /\ robot' = IF Head(toRobot) # "w" THEN "input"
                    ELSE IF picture = << >> THEN "game" ELSE "halted"
        /\ UNCHANGED <<toHost, host, reader, picture, history>>
    BY <1>3 DEF GetChar, Rest
  <2>2. /\ toHost' = toHost /\ host' = host /\ picture' = picture
        /\ asks' = asks /\ typed' = typed /\ lost' = lost
    BY <2>1 DEF history
  <2>3. CASE BeforeGame
    <3>1. robot' \in {"input", "game"} /\ RobotSteps[robot'] = 0 /\ RobotSteps[robot] = 2
      BY <2>1, <2>3, Steps DEF BeforeGame
    <3>2. Len(toRobot') = Len(toRobot) - 1 /\ Len(toRobot) \in Nat
      <4>1. toRobot \in Seq({"w", "x"})
        BY <1>0, Zenon DEF TypeOK
      <4> QED BY <2>1, <4>1, HeadTailProperties, LenProperties
    <3>3. typed \in Nat
      BY <1>0, Zenon DEF TypeOK
    <3>4. /\ host \in Prompting /\ picture = << >>
          /\ \A j \in 1..Len(toHost) : toHost[j] \in {INPUT, PROMPT}
          /\ Len(toHost) + 2 * asks + HostSteps[host] =
                2 * (typed - Len(toRobot)) + RobotSteps[robot]
      BY <2>3 DEF BeforeGame
    <3>5. 2 * (typed - Len(toRobot)) + 2 = 2 * (typed - Len(toRobot')) + 0
      BY <3>2, <3>3
    <3>6. Len(toHost') + 2 * asks' + HostSteps[host'] =
             2 * (typed' - Len(toRobot')) + RobotSteps[robot']
      BY <2>2, <3>1, <3>4, <3>5
    <3>7. BeforeGame'
      BY <2>2, <3>1, <3>4, <3>6 DEF BeforeGame
    <3> QED BY <3>7 DEF LineInv
  <2>4. CASE BeforePhoto
    <3>1. Len(picture) = ROWS
      BY <2>1, <2>4 DEF BeforePhoto, Sent
    <3>2. robot' \in {"input", "halted"}
      <4>1. picture # << >>
        BY <1>0, <3>1, EmptySeq
      <4> QED BY <2>1, <4>1
    <3>3. PICK k \in 1..Len(toHost) + 1 : PhotoAt(k)
      BY <2>4 DEF BeforePhoto
    <3>4. PhotoAt(k)'
      <4>1. /\ k = 1 => host' = "readline"
            /\ k > 1 => (k % 2 = 0 <=> host' # "ask")
        BY <2>2, <3>3 DEF PhotoAt
      <4> QED BY <2>1, <2>2, <3>2, <3>3, <4>1, PhotoSame
    <3>5. BeforePhoto'
      BY <2>2, <2>4, <3>1, <3>2, <3>4 DEF BeforePhoto, Sent
    <3> QED BY <3>5 DEF LineInv
  <2>5. CASE AfterPhoto
    <3>1. Len(picture) = ROWS
      BY <2>1, <2>5 DEF AfterPhoto, Sent
    <3>2. robot' \in {"input", "halted"}
      <4>1. picture # << >>
        BY <1>0, <3>1, EmptySeq
      <4> QED BY <2>1, <4>1
    <3> QED BY <2>2, <2>5, <3>1, <3>2 DEF AfterPhoto, Sent, LineInv
  <2> QED BY <2>3, <2>4, <2>5 DEF LineInv
<1>4. CASE PlayGame
  <2>1. /\ robot = "game" /\ robot' = "photo"
        /\ Len(toHost) \in Nat /\ Len(toHost') = Len(toHost) + 1
        /\ \A j \in 1..Len(toHost) : toHost'[j] = toHost[j]
        /\ toHost'[Len(toHost) + 1] = OTHER_TEXT
        /\ UNCHANGED <<toRobot, host, reader, picture, history>>
    BY <1>0, <1>4, SayIs, Lines DEF PlayGame
  <2>2. host' = host /\ picture' = picture /\ lost' = lost
    BY <2>1 DEF history
  <2>3. BeforeGame
    BY <2>1 DEF LineInv, BeforePhoto, AfterPhoto
  <2>4. /\ host \in Prompting /\ picture = << >>
        /\ \A j \in 1..Len(toHost) : toHost[j] \in {INPUT, PROMPT}
        /\ Len(toHost) + 2 * asks + HostSteps[host] =
              2 * (typed - Len(toRobot)) + RobotSteps[robot]
    BY <2>3 DEF BeforeGame
  <2>5. PICK k \in Nat : k = Len(toHost) + 2 /\ k - 1 = Len(toHost) + 1
                         /\ k - 2 = Len(toHost) /\ k > 1
    <3>1. LET n == Len(toHost) + 2 IN
             n \in Nat /\ n - 1 = Len(toHost) + 1 /\ n - 2 = Len(toHost) /\ n > 1
      BY <2>1
    <3> QED BY <3>1
  <2>6. k = Len(toHost') + 1 /\ k \in 1..Len(toHost') + 1
    BY <2>1, <2>5
  <2>7. k % 2 = 0 <=> host # "ask"
    <3>1. typed \in Nat /\ asks \in Nat /\ Len(toRobot) \in Nat
      <4>1. typed \in Nat /\ asks \in 0..MaxAsks
        BY <1>0, Zenon DEF TypeOK
      <4> QED BY <1>0, <4>1, Lengths
    <3> DEFINE d == typed - Len(toRobot) - asks
    <3>2. typed - Len(toRobot) = d + asks /\ asks \in Nat /\ d \in Int
      BY <3>1
    <3> HIDE DEF d
    <3>3. Len(toHost) + 2 * asks + HostSteps[host] = 2 * (d + asks)
      BY <2>1, <2>4, <3>2, Steps
    <3>4. CASE host = "ask"
      <4>1. k = 2 * d + 1
        BY <2>1, <2>5, <3>2, <3>3, <3>4, Steps
      <4>2. k % 2 = 1
        BY <3>2, <4>1
      <4> QED BY <3>4, <4>2
    <3>5. CASE host = "input"
      <4>1. k = 2 * d
        BY <2>1, <2>5, <3>2, <3>3, <3>5, Steps
      <4>2. k % 2 = 0
        BY <3>2, <4>1
      <4> QED BY <3>5, <4>2
    <3>6. CASE host = "readline"
      <4>1. k = 2 * d + 2
        BY <2>1, <2>5, <3>2, <3>3, <3>6, Steps
      <4>2. k % 2 = 0
        BY <3>2, <4>1
      <4> QED BY <3>6, <4>2
    <3> QED BY <2>4, <3>4, <3>5, <3>6 DEF Prompting
  <2>8. toHost'[k - 1] = OTHER_TEXT /\ \A j \in 1..k - 2 : toHost'[j] \in {INPUT, PROMPT}
    BY <2>1, <2>4, <2>5
  <2>9. PhotoAt(k)'
    BY <2>1, <2>2, <2>4, <2>5, <2>6, <2>7, <2>8 DEF PhotoAt
  <2>10. BeforePhoto'
    BY <2>1, <2>2, <2>4, <2>6, <2>9 DEF BeforePhoto, Sent
  <2> QED BY <2>10 DEF LineInv
<1>5. CASE SayPhoto
  <2>1. /\ robot = "photo" /\ robot' = "rows"
        /\ Len(toHost) \in Nat /\ Len(toHost') = Len(toHost) + 1
        /\ \A j \in 1..Len(toHost) : toHost'[j] = toHost[j]
        /\ toHost'[Len(toHost) + 1] = TAKING_PHOTO
        /\ UNCHANGED <<toRobot, host, reader, picture, history>>
    BY <1>0, <1>5, SayIs, Lines DEF SayPhoto
  <2>2. host' = host /\ picture' = picture /\ lost' = lost
    BY <2>1 DEF history
  <2>3. BeforePhoto
    BY <2>1 DEF LineInv, BeforeGame, AfterPhoto
  <2>4. PICK k \in 1..Len(toHost) + 1 : PhotoAt(k)
    BY <2>3 DEF BeforePhoto
  <2>5. k = Len(toHost) + 1 /\ picture = << >>
    BY <2>1, <2>4 DEF PhotoAt
  <2>6. k <= Len(toHost') /\ toHost'[k] = TAKING_PHOTO /\ k \in 1..Len(toHost') + 1
    BY <2>1, <2>5
  <2>7. k > 1 => toHost'[k - 1] = OTHER_TEXT
    <3> SUFFICES ASSUME k > 1 PROVE toHost'[k - 1] = OTHER_TEXT
      OBVIOUS
    <3>1. k - 1 \in 1..Len(toHost) /\ toHost[k - 1] = OTHER_TEXT
      BY <2>1, <2>4, <2>5 DEF PhotoAt
    <3> QED BY <2>1, <3>1
  <2>8. \A j \in 1..k - 2 : toHost'[j] \in {INPUT, PROMPT}
    <3> SUFFICES ASSUME NEW j \in 1..k - 2 PROVE toHost'[j] \in {INPUT, PROMPT}
      OBVIOUS
    <3>1. j \in 1..Len(toHost) /\ toHost[j] \in {INPUT, PROMPT}
      BY <2>1, <2>4, <2>5 DEF PhotoAt
    <3> QED BY <2>1, <3>1
  <2>9. RowsAt(k)'
    <3>1. Len(picture') = 0
      BY <2>2, <2>5, EmptySeq
    <3>2. k + Off(Len(picture')) = Len(toHost')
      BY <2>1, <2>5, <3>1, OffIs
    <3>3. 1..Len(picture') = {}
      BY <3>1
    <3> QED BY <2>1, <2>5, <3>2, <3>3 DEF RowsAt
  <2>10. PhotoAt(k)'
    <3>1. /\ k = 1 => host' = "readline"
          /\ k > 1 => (k % 2 = 0 <=> host' # "ask")
      BY <2>2, <2>4 DEF PhotoAt
    <3> QED BY <2>1, <2>6, <2>7, <2>8, <2>9, <3>1 DEF PhotoAt
  <2>11. BeforePhoto'
    BY <2>1, <2>2, <2>3, <2>6, <2>10 DEF BeforePhoto, Sent
  <2> QED BY <2>11 DEF LineInv
<1>6. ASSUME NEW bytes \in RowBytes, SendRow(bytes) PROVE LineInv'
  <2>1. /\ robot = "rows" /\ robot' = robot /\ host' = host /\ lost' = lost
    BY <1>6 DEF SendRow, history
  <2>2. /\ Len(toHost) \in Nat /\ Len(toHost') = Len(toHost) + RowLen + 7
        /\ \A j \in 1..Len(toHost) : toHost'[j] = toHost[j]
    BY <1>0, <1>6, SendRowIs
  <2>3. CASE BeforePhoto
    <3>1. PICK k \in 1..Len(toHost) + 1 : PhotoAt(k)
      BY <2>3 DEF BeforePhoto
    <3>2. k <= Len(toHost) /\ toHost[k] = TAKING_PHOTO
      BY <2>1, <3>1 DEF PhotoAt
    <3>3. k <= Len(toHost') /\ toHost'[k] = TAKING_PHOTO /\ k \in 1..Len(toHost') + 1
      BY <2>2, <3>2, Rows
    <3>4. k > 1 => toHost'[k - 1] = OTHER_TEXT
      <4> SUFFICES ASSUME k > 1 PROVE toHost'[k - 1] = OTHER_TEXT
        OBVIOUS
      <4>1. k - 1 \in 1..Len(toHost) /\ toHost[k - 1] = OTHER_TEXT
        BY <2>2, <3>1, <3>2 DEF PhotoAt
      <4> QED BY <2>2, <4>1
    <3>5. \A j \in 1..k - 2 : toHost'[j] \in {INPUT, PROMPT}
      <4> SUFFICES ASSUME NEW j \in 1..k - 2 PROVE toHost'[j] \in {INPUT, PROMPT}
        OBVIOUS
      <4>1. j \in 1..Len(toHost) /\ toHost[j] \in {INPUT, PROMPT}
        BY <2>2, <3>1, <3>2 DEF PhotoAt
      <4> QED BY <2>2, <4>1
    <3>6. lost' = 0 => RowsAt(k)'
      <4> SUFFICES ASSUME lost' = 0 PROVE RowsAt(k)'
        OBVIOUS
      <4>1. RowsAt(k) /\ k \in Int
        BY <2>1, <3>1 DEF PhotoAt
      <4> QED BY <1>0, <1>6, <4>1, RowsSend
    <3>7. /\ k = 1 => host' = "readline"
          /\ k > 1 => (k % 2 = 0 <=> host' # "ask")
      BY <2>1, <3>1 DEF PhotoAt
    <3>8. PhotoAt(k)'
      BY <2>1, <3>3, <3>4, <3>5, <3>6, <3>7 DEF PhotoAt
    <3>9. BeforePhoto'
      BY <2>1, <2>3, <3>3, <3>8 DEF BeforePhoto, Sent
    <3> QED BY <3>9 DEF LineInv
  <2>4. CASE AfterPhoto
    BY <2>1, <2>4 DEF AfterPhoto, Sent, LineInv
  <2> QED BY <2>1, <2>3, <2>4 DEF LineInv, BeforeGame
<1>7. CASE SayTaken
  <2>1. Say("rows", OTHER_TEXT, "input") /\ robot = "rows" /\ robot' = "input"
        /\ host' = host /\ picture' = picture /\ ~RowsLeft
    BY <1>7 DEF SayTaken, Say
  <2>2. Len(picture) = ROWS
    BY <1>0, <2>1 DEF RowsLeft
  <2>3. CASE BeforePhoto
    <3>1. BeforePhoto'
      BY <1>0, <2>1, <2>2, <2>3, PhotoSay, Lines
    <3> QED BY <3>1 DEF LineInv
  <2>4. CASE AfterPhoto
    BY <2>1, <2>2, <2>4 DEF AfterPhoto, Sent, LineInv
  <2> QED BY <2>1, <2>3, <2>4 DEF LineInv, BeforeGame
<1> QED BY <1>1, <1>2, <1>3, <1>4, <1>5, <1>6, <1>7 DEF Robot

LEMMA LinesHost == TypeInv /\ LineInv /\ Host => LineInv'
<1> SUFFICES ASSUME TypeInv, LineInv, Host PROVE LineInv'
  OBVIOUS
<1>0. TypeOK
  BY DEF TypeInv
<1> DEFINE Frozen == /\ robot' = robot /\ toRobot' = toRobot /\ picture' = picture
                     /\ asks' = asks /\ typed' = typed /\ lost' = lost
\* An item is taken before the game.
<1>1. ASSUME BeforeGame, NEW S, Take(S), Frozen, host' \in Prompting,
             HostSteps[host'] = HostSteps[host] + 1
      PROVE  LineInv'
  <2>1. /\ Len(toHost) \in Nat \ {0} /\ Len(toHost') = Len(toHost) - 1
        /\ \A j \in 1..Len(toHost) - 1 : toHost'[j] = toHost[j + 1]
    BY <1>0, <1>1, TakeIs
  <2>2. /\ robot \in {"input", "prompt", "getchar", "game"} /\ picture = << >>
        /\ host \in Prompting
        /\ \A j \in 1..Len(toHost) : toHost[j] \in {INPUT, PROMPT}
        /\ Len(toHost) + 2 * asks + HostSteps[host] =
              2 * (typed - Len(toRobot)) + RobotSteps[robot]
    BY <1>1 DEF BeforeGame
  <2>3. \A j \in 1..Len(toHost') : toHost'[j] \in {INPUT, PROMPT}
    <3> SUFFICES ASSUME NEW j \in 1..Len(toHost') PROVE toHost'[j] \in {INPUT, PROMPT}
      OBVIOUS
    <3>1. j \in 1..Len(toHost) - 1 /\ j + 1 \in 1..Len(toHost)
      BY <2>1
    <3> QED BY <2>1, <2>2, <3>1
  <2>4. HostSteps[host] \in Nat /\ asks \in Nat
    <3>1. asks \in 0..MaxAsks
      BY <1>0, Zenon DEF TypeOK
    <3> QED BY <2>2, <3>1, Steps DEF Prompting
  <2>5. Len(toHost') + 2 * asks + (HostSteps[host] + 1) =
           Len(toHost) + 2 * asks + HostSteps[host]
    BY <2>1, <2>4
  <2>6. Len(toHost') + 2 * asks' + HostSteps[host'] =
           2 * (typed' - Len(toRobot')) + RobotSteps[robot']
    BY <1>1, <2>2, <2>5
  <2>7. BeforeGame'
    BY <1>1, <2>2, <2>3, <2>6 DEF BeforeGame
  <2> QED BY <2>7 DEF LineInv
\* An item is taken before the photo's line.
<1>2. ASSUME BeforePhoto, NEW k \in 2..Len(toHost) + 1, PhotoAt(k), NEW S, Take(S),
             Frozen, host' \in Prompting, k - 1 = 1 => host' = "readline",
             k - 1 > 1 => ((k - 1) % 2 = 0 <=> host' # "ask")
      PROVE  LineInv'
  <2>1. k - 1 \in 1..Len(toHost') + 1 /\ PhotoAt(k - 1)'
    BY <1>0, <1>2, PhotoTake
  <2>2. BeforePhoto'
    BY <1>2, <2>1 DEF BeforePhoto, Sent
  <2> QED BY <2>2 DEF LineInv
<1>3. ASSUME BeforePhoto
      PROVE  \E k \in 1..Len(toHost) + 1 : PhotoAt(k) /\ Len(toHost) \in Nat
  BY <1>0, <1>3, Lengths DEF BeforePhoto
<1>4. CASE ReadLine
  <2>1. host = "readline" /\ Frozen
    BY <1>4 DEF ReadLine, history
  <2>2. PICK S : /\ Take(S)
                 /\ \/ S = {INPUT} /\ host' = "ask"
                    \/ S = {TAKING_PHOTO} /\ host' = "sync"
                    \/ S = {OTHER_TEXT} /\ host' = host
    BY <1>4 DEF ReadLine
  <2>3. toHost[1] \in S /\ Len(toHost) \in Nat \ {0}
    BY <1>0, <2>2, TakeIs
  <2>4. CASE BeforeGame
    <3>1. toHost[1] \in {INPUT, PROMPT}
      BY <2>3, <2>4 DEF BeforeGame
    <3>2. host' = "ask"
      BY <2>2, <2>3, <3>1, Lines
    <3>3. HostSteps[host'] = HostSteps[host] + 1 /\ host' \in Prompting
      BY <2>1, <3>2, Steps DEF Prompting
    <3> QED BY <1>1, <2>1, <2>2, <2>4, <3>3
  <2>5. CASE BeforePhoto
    <3>1. PICK k \in 1..Len(toHost) + 1 : PhotoAt(k)
      BY <1>3, <2>5
    <3>2. CASE k = 1
      <4>1. toHost[1] = TAKING_PHOTO /\ robot # "photo"
        BY <2>3, <3>1, <3>2 DEF PhotoAt
      <4>2. host' = "sync"
        BY <2>2, <2>3, <4>1, Lines
      <4> QED BY <2>1, <2>5, <4>1, <4>2 DEF BeforePhoto, AfterPhoto, Sent, LineInv, Prompting
    <3>3. CASE k > 1
      <4>1. k \in 2..Len(toHost) + 1
        BY <3>3
      <4>2. k % 2 = 0 /\ toHost[k - 1] = OTHER_TEXT
            /\ \A j \in 1..k - 2 : toHost[j] \in {INPUT, PROMPT}
        BY <2>1, <3>1, <3>3 DEF PhotoAt
      <4>3. CASE k = 2
        <5>1. toHost[1] = OTHER_TEXT
          BY <4>2, <4>3
        <5>2. host' = "readline"
          BY <2>1, <2>2, <2>3, <5>1, Lines
        <5>3. host' \in Prompting /\ (k - 1 = 1 => host' = "readline") /\ ~(k - 1 > 1)
          BY <4>3, <5>2 DEF Prompting
        <5> QED BY <1>2, <2>1, <2>2, <2>5, <3>1, <4>1, <5>3
      <4>4. CASE k # 2
        <5>1. k - 1 > 1 /\ (k - 1) % 2 = 1 /\ 1 \in 1..k - 2
          BY <4>1, <4>2, <4>4
        <5>2. host' = "ask"
          BY <2>2, <2>3, <4>2, <5>1, Lines
        <5>3. host' \in Prompting /\ ~(k - 1 = 1) /\ ((k - 1) % 2 = 0 <=> host' # "ask")
          BY <5>1, <5>2 DEF Prompting
        <5> QED BY <1>2, <2>1, <2>2, <2>5, <3>1, <4>1, <5>3
      <4> QED BY <4>3, <4>4
    <3> QED BY <3>2, <3>3
  <2>6. ~AfterPhoto
    BY <2>1 DEF AfterPhoto, Prompting
  <2> QED BY <2>4, <2>5, <2>6 DEF LineInv
<1>5. CASE Ask
  <2>1. host = "ask" /\ host' = "input" /\ Take(Text) /\ Frozen
    BY <1>5 DEF Ask, history
  <2>2. CASE BeforeGame
    <3>1. HostSteps[host'] = HostSteps[host] + 1 /\ host' \in Prompting
      BY <2>1, Steps DEF Prompting
    <3> QED BY <1>1, <2>1, <2>2, <3>1
  <2>3. CASE BeforePhoto
    <3>1. PICK k \in 1..Len(toHost) + 1 : PhotoAt(k) /\ Len(toHost) \in Nat
      BY <1>3, <2>3
    <3>2. k # 1 /\ (k > 1 => ~(k % 2 = 0))
      BY <2>1, <3>1 DEF PhotoAt
    <3>3. k \in 2..Len(toHost) + 1 /\ k - 1 # 1 /\ (k - 1) % 2 = 0
      <4>1. k > 1
        BY <3>1, <3>2
      <4>2. k # 2 /\ (k - 1) % 2 = 0
        BY <3>2, <4>1
      <4> QED BY <3>1, <4>1, <4>2
    <3>4. host' \in Prompting /\ ((k - 1) % 2 = 0 <=> host' # "ask")
      BY <2>1, <3>3 DEF Prompting
    <3> QED BY <1>2, <2>1, <2>3, <3>1, <3>3, <3>4
  <2>4. ~AfterPhoto
    BY <2>1 DEF AfterPhoto, Prompting
  <2> QED BY <2>2, <2>3, <2>4 DEF LineInv
\* The picture is read.
<1>6. CASE Sync \/ Synchronised \/ ReadByte \/ ReadSize \/ StoreRow
  <2>1. host \notin Prompting /\ host' \notin Prompting /\ robot' = robot /\ picture' = picture
    <3>1. CASE StoreRow
      BY <3>1, StoreRowHost DEF StoreRow, Prompting
    <3>2. CASE Sync \/ Synchronised \/ ReadByte \/ ReadSize
      BY <3>2 DEF Sync, Synchronised, ReadByte, ReadSize, Prompting
    <3> QED BY <1>6, <3>1, <3>2
  <2>2. AfterPhoto
    BY <2>1 DEF LineInv, BeforeGame, BeforePhoto
  <2> QED BY <2>1, <2>2 DEF AfterPhoto, Sent, LineInv
<1> QED BY <1>4, <1>5, <1>6 DEF Host

LEMMA LinesStep == TypeInv /\ LineInv /\ [Next]_vars => LineInv'
<1> SUFFICES ASSUME TypeInv, LineInv, [Next]_vars PROVE LineInv'
  OBVIOUS
<1>0. TypeOK
  BY DEF TypeInv
<1>1. CASE Robot
  BY <1>1, LinesRobot
<1>2. CASE Host
  BY <1>2, LinesHost
<1>3. ASSUME NEW line \in Typed, Answer(line) PROVE LineInv'
  <2>1. /\ host = "input" /\ host' = "readline" /\ asks' = asks + 1
        /\ typed' = typed + Len(toRobot') - Len(toRobot)
        /\ robot' = robot /\ toHost' = toHost /\ picture' = picture /\ lost' = lost
    BY <1>3 DEF Answer
  <2>2. CASE BeforeGame
    <3>1. /\ typed \in Nat /\ asks \in Nat /\ Len(toRobot) \in Nat /\ Len(toRobot') \in Nat
      <4>1. typed \in Nat /\ asks \in 0..MaxAsks
        BY <1>0, Zenon DEF TypeOK
      <4>2. Len(toRobot') \in Nat
        BY <1>0, <1>3, ReceivedIs, LenProperties DEF Answer
      <4> QED BY <1>0, <4>1, <4>2, Lengths
    <3>2. typed' - Len(toRobot') = typed - Len(toRobot)
      BY <2>1, <3>1
    <3>3. /\ picture = << >> /\ robot \in {"input", "prompt", "getchar", "game"}
          /\ \A j \in 1..Len(toHost) : toHost[j] \in {INPUT, PROMPT}
          /\ Len(toHost) + 2 * asks + HostSteps[host] =
                2 * (typed - Len(toRobot)) + RobotSteps[robot]
      BY <2>2 DEF BeforeGame
    <3>4. Len(toHost) + 2 * asks + HostSteps[host] =
             Len(toHost') + 2 * asks' + HostSteps[host']
      <4>1. Len(toHost) \in Nat
        BY <1>0, Lengths
      <4>2. Len(toHost) + 2 * asks + 2 = Len(toHost) + 2 * (asks + 1) + 0
        BY <3>1, <4>1
      <4> QED BY <2>1, <4>2, Steps
    <3>5. Len(toHost') + 2 * asks' + HostSteps[host'] =
             2 * (typed' - Len(toRobot')) + RobotSteps[robot']
      BY <2>1, <3>2, <3>3, <3>4
    <3>6. BeforeGame'
      BY <2>1, <3>3, <3>5 DEF BeforeGame, Prompting
    <3> QED BY <3>6 DEF LineInv
  <2>3. CASE BeforePhoto
    <3>1. PICK k \in 1..Len(toHost) + 1 : PhotoAt(k)
      BY <2>3 DEF BeforePhoto
    <3>2. /\ k = 1 => host' = "readline"
          /\ k > 1 => (k % 2 = 0 <=> host' # "ask")
      BY <2>1, <3>1 DEF PhotoAt
    <3>3. PhotoAt(k)'
      BY <2>1, <3>1, <3>2, PhotoSame
    <3>4. BeforePhoto'
      BY <2>1, <2>3, <3>3 DEF BeforePhoto, Sent, Prompting
    <3> QED BY <3>4 DEF LineInv
  <2>4. ~AfterPhoto
    BY <2>1 DEF AfterPhoto, Prompting
  <2> QED BY <2>2, <2>3, <2>4 DEF LineInv
<1>4. ASSUME NEW i \in DOMAIN toHost, LoseByte(i) PROVE LineInv'
  <2>1. /\ i \in 1..Len(toHost) /\ Len(toHost) \in Nat /\ toHost[i] \notin Text
        /\ Len(toHost') = Len(toHost) - 1
        /\ \A j \in 1..i - 1 : toHost'[j] = toHost[j]
        /\ lost' # 0
        /\ robot' = robot /\ host' = host /\ picture' = picture
    BY <1>0, <1>4, LoseByteIs
  <2>2. CASE BeforeGame
    <3>1. toHost[i] \in {INPUT, PROMPT}
      BY <2>1, <2>2 DEF BeforeGame
    <3> QED BY <2>1, <3>1, Lines
  <2>3. CASE BeforePhoto
    <3>1. PICK k \in 1..Len(toHost) + 1 : PhotoAt(k)
      BY <2>3 DEF BeforePhoto
    <3>2. ASSUME i < k PROVE FALSE
      <4>1. CASE i = k - 1
        <5>1. k > 1
          BY <2>1, <4>1
        <5>2. toHost[i] = OTHER_TEXT
          BY <3>1, <4>1, <5>1 DEF PhotoAt
        <5> QED BY <2>1, <5>2, Lines
      <4>2. CASE i # k - 1
        <5>1. i \in 1..k - 2
          BY <2>1, <3>2, <4>2
        <5>2. toHost[i] \in {INPUT, PROMPT}
          BY <3>1, <5>1 DEF PhotoAt
        <5> QED BY <2>1, <5>2, Lines
      <4> QED BY <4>1, <4>2
    <3>3. robot # "photo" /\ k < i /\ toHost[k] = TAKING_PHOTO
      <4>1. robot # "photo"
        <5> SUFFICES ASSUME robot = "photo" PROVE FALSE
          OBVIOUS
        <5>1. k = Len(toHost) + 1
          BY <3>1 DEF PhotoAt
        <5> QED BY <2>1, <3>2, <5>1
      <4>2. toHost[k] = TAKING_PHOTO
        BY <3>1, <4>1 DEF PhotoAt
      <4>3. i # k
        BY <2>1, <4>2, Lines
      <4> QED BY <2>1, <3>2, <4>1, <4>2, <4>3
    <3>4. k <= Len(toHost') /\ toHost'[k] = TAKING_PHOTO /\ k \in 1..Len(toHost') + 1
      BY <2>1, <3>3
    <3>5. k > 1 => toHost'[k - 1] = OTHER_TEXT
      <4> SUFFICES ASSUME k > 1 PROVE toHost'[k - 1] = OTHER_TEXT
        OBVIOUS
      <4>1. k - 1 \in 1..i - 1 /\ toHost[k - 1] = OTHER_TEXT
        BY <2>1, <3>1, <3>3 DEF PhotoAt
      <4> QED BY <2>1, <4>1
    <3>6. \A j \in 1..k - 2 : toHost'[j] \in {INPUT, PROMPT}
      <4> SUFFICES ASSUME NEW j \in 1..k - 2 PROVE toHost'[j] \in {INPUT, PROMPT}
        OBVIOUS
      <4>1. j \in 1..i - 1 /\ toHost[j] \in {INPUT, PROMPT}
        BY <2>1, <3>1, <3>3 DEF PhotoAt
      <4> QED BY <2>1, <4>1
    <3>7. /\ k = 1 => host' = "readline"
          /\ k > 1 => (k % 2 = 0 <=> host' # "ask")
      BY <2>1, <3>1 DEF PhotoAt
    <3>8. PhotoAt(k)'
      BY <2>1, <3>3, <3>4, <3>5, <3>6, <3>7 DEF PhotoAt
    <3>9. BeforePhoto'
      BY <2>1, <2>3, <3>4, <3>8 DEF BeforePhoto, Sent
    <3> QED BY <3>9 DEF LineInv
  <2>4. CASE AfterPhoto
    BY <2>1, <2>4 DEF AfterPhoto, Sent, LineInv
  <2> QED BY <2>2, <2>3, <2>4 DEF LineInv
<1>5. CASE UNCHANGED vars
  <2>1. /\ robot' = robot /\ host' = host /\ toHost' = toHost /\ toRobot' = toRobot
        /\ picture' = picture /\ asks' = asks /\ typed' = typed /\ lost' = lost
    BY <1>5 DEF vars, history
  <2>2. CASE BeforeGame
    <3>1. BeforeGame'
      BY <2>1, <2>2 DEF BeforeGame
    <3> QED BY <3>1 DEF LineInv
  <2>3. CASE BeforePhoto
    <3>1. PICK k \in 1..Len(toHost) + 1 : PhotoAt(k)
      BY <2>3 DEF BeforePhoto
    <3>2. /\ k = 1 => host' = "readline"
          /\ k > 1 => (k % 2 = 0 <=> host' # "ask")
      BY <2>1, <3>1 DEF PhotoAt
    <3>3. PhotoAt(k)'
      BY <2>1, <3>1, <3>2, PhotoSame
    <3>4. BeforePhoto'
      BY <2>1, <2>3, <3>3 DEF BeforePhoto, Sent
    <3> QED BY <3>4 DEF LineInv
  <2>4. CASE AfterPhoto
    BY <2>1, <2>4 DEF AfterPhoto, Sent, LineInv
  <2> QED BY <2>2, <2>3, <2>4 DEF LineInv
<1> QED BY <1>1, <1>2, <1>3, <1>4, <1>5 DEF Next, User

\* The robot waits for a character and the PC for a line only if the user
\* typed an empty line, or one for which the queue was full, and nothing left
\* over from an earlier one makes up for it: otherwise every prompt finds its
\* character (console.c:95-98, 2puck.py:61-67).
THEOREM PromptsFindCharacters == Spec => []OnlyEmptyLinesStall
<1>1. Spec => [](TypeInv /\ LineInv)
  BY TypesInit, LinesInit, TypesStep, LinesStep, PTL DEF Spec
<1>2. TypeInv /\ LineInv => OnlyEmptyLinesStall
  <2> SUFFICES ASSUME TypeInv, LineInv, Stuck PROVE typed < asks
    BY DEF OnlyEmptyLinesStall
  <2>0. TypeOK
    BY DEF TypeInv
  <2>1. /\ robot = "getchar" /\ toRobot = << >> /\ host = "readline" /\ toHost = << >>
    BY DEF Stuck
  <2>2. Len(toHost) = 0 /\ Len(toRobot) = 0
    BY <2>1, EmptySeq
  <2>3. CASE BeforeGame
    <3>1. Len(toHost) + 2 * asks + HostSteps[host] =
             2 * (typed - Len(toRobot)) + RobotSteps[robot]
      BY <2>3 DEF BeforeGame
    <3>2. 0 + 2 * asks + 0 = 2 * (typed - 0) + 2
      BY <2>1, <2>2, <3>1, Steps
    <3>3. typed \in Nat /\ asks \in 0..MaxAsks
      BY <2>0, Zenon DEF TypeOK
    <3> QED BY <3>2, <3>3
  <2>4. CASE BeforePhoto
    <3>1. PICK k \in 1..Len(toHost) + 1 : PhotoAt(k)
      BY <2>4 DEF BeforePhoto
    <3>2. k <= Len(toHost)
      BY <2>1, <3>1 DEF PhotoAt
    <3> QED BY <2>2, <3>2
  <2>5. ~AfterPhoto
    BY <2>1 DEF AfterPhoto, Prompting
  <2> QED BY <2>3, <2>4, <2>5 DEF LineInv
<1> QED BY <1>1, <1>2, PTL

-----------------------------------------------------------------------------
(***************************************************************************)
(* The picture.                                                            *)
(***************************************************************************)
\* How much of its row the PC has taken.
LEMMA TakenIs ==
    /\ host = "sync" => Taken = state
    /\ host = "size" => Taken = 5 + Len(read)
    /\ host = "data" => Taken = 7 + Len(read)
BY DEF Taken

LEMMA TakenInt ==
    ASSUME TypeOK
    PROVE  Taken \in Nat /\ Off(Len(data)) \in Nat /\ Len(data) \in Nat
           /\ Off(Len(data) + 1) = Off(Len(data)) + RowLen + 7
           /\ Off(Len(data)) + Taken \in Nat /\ -(Off(Len(data)) + Taken) \in Int
<1>1. state \in 0..5
  BY Zenon DEF TypeOK
<1>2. Len(read) \in Nat /\ Len(data) \in Nat
  BY Lengths
<1>3. Taken \in Nat
  BY <1>1, <1>2 DEF Taken
<1>4. Off(Len(data)) \in Nat /\ Off(Len(data) + 1) = Off(Len(data)) + RowLen + 7
  BY <1>2, OffIs, Zenon
<1> QED BY <1>2, <1>3, <1>4

\* More rows take more of the line.
LEMMA OffEqual ==
    ASSUME NEW m \in Nat, NEW n \in Nat, Off(m) # Off(n)
    PROVE  m # n
BY DEF Off

\* While a row is under way, the robot has sent it.
LEMMA RowSent ==
    ASSUME TypeInv, LineInv, lost = 0, ReceiveInv, host \in Receiving,
           Taken + Len(toHost) > 0
    PROVE  Len(data) < Len(picture)
<1>0. TypeOK /\ HostInv
  BY DEF TypeInv
<1>1. /\ Len(data) \in Nat /\ Len(picture) \in Nat /\ Len(toHost) \in Nat
      /\ Off(Len(data)) \in Nat /\ Off(Len(picture)) \in Nat /\ Taken \in Nat
  BY <1>0, Lengths, TakenInt
<1>2. Len(data) <= Len(picture) /\ Len(data) < height
  BY <1>0 DEF ReceiveInv, RowsRight, HostInv
<1>3. CASE robot = "rows"
  <2>1. -(Off(Len(data)) + Taken) + Off(Len(picture)) = Len(toHost)
    BY <1>3 DEF ReceiveInv, RestOnLine, RowsAt
  <2>2. Off(Len(picture)) # Off(Len(data))
    BY <1>1, <2>1
  <2>3. Len(picture) # Len(data)
    BY <2>2
  <2> QED BY <1>1, <1>2, <2>3
<1>4. CASE robot # "rows"
  <2>1. AfterPhoto
    BY DEF LineInv, BeforeGame, BeforePhoto, Prompting, Receiving
  <2>2. Len(picture) = ROWS
    BY <1>4, <2>1 DEF AfterPhoto, Sent
  <2> QED BY <1>1, <1>2, <2>2, Rows
<1> QED BY <1>3, <1>4

\* The next item is the next byte of the row's frame.
LEMMA NextByte ==
    ASSUME TypeInv, LineInv, lost = 0, ReceiveInv, host \in Receiving,
           NEW S, Take(S), Taken < RowLen + 7
    PROVE  /\ Len(data) + 1 \in 1..Len(picture)
           /\ picture[Len(data) + 1] \in RowBytes
           /\ Head(toHost) = Frame(picture[Len(data) + 1])[Taken + 1]
<1>0. TypeOK
  BY DEF TypeInv
<1>1. Len(toHost) \in Nat \ {0} /\ Head(toHost) = toHost[1]
  BY <1>0, TakeIs
<1>2. /\ Taken \in Nat /\ Off(Len(data)) \in Nat /\ Len(data) \in Nat
      /\ Len(picture) \in Nat
  BY <1>0, TakenInt, Lengths
<1>3. Len(data) < Len(picture)
  BY <1>1, <1>2, RowSent
<1>4. PICK r \in 1..Len(picture) : r = Len(data) + 1 /\ r - 1 = Len(data)
  <2>1. Len(data) + 1 \in 1..Len(picture) /\ (Len(data) + 1) - 1 = Len(data)
    BY <1>2, <1>3
  <2> QED BY <2>1
<1>5. PICK q \in 1..RowLen + 7 : q = Taken + 1
  <2>1. Taken + 1 \in 1..RowLen + 7
    BY <1>2, Rows
  <2> QED BY <2>1
<1>6. picture[r] \in RowBytes
  <2>1. picture \in Seq(RowBytes)
    BY <1>0, Zenon DEF TypeOK
  <2> QED BY <2>1, ElementOfSeq
<1> DEFINE D == -(Off(Len(data)) + Taken)
<1>7. D + Off(r - 1) + q = 1
  <2>1. Off(r - 1) = Off(Len(data))
    BY <1>4
  <2> QED BY <1>2, <1>5, <2>1
<1>8. RowsAt(D)
  BY DEF ReceiveInv, RestOnLine
<1> HIDE DEF D
<1>9. 1 <= D + Off(r - 1) + q =>
         toHost[D + Off(r - 1) + q] = Frame(picture[r])[q]
  BY <1>8 DEF RowsAt
<1>10. toHost[1] = Frame(picture[r])[q]
  BY <1>7, <1>9
<1> QED BY <1>1, <1>4, <1>5, <1>6, <1>10

\* Where the rest of the picture is, after a step.
LEMMA RestIs ==
    ASSUME NEW E \in Int, RowsAt(E)', E = -(Off(Len(data')) + Taken')
    PROVE  RestOnLine'
<1>1. RowsAt(-(Off(Len(data)) + Taken))'
  BY DEF RowsAt
<1> QED BY <1>1 DEF RestOnLine

\* The row goes on, by a byte.
LEMMA RestTake ==
    ASSUME TypeOK, NEW S, Take(S), UNCHANGED <<robot, picture, data>>,
           RestOnLine, host \in Receiving, Taken' = Taken + 1
    PROVE  RestOnLine'
<1>1. Taken \in Nat /\ Off(Len(data)) \in Nat
  BY TakenInt
<1>2. PICK D \in Int : D = -(Off(Len(data)) + Taken)
  BY <1>1
<1>3. RowsAt(D)
  BY <1>2 DEF RestOnLine
<1>4. RowsAt(D - 1)'
  BY <1>3, RowsTake
<1>5. D - 1 \in Int /\ D - 1 = -(Off(Len(data')) + Taken')
  <2>1. D - 1 = -(Off(Len(data)) + (Taken + 1))
    BY <1>1, <1>2
  <2> QED BY <2>1
<1> QED BY <1>4, <1>5, RestIs

\* What the robot does leaves the PC's rows right.
LEMMA ReceiveRobot == TypeInv /\ LineInv /\ ReceiveInv /\ Robot => ReceiveInv'
<1> SUFFICES ASSUME TypeInv, LineInv, ReceiveInv, Robot, lost' = 0
             PROVE  (host # "failed" /\ RowsRight /\ RowSoFar /\ RestOnLine)'
  BY DEF ReceiveInv
<1>0. TypeOK
  BY DEF TypeInv
<1>1. /\ host' = host /\ data' = data /\ read' = read /\ size' = size /\ state' = state
      /\ lost = 0
  BY DEF Robot, SayInput, SayPrompt, GetChar, PlayGame, SayPhoto, SendRow, SayTaken,
         Say, reader, history
<1>2. host # "failed" /\ RowsRight /\ RowSoFar /\ RestOnLine
  BY <1>1 DEF ReceiveInv
<1>3. /\ Len(picture) \in Nat /\ Len(data) \in Nat /\ Taken \in Nat /\ Len(toHost) \in Nat
      /\ -(Off(Len(data)) + Taken) \in Int
  BY <1>0, Lengths, TakenInt
<1>4. /\ Len(picture') \in Nat /\ Len(picture) <= Len(picture')
      /\ \A r \in 1..Len(picture) : picture'[r] = picture[r]
  <2>1. ASSUME NEW bytes \in RowBytes, SendRow(bytes)
        PROVE  /\ Len(picture') = Len(picture) + 1
               /\ \A r \in 1..Len(picture) : picture'[r] = picture[r]
    BY <1>0, <2>1, SendRowIs
  <2>2. ASSUME ~(\E bytes \in RowBytes : SendRow(bytes)) PROVE picture' = picture
    BY <2>2 DEF Robot, SayInput, SayPrompt, GetChar, PlayGame, SayPhoto, SayTaken, Say
  <2> QED BY <1>3, <2>1, <2>2
<1>5. RowsRight'
  BY <1>1, <1>2, <1>3, <1>4 DEF RowsRight
<1>6. RowSoFar'
  <2>1. ASSUME host = "data" PROVE Len(data) + 1 \in 1..Len(picture)
    <3>1. Taken + Len(toHost) > 0
      <4>1. Len(read) \in Nat
        BY <1>0, Lengths
      <4>2. Taken > 0
        BY <2>1, <4>1, TakenIs
      <4> QED BY <1>3, <4>2
    <3>2. Len(data) < Len(picture)
      BY <1>1, <2>1, <3>1, RowSent DEF Receiving
    <3> QED BY <1>3, <3>2
  <2>2. host = "data" => picture'[Len(data) + 1] = picture[Len(data) + 1]
    BY <1>4, <2>1
  <2> QED BY <1>1, <1>2, <2>2 DEF RowSoFar
<1>7. RestOnLine'
  <2>1. CASE host \notin Receiving
    BY <1>1, <2>1 DEF RestOnLine
  <2>2. CASE host \in Receiving
    <3>1. PICK D \in Int : D = -(Off(Len(data)) + Taken)
      BY <1>3
    <3>2. RowsAt(D)
      BY <1>2, <2>2, <3>1 DEF RestOnLine
    <3>3. robot \notin {"game", "photo"}
      BY <2>2 DEF LineInv, BeforeGame, BeforePhoto, AfterPhoto, Prompting, Receiving
    <3>4. RowsAt(D)'
      <4>1. CASE SayInput
        BY <1>0, <3>2, <4>1, RowsSay, Lines DEF SayInput
      <4>2. CASE SayPrompt
        BY <1>0, <3>2, <4>2, RowsSay, Lines DEF SayPrompt
      <4>3. CASE GetChar
        <5>1. toHost' = toHost /\ picture' = picture /\ robot' # "rows"
          BY <4>3 DEF GetChar
        <5> QED BY <3>2, <5>1, RowsSame
      <4>4. CASE PlayGame \/ SayPhoto
        BY <3>3, <4>4 DEF PlayGame, SayPhoto, Say
      <4>5. ASSUME NEW bytes \in RowBytes, SendRow(bytes) PROVE RowsAt(D)'
        BY <1>0, <3>2, <4>5, RowsSend
      <4>6. CASE SayTaken
        BY <1>0, <3>2, <4>6, RowsSay, Lines DEF SayTaken
      <4> QED BY <4>1, <4>2, <4>3, <4>4, <4>5, <4>6 DEF Robot
    <3>5. Taken' = Taken
      BY <1>1 DEF Taken
    <3>6. D = -(Off(Len(data')) + Taken')
      BY <1>1, <3>1, <3>5
    <3> QED BY <3>4, <3>6, RestIs
  <2> QED BY <2>1, <2>2
<1> QED BY <1>1, <1>2, <1>5, <1>6, <1>7

LEMMA ReceivePrompt ==
    TypeInv /\ LineInv /\ ReceiveInv /\ (ReadLine \/ Ask) => ReceiveInv'
<1> SUFFICES ASSUME TypeInv, LineInv, ReceiveInv, ReadLine \/ Ask, lost' = 0
             PROVE  (host # "failed" /\ RowsRight /\ RowSoFar /\ RestOnLine)'
  BY DEF ReceiveInv
<1>0. TypeOK /\ HostInv
  BY DEF TypeInv
<1>1. /\ robot' = robot /\ data' = data /\ read' = read /\ size' = size
      /\ state' = state /\ picture' = picture /\ lost' = lost /\ host \in Prompting
      /\ host' \in {"readline", "ask", "input", "sync"}
  BY DEF ReadLine, Ask, reader, history, Prompting
<1>2. data = << >> /\ state = 0 /\ Len(data) = 0 /\ Len(picture) \in Nat
  <2>1. data = << >> /\ state = 0
    BY <1>0, <1>1 DEF HostInv, Prompting
  <2> QED BY <1>0, <2>1, EmptySeq, Lengths
<1>3. RowsRight'
  BY <1>1, <1>2 DEF RowsRight
<1>4. host' # "failed" /\ RowSoFar'
  BY <1>1 DEF RowSoFar
<1>5. RestOnLine'
  <2>1. CASE host' \in Prompting
    BY <2>1 DEF RestOnLine, Prompting, Receiving
  <2>2. CASE host' = "sync"
    <3>1. Take({TAKING_PHOTO}) /\ host = "readline"
      BY <1>1, <2>2 DEF ReadLine, Ask, Prompting
    <3>2. toHost[1] = TAKING_PHOTO /\ Len(toHost) \in Nat \ {0}
      BY <1>0, <3>1, TakeIs
    <3>3. BeforePhoto
      <4>1. ASSUME BeforeGame PROVE FALSE
        <5>1. toHost[1] \in {INPUT, PROMPT}
          BY <3>2, <4>1 DEF BeforeGame
        <5> QED BY <3>2, <5>1, Lines
      <4> QED BY <1>1, <4>1 DEF LineInv, AfterPhoto
    <3>4. PICK k \in 1..Len(toHost) + 1 : PhotoAt(k)
      BY <3>3 DEF BeforePhoto
    <3>5. k = 1
      <4>1. ASSUME k = 2 PROVE FALSE
        <5>1. toHost[k - 1] = OTHER_TEXT /\ k - 1 = 1
          BY <3>4, <4>1 DEF PhotoAt
        <5> QED BY <3>2, <5>1, Lines
      <4>2. ASSUME k > 2 PROVE FALSE
        <5>1. 1 \in 1..k - 2
          BY <4>2
        <5>2. toHost[1] \in {INPUT, PROMPT}
          BY <3>4, <5>1 DEF PhotoAt
        <5> QED BY <3>2, <5>2, Lines
      <4> QED BY <3>2, <4>1, <4>2
    <3>6. robot # "photo"
      BY <3>2, <3>4, <3>5 DEF PhotoAt
    <3>7. RowsAt(k)
      BY <1>1, <3>4, <3>6 DEF PhotoAt
    <3>8. RowsAt(k - 1)'
      BY <1>0, <1>1, <3>1, <3>5, <3>7, RowsTake
    <3>9. k - 1 \in Int /\ k - 1 = -(Off(Len(data')) + Taken')
      <4>1. Taken' = 0
        BY <1>1, <1>2, <2>2 DEF Taken
      <4>2. Off(Len(data')) = 0
        BY <1>1, <1>2, OffIs
      <4>3. Off(Len(data')) + Taken' = 0 /\ k - 1 = 0
        BY <3>5, <4>1, <4>2
      <4> QED BY <4>3
    <3> QED BY <3>8, <3>9, RestIs
  <2> QED BY <1>1, <2>1, <2>2 DEF Prompting
<1> QED BY <1>3, <1>4, <1>5

LEMMA ReceiveByte ==
    TypeInv /\ LineInv /\ ReceiveInv /\ (Sync \/ ReadByte) => ReceiveInv'
<1> SUFFICES ASSUME TypeInv, LineInv, ReceiveInv, Sync \/ ReadByte, lost' = 0
             PROVE  (host # "failed" /\ RowsRight /\ RowSoFar /\ RestOnLine)'
  BY DEF ReceiveInv
<1>0. TypeOK /\ HostInv
  BY DEF TypeInv
<1>1. /\ robot' = robot /\ data' = data /\ size' = size /\ picture' = picture
      /\ lost = 0 /\ host' = host /\ host \in Receiving /\ Take(Item)
      /\ read' = Append(read, Head(toHost))
  BY DEF Sync, ReadByte, history, Receiving
<1>2. host # "failed" /\ RowsRight /\ RowSoFar /\ RestOnLine
  BY <1>1 DEF ReceiveInv
<1> DEFINE b == Head(toHost)
           len == Len(read)
           row == picture[Len(data) + 1]
<1>3. /\ len \in Nat /\ Len(read') = len + 1 /\ read'[len + 1] = b
      /\ \A i \in 1..len : read'[i] = read[i]
  <2>1. read \in Seq(Item)
    BY <1>0, Zenon DEF TypeOK
  <2>2. b \in Item
    BY <1>0, <1>1, TakeIs
  <2> QED BY <1>1, <2>1, <2>2, AppendProperties, LenProperties
<1>4. Taken < RowLen + 7
  <2>1. CASE Sync
    <3>1. state \in 0..5
      BY <1>0, Zenon DEF TypeOK
    <3>2. Taken = state
      BY <2>1, TakenIs DEF Sync
    <3> QED BY <3>1, <3>2, Rows
  <2>2. CASE ReadByte
    <3>1. CASE host = "size"
      <4>1. len < 2 /\ Taken = 5 + len
        BY <2>2, <3>1, TakenIs DEF ReadByte
      <4> HIDE DEF len
      <4> QED BY <1>3, <4>1, Rows
    <3>2. CASE host = "data"
      <4>1. len < size /\ size = RowLen /\ Taken = 7 + len
        BY <1>2, <2>2, <3>2, TakenIs DEF ReadByte, RowSoFar
      <4> HIDE DEF len
      <4> QED BY <1>3, <4>1, Rows
    <3> QED BY <2>2, <3>1, <3>2 DEF ReadByte
  <2> QED BY <2>1, <2>2
<1>5. /\ Len(data) + 1 \in 1..Len(picture) /\ row \in RowBytes
      /\ b = Frame(row)[Taken + 1]
  BY <1>1, <1>4, NextByte
<1>6. /\ \A q \in 1..5 : Frame(row)[q] = START[q]
      /\ Frame(row)[6] = Low /\ Frame(row)[7] = High
      /\ \A q \in 1..RowLen : Frame(row)[q + 7] = row[q]
  BY <1>5, FrameIs
<1> HIDE DEF b, row, len
<1>7. RowsRight'
  BY <1>1, <1>2 DEF RowsRight
<1>8. RowSoFar' /\ Taken' = Taken + 1
  <2>1. CASE Sync
    <3>1. host = "sync" /\ state \in 0..4 /\ state' = SyncNext(state, b)
      <4>1. state \in 0..5
        BY <1>0, Zenon DEF TypeOK
      <4>2. host = "sync" /\ state < 5 /\ state' = SyncNext(state, b)
        BY <2>1 DEF Sync, b
      <4> QED BY <4>1, <4>2
    <3>2. b = Frame(row)[state + 1]
      BY <1>5, <3>1, TakenIs
    <3>3. b = START[state + 1]
      <4>1. state + 1 \in 1..5
        BY <3>1
      <4> QED BY <1>6, <3>2, <4>1
    <3>4. state' = state + 1
      BY <3>1, <3>3 DEF SyncNext
    <3> QED BY <1>1, <3>1, <3>4 DEF RowSoFar, Taken
  <2>2. CASE ReadByte /\ host = "size"
    <3>1. len < 2 /\ Taken = 5 + len
      BY <2>2, TakenIs DEF ReadByte, len
    <3>2. Taken' = Taken + 1
      BY <1>1, <1>3, <2>2, <3>1 DEF Taken
    <3>3. CASE len = 0
      <4>1. Taken + 1 = 6
        BY <3>1, <3>3
      <4>2. read'[1] = Low /\ Len(read') = 1
        BY <1>3, <1>5, <1>6, <3>3, <4>1
      <4> QED BY <1>1, <2>2, <3>2, <4>2 DEF RowSoFar
    <3>4. CASE len = 1
      <4>1. Taken + 1 = 7
        BY <3>1, <3>4
      <4>2. read'[2] = High /\ Len(read') = 2
        BY <1>3, <1>5, <1>6, <3>4, <4>1
      <4>3. read'[1] = Low
        <5>1. read[1] = Low
          BY <1>2, <2>2, <3>4 DEF RowSoFar, len
        <5> QED BY <1>3, <3>4, <5>1
      <4> QED BY <1>1, <2>2, <3>2, <4>2, <4>3 DEF RowSoFar
    <3> QED BY <1>3, <3>1, <3>3, <3>4
  <2>3. CASE ReadByte /\ host = "data"
    <3>1. /\ len < size /\ size = RowLen /\ Taken = 7 + len
          /\ \A i \in 1..len : read[i] = row[i]
      BY <1>2, <2>3, TakenIs DEF ReadByte, RowSoFar, len, row
    <3>2. Taken' = Taken + 1
      BY <1>1, <1>3, <2>3, <3>1 DEF Taken
    <3>3. b = row[len + 1]
      <4>1. PICK q \in 1..RowLen : q = len + 1 /\ q + 7 = Taken + 1
        <5>1. len + 1 \in 1..RowLen /\ (len + 1) + 7 = Taken + 1
          BY <1>3, <3>1, Rows
        <5> QED BY <5>1
      <4>2. Frame(row)[q + 7] = row[q]
        BY <1>6
      <4> QED BY <1>5, <4>1, <4>2
    <3>4. \A i \in 1..len + 1 : read'[i] = row[i]
      <4> SUFFICES ASSUME NEW i \in 1..len + 1 PROVE read'[i] = row[i]
        OBVIOUS
      <4>1. CASE i = len + 1
        BY <1>3, <3>3, <4>1
      <4>2. CASE i # len + 1
        <5>1. i \in 1..len
          BY <1>3, <4>2
        <5> QED BY <1>3, <3>1, <5>1
      <4> QED BY <4>1, <4>2
    <3>5. Len(read') <= RowLen
      BY <1>3, <3>1, Rows
    <3>6. picture'[Len(data') + 1] = row
      BY <1>1 DEF row
    <3> QED BY <1>1, <1>3, <2>3, <3>1, <3>2, <3>4, <3>5, <3>6 DEF RowSoFar
  <2> QED BY <2>1, <2>2, <2>3 DEF ReadByte
<1>9. RestOnLine'
  BY <1>0, <1>1, <1>2, <1>8, RestTake
<1> QED BY <1>1, <1>2, <1>7, <1>8, <1>9

\* Nothing is taken from the line.
LEMMA RestSame ==
    ASSUME TypeOK, RestOnLine, host \in Receiving,
           UNCHANGED <<robot, toHost, picture>>,
           Off(Len(data')) + Taken' = Off(Len(data)) + Taken
    PROVE  RestOnLine'
<1>1. PICK D \in Int : D = -(Off(Len(data)) + Taken)
  BY TakenInt
<1>2. RowsAt(D)
  BY <1>1 DEF RestOnLine
<1>3. RowsAt(D)'
  BY <1>2, RowsSame
<1>4. D = -(Off(Len(data')) + Taken')
  BY <1>1
<1> QED BY <1>3, <1>4, RestIs

LEMMA ReceiveDone ==
    TypeInv /\ LineInv /\ ReceiveInv /\ (Synchronised \/ ReadSize \/ StoreRow)
        => ReceiveInv'
<1> SUFFICES ASSUME TypeInv, LineInv, ReceiveInv,
                    Synchronised \/ ReadSize \/ StoreRow, lost' = 0
             PROVE  (host # "failed" /\ RowsRight /\ RowSoFar /\ RestOnLine)'
  BY DEF ReceiveInv
<1>0. TypeOK /\ HostInv
  BY DEF TypeInv
<1>1. /\ robot' = robot /\ toHost' = toHost /\ picture' = picture /\ lost = 0
      /\ read' = << >> /\ host \in Receiving
  BY DEF Synchronised, ReadSize, StoreRow, history, Receiving
<1>2. host # "failed" /\ RowsRight /\ RowSoFar /\ RestOnLine
  BY <1>1 DEF ReceiveInv
<1>3. Len(read') = 0
  BY <1>1, EmptySeq
<1>a. read \in Seq(Item)
  BY <1>0, Zenon DEF TypeOK
<1>4. CASE Synchronised
  <2>1. /\ host = "sync" /\ state = 5 /\ host' = "size" /\ data' = data
    BY <1>4 DEF Synchronised
  <2>2. Taken = 5 /\ Taken' = 5
    BY <1>3, <2>1 DEF Taken
  <2>3. RestOnLine'
    BY <1>0, <1>1, <1>2, <2>1, <2>2, RestSame
  <2>4. RowsRight'
    BY <1>1, <1>2, <2>1 DEF RowsRight
  <2>5. RowSoFar'
    BY <1>3, <2>1 DEF RowSoFar
  <2> QED BY <2>1, <2>3, <2>4, <2>5
<1>5. CASE ReadSize
  <2>1. /\ host = "size" /\ Len(read) = 2 /\ size' = Short(read) /\ data' = data
        /\ host' = IF size' > 0 THEN "data" ELSE IF size' = 0 THEN "failed" ELSE "sync"
    BY <1>5 DEF ReadSize
  <2>2. read[1] = Low /\ read[2] = High
    BY <1>2, <2>1 DEF RowSoFar
  <2>3. size' = RowLen
    BY <1>a, <2>1, <2>2, Short16
  <2>4. host' = "data"
    BY <2>1, <2>3, Rows
  <2>5. Taken = 7 /\ Taken' = 7
    BY <1>3, <2>1, <2>4 DEF Taken
  <2>6. RestOnLine'
    BY <1>0, <1>1, <1>2, <2>1, <2>5, RestSame
  <2>7. RowsRight'
    BY <1>1, <1>2, <2>1 DEF RowsRight
  <2>8. RowSoFar'
    BY <1>3, <2>3, <2>4, Rows DEF RowSoFar
  <2> QED BY <2>4, <2>6, <2>7, <2>8
<1>6. CASE StoreRow
  <2> DEFINE d == Len(data)
             row == picture[d + 1]
  <2>1. /\ host = "data" /\ Len(read) = size /\ data' = Append(data, read)
        /\ host' \in AfterRow(data') /\ state' = state /\ state = 0
    <3>1. host = "data" /\ Len(read) = size /\ state' = state /\ state = 0
      BY <1>0, <1>6 DEF StoreRow, HostInv
    <3>2. size = RowLen
      BY <1>2, <3>1 DEF RowSoFar
    <3>3. ~(size > 1 /\ size % 2 = 1)
      BY <3>2, Rows
    <3> QED BY <1>6, <3>1, <3>3 DEF StoreRow
  <2>2. /\ size = RowLen /\ \A i \in 1..Len(read) : read[i] = row[i]
    BY <1>2, <2>1 DEF RowSoFar
  <2>3. Taken = 7 + RowLen /\ RowLen \in Nat /\ Len(toHost) \in Nat
    BY <1>0, <2>1, <2>2, TakenIs, Rows, Lengths
  <2>4. d + 1 \in 1..Len(picture) /\ d \in Nat /\ Len(picture) \in Nat
    <3>1. d < Len(picture)
      BY <1>1, <2>3, RowSent
    <3> QED BY <1>0, <3>1, Lengths
  <2>5. row \in RowBytes
    <3>1. picture \in Seq(RowBytes)
      BY <1>0, Zenon DEF TypeOK
    <3> QED BY <2>4, <3>1, ElementOfSeq
  <2>6. read = row
    <3>1. row \in Seq(Item) /\ Len(row) = RowLen
      BY <2>5, RowIsSeq
    <3>2. Len(read) = Len(row) /\ \A i \in 1..Len(read) : read[i] = row[i]
      BY <2>1, <2>2, <3>1
    <3> HIDE DEF row
    <3> QED BY <1>a, <3>1, <3>2, SeqEqual
  <2> HIDE DEF row
  <2>7. Len(data') = d + 1 /\ data'[d + 1] = row /\ \A r \in 1..d : data'[r] = data[r]
    <3>1. data \in Seq(Seq(Item))
      BY <1>0, Zenon DEF TypeOK
    <3> QED BY <1>a, <2>1, <2>6, <3>1, AppendProperties
  <2>8. RowsRight'
    <3>1. d <= Len(picture) /\ \A r \in 1..d : data[r] = picture[r]
      BY <1>2 DEF RowsRight
    <3> HIDE DEF d
    <3>2. picture[d + 1] = row
      BY DEF row
    <3>3. ASSUME NEW r \in 1..d + 1 PROVE data'[r] = picture[r]
      <4>1. CASE r = d + 1
        BY <2>7, <3>2, <4>1
      <4>2. CASE r # d + 1
        <5>1. r \in 1..d
          BY <2>4, <4>2
        <5> QED BY <2>7, <3>1, <5>1
      <4> QED BY <4>1, <4>2
    <3>4. Len(data') <= Len(picture)
      BY <2>4, <2>7
    <3> QED BY <1>1, <2>7, <3>3, <3>4 DEF RowsRight
  <2>9. host' \in {"sync", "mailed"}
    <3>1. CASE Len(data') < height
      <4>1. AfterRow(data') = {"sync"}
        BY <3>1 DEF AfterRow
      <4> QED BY <2>1, <4>1
    <3>2. CASE ~(Len(data') < height)
      <4>1. \A r \in DOMAIN data' : Len(data'[r]) = RowLen
        <5>1. data' \in Seq(Seq(Item)) /\ picture \in Seq(RowBytes)
          BY <1>0, <1>a, <2>1, AppendProperties DEF TypeOK
        <5>2. /\ Len(data') <= Len(picture)
              /\ \A r \in 1..Len(data') : data'[r] = picture[r]
          BY <1>1, <2>8 DEF RowsRight
        <5>3. ASSUME NEW r \in DOMAIN data' PROVE Len(data'[r]) = RowLen
          <6>1. r \in 1..Len(data') /\ r \in 1..Len(picture)
            BY <5>1, <5>2, LenProperties
          <6>2. picture[r] \in RowBytes
            BY <5>1, <6>1, ElementOfSeq
          <6> QED BY <5>2, <6>1, <6>2, RowIsSeq
        <5> QED BY <5>3
      <4>2. AfterRow(data') = {"mailed"}
        BY <2>7, <2>4, <3>2, <4>1, Rows DEF AfterRow, RowLen
      <4> QED BY <2>1, <4>2
    <3> QED BY <3>1, <3>2
  <2>10. RestOnLine'
    <3>1. CASE host' = "mailed"
      BY <3>1 DEF RestOnLine, Receiving
    <3>2. CASE host' = "sync"
      <4>1. Taken' = 0
        BY <2>1, <3>2 DEF Taken
      <4>2. Off(d + 1) = Off(d) + RowLen + 7 /\ Off(d) \in Nat
        BY <1>0, TakenInt
      <4>3. Off(Len(data')) = Off(d + 1)
        BY <2>7, Zenon
      <4>4. Off(Len(data')) + Taken' = Off(d) + Taken
        BY <2>3, <4>1, <4>2, <4>3
      <4> QED BY <1>0, <1>1, <1>2, <4>4, RestSame
    <3> QED BY <2>9, <3>1, <3>2
  <2>11. RowSoFar' /\ host' # "failed"
    BY <2>9 DEF RowSoFar
  <2> QED BY <2>8, <2>10, <2>11
<1> QED BY <1>4, <1>5, <1>6

LEMMA ReceiveStep == TypeInv /\ LineInv /\ ReceiveInv /\ [Next]_vars => ReceiveInv'
<1> SUFFICES ASSUME TypeInv, LineInv, ReceiveInv, [Next]_vars PROVE ReceiveInv'
  OBVIOUS
<1>0. TypeOK /\ HostInv
  BY DEF TypeInv
<1>1. CASE Robot
  BY <1>1, ReceiveRobot
<1>2. CASE Host
  BY <1>2, ReceivePrompt, ReceiveByte, ReceiveDone DEF Host
<1>3. ASSUME NEW line \in Typed, Answer(line) PROVE ReceiveInv'
  <2>1. /\ host = "input" /\ host' = "readline" /\ picture' = picture /\ data' = data
    BY <1>3 DEF Answer, reader
  <2>2. data' = << >> /\ Len(data') = 0 /\ Len(picture') \in Nat
    <3>1. data = << >>
      BY <1>0, <2>1 DEF HostInv, Prompting
    <3> QED BY <1>0, <2>1, <3>1, EmptySeq, Lengths
  <2>3. RowsRight' /\ RowSoFar' /\ RestOnLine'
    BY <2>1, <2>2 DEF RowsRight, RowSoFar, RestOnLine, Receiving
  <2> QED BY <2>1, <2>3 DEF ReceiveInv
<1>4. ASSUME NEW i \in DOMAIN toHost, LoseByte(i) PROVE ReceiveInv'
  <2>1. lost' # 0
    BY <1>0, <1>4, LoseByteIs
  <2> QED BY <2>1 DEF ReceiveInv
<1>5. CASE UNCHANGED vars
  <2>1. /\ robot' = robot /\ toHost' = toHost /\ host' = host /\ data' = data
        /\ read' = read /\ size' = size /\ state' = state /\ picture' = picture
        /\ lost' = lost
    BY <1>5 DEF vars, reader, history
  <2> SUFFICES ASSUME lost = 0
               PROVE  (host # "failed" /\ RowsRight /\ RowSoFar /\ RestOnLine)'
    BY <2>1 DEF ReceiveInv
  <2>2. host # "failed" /\ RowsRight /\ RowSoFar /\ RestOnLine
    BY DEF ReceiveInv
  <2>3. RowsRight' /\ RowSoFar'
    BY <2>1, <2>2 DEF RowsRight, RowSoFar
  <2>4. RestOnLine'
    <3>1. CASE host \in Receiving
      <4>1. Taken' = Taken
        BY <2>1 DEF Taken
      <4> QED BY <1>0, <2>1, <2>2, <3>1, <4>1, RestSame
    <3>2. CASE host \notin Receiving
      BY <2>1, <3>2 DEF RestOnLine
    <3> QED BY <3>1, <3>2
  <2> QED BY <2>1, <2>2, <2>3, <2>4
<1> QED BY <1>1, <1>2, <1>3, <1>4, <1>5 DEF Next, User

LEMMA ReceiveInit == Init => ReceiveInv
<1> SUFFICES ASSUME Init PROVE ReceiveInv
  OBVIOUS
<1>1. host = "readline" /\ Len(data) = 0 /\ Len(picture) = 0
  BY EmptySeq DEF Init
<1> QED BY <1>1 DEF ReceiveInv, RowsRight, RowSoFar, RestOnLine, Receiving

\* The PC has the rows of the picture from the first on and none of them
\* twice, unless a byte was lost; no text gets into them and it never fails
\* (console.c:105-109, Function.py:48-74).
THEOREM PictureArrives == Spec => []PictureIsReceived
<1>1. Spec => [](TypeInv /\ LineInv /\ ReceiveInv)
  BY TypesInit, LinesInit, ReceiveInit, TypesStep, LinesStep, ReceiveStep, PTL DEF Spec
<1>2. TypeInv /\ ReceiveInv => PictureIsReceived
  <2> SUFFICES ASSUME TypeInv, ReceiveInv, lost = 0
               PROVE  IsPrefix(data, picture) /\ host # "failed"
    BY DEF PictureIsReceived
  <2>1. data \in Seq(Seq(Item)) /\ picture \in Seq(RowBytes)
    <3>1. TypeOK
      BY DEF TypeInv
    <3> QED BY <3>1, Zenon DEF TypeOK
  <2>2. host # "failed" /\ Len(data) <= Len(picture)
        /\ \A r \in 1..Len(data) : data[r] = picture[r]
    BY DEF ReceiveInv, RowsRight
  <2> QED BY <2>1, <2>2, PrefixIs
<1> QED BY <1>1, <1>2, PTL

=============================================================================
