----------------------------- MODULE Rings -----------------------------
(***************************************************************************)
(* The circular buffers of the kernel: a pipe's data (kernel/pipe.c), the  *)
(* input of the console (kernel/console.c) and the output of the serial    *)
(* port (kernel/uart.c).  Two counters run modulo N, the number of values  *)
(* of their unsigned type, and the cell of a counter is its remainder      *)
(* modulo the size of the buffer, of which N is a multiple.                *)
(***************************************************************************)
EXTENDS Integers, Sequences, TLAPS

\* How far the counter y is ahead of the counter x.
Ahead(N, x, y) == (y - x) % N

\* What is stored between the counters x and y.
Cells(N, size, f, x, y) == [k \in 1 .. Ahead(N, x, y) |-> f[(x + k - 1) % size]]

\* Division with remainder.
LEMMA ModBase ==
  ASSUME NEW a \in Int, NEW b \in Nat \ {0}
  PROVE  a % b \in 0 .. (b - 1) /\ a \div b \in Int /\ a = b * (a \div b) + (a % b)
OBVIOUS

\* A multiple of b other than 0 is at least b away from 0.
LEMMA MulGe ==
  ASSUME NEW b \in Nat \ {0}, NEW d \in Int, d >= 1
  PROVE  b * d >= b
OBVIOUS

\* The remainder is the only number in range that differs from a by a multiple of b.
LEMMA ModUnique ==
  ASSUME NEW a \in Int, NEW b \in Nat \ {0}, NEW q \in Int, NEW r \in 0 .. (b - 1),
         a = b * q + r
  PROVE  a % b = r
<1> DEFINE s == a \div b
<1>1. a % b \in 0 .. (b - 1) /\ s \in Int /\ a = b * s + (a % b)
  BY Zenon, ModBase
<1> HIDE DEF s
<1>2. b * (q - s) = b * q - b * s /\ b * (s - q) = b * s - b * q
  BY <1>1
<1>3. ~(q - s >= 1)
  BY <1>1, <1>2, MulGe
<1>4. ~(s - q >= 1)
  BY <1>1, <1>2, MulGe
<1>5. s = q
  BY <1>1, <1>3, <1>4
<1> QED
  BY <1>1, <1>5

\* Adding a multiple of b leaves the remainder as it is.
LEMMA ModAdd ==
  ASSUME NEW x \in Int, NEW b \in Nat \ {0}, NEW t \in Int
  PROVE  (x + b * t) % b = x % b
<1>1. x % b \in 0 .. (b - 1) /\ x \div b \in Int /\ x = b * (x \div b) + (x % b)
  BY ModBase
<1>2. b * (x \div b + t) = b * (x \div b) + b * t /\ b * t \in Int
  BY <1>1
<1>3. x + b * t = b * (x \div b + t) + (x % b)
  BY <1>1, <1>2
<1>4. x + b * t \in Int /\ x \div b + t \in Int
  BY <1>1, <1>2
<1> QED
  BY Zenon, <1>1, <1>3, <1>4, ModUnique

\* The sum and the difference of two counters below b, reduced modulo b.
LEMMA ModNear ==
  ASSUME NEW b \in Nat \ {0}, NEW x \in Int
  PROVE  /\ x >= 0 /\ x < b => x % b = x
         /\ x >= b /\ x < 2 * b => x % b = x - b
         /\ x >= -b /\ x < 0 => x % b = x + b
<1>1. b * 0 = 0 /\ b * 1 = b /\ b * (-1) = -b
  OBVIOUS
<1>2. ASSUME x >= 0, x < b PROVE x % b = x
  BY <1>1, <1>2, ModUnique
<1>3. ASSUME x >= b, x < 2 * b PROVE x % b = x - b
  <2>1. x - b \in 0 .. (b - 1) /\ x = b * 1 + (x - b)
    BY <1>1, <1>3
  <2> QED
    BY <2>1, ModUnique
<1>4. ASSUME x >= -b, x < 0 PROVE x % b = x + b
  <2>1. x + b \in 0 .. (b - 1) /\ x = b * (-1) + (x + b) /\ -1 \in Int
    BY <1>1, <1>4
  <2> QED
    BY <2>1, ModUnique
<1> QED
  BY <1>2, <1>3, <1>4

\* Fewer than b numbers in a row have different remainders.
LEMMA ModDistinct ==
  ASSUME NEW x \in Int, NEW b \in Nat \ {0}, NEW j \in 1 .. (b - 1)
  PROVE  (x + j) % b # x % b
<1> DEFINE s == x \div b
           r == x % b
<1>1. r \in 0 .. (b - 1) /\ s \in Int /\ x = b * s + r
  BY ModBase
<1> HIDE DEF s, r
<1>2. b * s \in Int /\ b * (s + 1) = b * s + b
  BY <1>1
<1>3. CASE r + j < b
  <2>1. r + j \in 0 .. (b - 1) /\ x + j \in Int /\ x + j = b * s + (r + j)
    BY <1>1, <1>2, <1>3
  <2>2. (x + j) % b = r + j
    BY <1>1, <2>1, ModUnique
  <2>3. x % b = r
    BY DEF r
  <2> QED
    BY <1>1, <2>2, <2>3
<1>4. CASE r + j >= b
  <2>1. r + j - b \in 0 .. (b - 1) /\ x + j \in Int /\ s + 1 \in Int
        /\ x + j = b * (s + 1) + (r + j - b)
    BY <1>1, <1>2, <1>4
  <2>2. (x + j) % b = r + j - b
    BY Zenon, <2>1, ModUnique
  <2>3. x % b = r
    BY DEF r
  <2> QED
    BY <1>1, <2>2, <2>3
<1> QED
  BY <1>1, <1>3, <1>4
\* A difference of two counters below b.
LEMMA ModWithin ==
  ASSUME NEW b \in Nat \ {0}, NEW d \in Int, d < b, d >= -b
  PROVE  d % b = IF d >= 0 THEN d ELSE d + b
<1>1. CASE d >= 0
  BY <1>1, ModNear
<1>2. CASE d < 0
  BY <1>2, ModNear
<1> QED
  BY <1>1, <1>2
------------------------------------------------------------------------
\* Of two counters below N, y is d ahead of x.
Apart(N, x, y, d) ==
    d \in 0 .. (N - 1) /\ (y >= x => d = y - x) /\ (y < x => d = y - x + N)

\* The counter x1 comes after the counter x.
Follows(N, x, x1) ==
    x1 \in 0 .. (N - 1) /\ (x + 1 = N => x1 = 0) /\ (x + 1 # N => x1 = x + 1)

\* Equality, in a form that the provers match with the conclusion of a lemma.
Same(a, b) == a = b

\* Two places of a ring are the same cell.
SameCell(size, i, j) == i % size = j % size

\* One counter is ahead of another by their difference, or by that and a full turn.
LEMMA AheadValue ==
  ASSUME NEW N \in Nat \ {0}, NEW x \in 0 .. (N - 1), NEW y \in 0 .. (N - 1)
  PROVE  Apart(N, x, y, Ahead(N, x, y))
<1> DEFINE d == y - x
<1>1. d \in Int /\ d < N /\ d >= -N
  OBVIOUS
<1>2. d % N = IF d >= 0 THEN d ELSE d + N
  BY <1>1, ModWithin
<1> QED
  BY <1>2 DEF Ahead, Apart

\* A counter that goes on by one.
LEMMA CounterNext ==
  ASSUME NEW N \in Nat \ {0}, NEW x \in 0 .. (N - 1)
  PROVE  Follows(N, x, (x + 1) % N)
<1> DEFINE d == x + 1
<1>1. d \in Int /\ d >= 0 /\ d < 2 * N
  OBVIOUS
<1> HIDE DEF d
<1>2. d % N = IF d < N THEN d ELSE d - N
  <2>1. CASE d < N
    BY Zenon, <1>1, <2>1, ModNear
  <2>2. CASE d >= N
    BY Zenon, <1>1, <2>2, ModNear
  <2> QED
    BY <1>1, <2>1, <2>2
<1> QED
  BY <1>2 DEF Follows, d

\* A counter that goes back by m.
LEMMA CounterBack ==
  ASSUME NEW N \in Nat \ {0}, NEW x \in 0 .. (N - 1), NEW m \in 0 .. (N - 1)
  PROVE  Apart(N, m, x, (x - m) % N)
<1> DEFINE d == x - m
<1>1. d \in Int /\ d < N /\ d >= -N
  OBVIOUS
<1>2. d % N = IF d >= 0 THEN d ELSE d + N
  BY <1>1, ModWithin
<1> QED
  BY <1>2 DEF Apart

\* After a full turn of the counter comes the same cell.
LEMMA CellAgain ==
  ASSUME NEW N \in Nat \ {0}, NEW size \in Nat \ {0}, N % size = 0, NEW n \in Int
  PROVE  SameCell(size, n + N, n)
<1>1. N \div size \in Int /\ N = size * (N \div size)
  BY ModBase
<1>2. (n + size * (N \div size)) % size = n % size
  BY Zenon, <1>1, ModAdd
<1> QED
  BY Zenon, <1>1, <1>2 DEF SameCell

\* Counting on from x for as far as y is ahead arrives at the cell of y.
LEMMA CellAhead ==
  ASSUME NEW N \in Nat \ {0}, NEW size \in Nat \ {0}, N % size = 0,
         NEW x \in 0 .. (N - 1), NEW y \in 0 .. (N - 1), NEW d, Apart(N, x, y, d),
         NEW j \in Int
  PROVE  SameCell(size, x + d + j, y + j)
<1>1. CASE y >= x
  <2>1. x + d + j = y + j
    BY <1>1 DEF Apart
  <2> QED
    BY Zenon, <2>1 DEF SameCell
<1>2. CASE y < x
  <2>1. x + d + j = (y + j) + N /\ y + j \in Int
    BY <1>2 DEF Apart
  <2>2. SameCell(size, (y + j) + N, y + j)
    BY Zenon, <2>1, CellAgain
  <2> QED
    BY Zenon, <2>1, <2>2
<1> QED
  BY <1>1, <1>2

\* Cells closer together than the size of the ring are different.
LEMMA CellsApart ==
  ASSUME NEW size \in Nat \ {0}, NEW i \in Int, NEW j \in Int, i < j, j < i + size
  PROVE  ~SameCell(size, i, j)
<1>1. j - i \in 1 .. (size - 1) /\ i + (j - i) = j
  OBVIOUS
<1>2. (i + (j - i)) % size # i % size
  BY Zenon, <1>1, ModDistinct
<1> QED
  BY Zenon, <1>1, <1>2 DEF SameCell

\* A counter that goes on is one further ahead.
LEMMA AheadNext ==
  ASSUME NEW N \in Nat \ {0}, NEW x \in 0 .. (N - 1), NEW y \in 0 .. (N - 1), NEW d,
         Apart(N, x, y, d), d < N - 1, NEW y1, Follows(N, y, y1)
  PROVE  Apart(N, x, y1, d + 1)
BY DEF Apart, Follows

\* A counter that goes on is one closer to those ahead of it.
LEMMA AheadLess ==
  ASSUME NEW N \in Nat \ {0}, NEW x \in 0 .. (N - 1), NEW y \in 0 .. (N - 1), NEW d,
         Apart(N, x, y, d), x # y, NEW x1, Follows(N, x, x1)
  PROVE  Apart(N, x1, y, d - 1)
BY DEF Apart, Follows

\* A counter goes back by no more than it is ahead.
LEMMA AheadBack ==
  ASSUME NEW N \in Nat \ {0}, NEW x \in 0 .. (N - 1), NEW y \in 0 .. (N - 1), NEW d,
         Apart(N, x, y, d), NEW m \in 0 .. d, NEW y1, Apart(N, m, y, y1)
  PROVE  Apart(N, x, y1, d - m)
BY DEF Apart

\* A counter that is d ahead of another is reached from it in d steps.
LEMMA CounterAhead ==
  ASSUME NEW N \in Nat \ {0}, NEW x \in 0 .. (N - 1), NEW y \in 0 .. (N - 1), NEW d,
         Apart(N, x, y, d)
  PROVE  Same((x + d) % N, y)
<1>1. d \in Nat /\ d < N
  BY DEF Apart
<1> DEFINE z == x + d
<1>2. z \in Int /\ z >= 0 /\ z < 2 * N
  BY <1>1
<1>3. IF z < N THEN y = z ELSE y = z - N
  BY <1>1 DEF Apart
<1> HIDE DEF z
<1>4. /\ z >= 0 /\ z < N => z % N = z
      /\ z >= N /\ z < 2 * N => z % N = z - N
  BY Zenon, <1>2, ModNear
<1>5. z % N = y
  BY <1>2, <1>3, <1>4
<1> QED
  BY <1>5 DEF z, Same

\* A counter is one distance ahead of another.
LEMMA ApartOnce ==
  ASSUME NEW N \in Nat \ {0}, NEW x \in 0 .. (N - 1), NEW y \in 0 .. (N - 1), NEW d, NEW d1,
         Apart(N, x, y, d), Apart(N, x, y, d1)
  PROVE  Same(d, d1)
BY DEF Apart, Same

\* A counter is not ahead of itself.
LEMMA ApartSelf ==
  ASSUME NEW N \in Nat \ {0}, NEW x \in 0 .. (N - 1)
  PROVE  Apart(N, x, x, 0)
BY DEF Apart
------------------------------------------------------------------------
\* A function on 1 .. n is a sequence.
LEMMA FunSeq ==
  ASSUME NEW S, NEW n \in Nat, NEW s \in [1 .. n -> S]
  PROVE  s \in Seq(S) /\ Len(s) = n
<1>1. s \in Seq(S)
  OBVIOUS
<1>2. DOMAIN s = 1 .. n /\ DOMAIN s = 1 .. Len(s) /\ Len(s) \in Nat
  BY <1>1
<1> QED
  BY <1>1, <1>2

\* A sequence of n characters, those of the cells from the counter x on.
Lists(s, S, n, size, f, x) ==
    s \in Seq(S) /\ Len(s) = n /\ \A k \in 1 .. n : s[k] = f[(x + k - 1) % size]

\* What is stored between two counters is as long as they are apart.
LEMMA CellsList ==
  ASSUME NEW N \in Nat \ {0}, NEW size \in Nat \ {0}, NEW f,
         NEW x \in 0 .. (N - 1), NEW y \in 0 .. (N - 1), NEW n, Apart(N, x, y, n),
         NEW S, \A i \in 0 .. (size - 1) : f[i] \in S
  PROVE  Lists(Cells(N, size, f, x, y), S, n, size, f, x)
<1> DEFINE s == Cells(N, size, f, x, y)
<1>0. Apart(N, x, y, Ahead(N, x, y))
  BY Zenon, AheadValue
<1>1. n \in Nat /\ n = Ahead(N, x, y)
  BY <1>0 DEF Apart
<1>2. s = [k \in 1 .. n |-> f[(x + k - 1) % size]]
  BY Zenon, <1>1 DEF Cells
<1> HIDE DEF s
<1>3. ASSUME NEW k \in 1 .. n PROVE f[(x + k - 1) % size] \in S
  <2>1. x + k - 1 \in Int
    BY <1>1
  <2>2. (x + k - 1) % size \in 0 .. (size - 1)
    BY Zenon, <2>1, ModBase
  <2> QED
    BY Zenon, <2>2
<1>4. s \in [1 .. n -> S] /\ \A k \in 1 .. n : s[k] = f[(x + k - 1) % size]
  BY Zenon, <1>2, <1>3
<1>5. s \in Seq(S) /\ Len(s) = n
  BY Zenon, <1>1, <1>4, FunSeq
<1> QED
  BY Zenon, <1>4, <1>5 DEF Lists, s

\* Two lists of the same cells are equal.
LEMMA ListsEqual ==
  ASSUME NEW S, NEW n \in Nat, NEW s \in Seq(S), NEW t \in Seq(S), Len(s) = n, Len(t) = n,
         \A k \in 1 .. n : s[k] = t[k]
  PROVE  s = t
OBVIOUS

\* Between a counter and itself there is nothing.
LEMMA CellsNone ==
  ASSUME NEW N \in Nat \ {0}, NEW size, NEW f, NEW x \in 0 .. (N - 1)
  PROVE  Same(Cells(N, size, f, x, x), << >>)
<1>1. Apart(N, x, x, Ahead(N, x, x))
  BY Zenon, AheadValue
<1>2. Ahead(N, x, x) = 0
  BY <1>1 DEF Apart
<1> QED
  BY <1>2 DEF Cells, Same

\* Storing at z leaves alone what is stored between x and y, if z is no closer to
\* x than y, and closer than the size of the ring.
LEMMA CellsKept ==
  ASSUME NEW N \in Nat \ {0}, NEW size \in Nat \ {0}, N % size = 0,
         NEW x \in 0 .. (N - 1), NEW y \in 0 .. (N - 1), NEW z \in 0 .. (N - 1),
         NEW n, Apart(N, x, y, n), NEW m, Apart(N, x, z, m), n <= m, m < size,
         NEW f, NEW g, \A i \in 0 .. (size - 1) : i # z % size => g[i] = f[i]
  PROVE  Same(Cells(N, size, g, x, y), Cells(N, size, f, x, y))
<1>0. Apart(N, x, y, Ahead(N, x, y))
  BY Zenon, AheadValue
<1>1. n \in Nat /\ m \in Nat /\ n = Ahead(N, x, y) /\ 0 \in Int
  BY <1>0 DEF Apart
<1>2. SameCell(size, x + m + 0, z + 0)
  BY Zenon, <1>1, CellAhead
<1>3. SameCell(size, x + m, z)
  <2>1. x + m + 0 = x + m /\ z + 0 = z
    BY <1>1
  <2> QED
    BY Zenon, <1>2, <2>1
<1>4. ASSUME NEW k \in 1 .. n PROVE g[(x + k - 1) % size] = f[(x + k - 1) % size]
  <2>1. /\ x + k - 1 \in Int /\ x + m \in Int
        /\ x + k - 1 < x + m /\ x + m < (x + k - 1) + size
    BY <1>1
  <2>2. ~SameCell(size, x + k - 1, x + m)
    BY Zenon, <2>1, CellsApart
  <2>3. (x + k - 1) % size # z % size
    BY Zenon, <1>3, <2>2 DEF SameCell
  <2>4. (x + k - 1) % size \in 0 .. (size - 1)
    BY Zenon, <2>1, ModBase
  <2> QED
    BY Zenon, <2>3, <2>4
<1> QED
  BY Zenon, <1>1, <1>4 DEF Cells, Same

\* When y goes on by one, the character in its cell is behind those before.
LEMMA CellsGrow ==
  ASSUME NEW N \in Nat \ {0}, NEW size \in Nat \ {0}, N % size = 0, NEW f,
         NEW x \in 0 .. (N - 1), NEW y \in 0 .. (N - 1), NEW n, Apart(N, x, y, n), n < N - 1,
         NEW y1, Follows(N, y, y1)
  PROVE  Same(Cells(N, size, f, x, y1), Append(Cells(N, size, f, x, y), f[y % size]))
<1>1. n \in Nat /\ y1 \in 0 .. (N - 1) /\ 0 \in Int
  BY DEF Apart, Follows
<1>2. Apart(N, x, y1, n + 1)
  BY Zenon, AheadNext
<1>3. PICK s : s = Cells(N, size, f, x, y)
  OBVIOUS
<1>4. PICK t : t = Cells(N, size, f, x, y1)
  OBVIOUS
<1>5. PICK S : \A i \in 0 .. (size - 1) : f[i] \in S
  <2> WITNESS {f[i] : i \in 0 .. (size - 1)}
  <2> QED
    BY Zenon
<1>6. Lists(s, S, n, size, f, x)
  BY Zenon, <1>3, <1>5, CellsList
<1>7. Lists(t, S, n + 1, size, f, x)
  BY Zenon, <1>1, <1>2, <1>4, <1>5, CellsList
<1>8. SameCell(size, x + n + 0, y + 0)
  BY Zenon, <1>1, CellAhead
<1>9. (x + (n + 1) - 1) % size = y % size /\ n + 1 \in 1 .. (n + 1)
  <2>1. x + n + 0 = x + (n + 1) - 1 /\ y + 0 = y /\ n + 1 \in 1 .. (n + 1)
    BY <1>1
  <2> QED
    BY Zenon, <1>8, <2>1 DEF SameCell
<1>10. PICK c \in S : c = f[y % size]
  <2>1. y \in Int
    OBVIOUS
  <2>2. y % size \in 0 .. (size - 1)
    BY Zenon, <2>1, ModBase
  <2> QED
    BY Zenon, <1>5, <2>2
<1>11. t[n + 1] = c
  BY Zenon, <1>7, <1>9, <1>10 DEF Lists
<1>12. /\ Append(s, c) \in Seq(S) /\ Len(Append(s, c)) = n + 1 /\ Append(s, c)[n + 1] = c
       /\ \A k \in 1 .. n : Append(s, c)[k] = s[k]
  BY <1>6 DEF Lists
<1>13. ASSUME NEW k \in 1 .. (n + 1) PROVE t[k] = Append(s, c)[k]
  <2>1. k \in 1 .. n \/ k = n + 1
    BY <1>1
  <2>2. CASE k \in 1 .. n
    <3>1. t[k] = f[(x + k - 1) % size]
      BY Zenon, <1>7 DEF Lists
    <3>2. s[k] = f[(x + k - 1) % size]
      BY Zenon, <2>2, <1>6 DEF Lists
    <3> QED
      BY Zenon, <2>2, <3>1, <3>2, <1>12
  <2>3. CASE k = n + 1
    BY Zenon, <2>3, <1>11, <1>12
  <2> QED
    BY Zenon, <2>1, <2>2, <2>3
<1>14. n + 1 \in Nat /\ t \in Seq(S) /\ Len(t) = n + 1
  BY <1>1, <1>7 DEF Lists
<1>15. t = Append(s, c)
  BY Zenon, <1>12, <1>13, <1>14, ListsEqual
<1> QED
  BY Zenon, <1>3, <1>4, <1>10, <1>15 DEF Same

\* Storing at y puts a character behind those between x and y.
LEMMA CellsPut ==
  ASSUME NEW N \in Nat \ {0}, NEW size \in Nat \ {0}, N % size = 0, size < N,
         NEW x \in 0 .. (N - 1), NEW y \in 0 .. (N - 1), NEW n, Apart(N, x, y, n), n < size,
         NEW y1, Follows(N, y, y1),
         NEW f, NEW g, \A i \in 0 .. (size - 1) : i # y % size => g[i] = f[i]
  PROVE  Same(Cells(N, size, g, x, y1), Append(Cells(N, size, f, x, y), g[y % size]))
<1>1. n <= n /\ n < N - 1
  BY DEF Apart
<1>2. Same(Cells(N, size, g, x, y), Cells(N, size, f, x, y))
  BY Zenon, <1>1, CellsKept
<1>3. Same(Cells(N, size, g, x, y1), Append(Cells(N, size, g, x, y), g[y % size]))
  BY Zenon, <1>1, CellsGrow
<1> QED
  BY Zenon, <1>2, <1>3 DEF Same

\* When x goes on by one, the oldest character is gone.
LEMMA CellsGet ==
  ASSUME NEW N \in Nat \ {0}, NEW size \in Nat \ {0}, N % size = 0, NEW f,
         NEW x \in 0 .. (N - 1), NEW y \in 0 .. (N - 1), x # y, NEW x1, Follows(N, x, x1)
  PROVE  /\ Cells(N, size, f, x, y) # << >>
         /\ Same(Cells(N, size, f, x1, y), Tail(Cells(N, size, f, x, y)))
<1>1. PICK n : Apart(N, x, y, n)
  BY Zenon, AheadValue
<1>2. n \in Nat /\ n # 0 /\ x1 \in 0 .. (N - 1)
  BY <1>1 DEF Apart, Follows
<1>3. Apart(N, x1, y, n - 1)
  BY Zenon, <1>1, AheadLess
<1>4. PICK s : s = Cells(N, size, f, x, y)
  OBVIOUS
<1>5. PICK t : t = Cells(N, size, f, x1, y)
  OBVIOUS
<1>6. PICK S : \A i \in 0 .. (size - 1) : f[i] \in S
  <2> WITNESS {f[i] : i \in 0 .. (size - 1)}
  <2> QED
    BY Zenon
<1>7. Lists(s, S, n, size, f, x)
  BY Zenon, <1>1, <1>4, <1>6, CellsList
<1>8. Lists(t, S, n - 1, size, f, x1)
  BY Zenon, <1>2, <1>3, <1>5, <1>6, CellsList
<1>9. ASSUME NEW k \in 1 .. (n - 1) PROVE SameCell(size, x1 + k - 1, x + (k + 1) - 1)
  <2>1. CASE x + 1 # N
    <3>1. x1 + k - 1 = x + (k + 1) - 1
      BY <2>1 DEF Follows
    <3> QED
      BY Zenon, <3>1 DEF SameCell
  <2>2. CASE x + 1 = N
    <3>1. x + (k + 1) - 1 = (x1 + k - 1) + N /\ x1 + k - 1 \in Int
      BY <2>2 DEF Follows
    <3>2. SameCell(size, (x1 + k - 1) + N, x1 + k - 1)
      BY Zenon, <3>1, CellAgain
    <3> QED
      BY Zenon, <3>1, <3>2 DEF SameCell
  <2> QED
    BY Zenon, <2>1, <2>2
<1>10. s # << >>
  BY <1>2, <1>7 DEF Lists
<1>11. /\ Tail(s) \in Seq(S) /\ Len(Tail(s)) = n - 1
       /\ \A k \in 1 .. (n - 1) : Tail(s)[k] = s[k + 1]
  BY <1>7, <1>10 DEF Lists
<1>12. ASSUME NEW k \in 1 .. (n - 1) PROVE t[k] = Tail(s)[k]
  <2>1. k + 1 \in 1 .. n
    BY <1>2
  <2>2. s[k + 1] = f[(x + (k + 1) - 1) % size]
    BY Zenon, <2>1, <1>7 DEF Lists
  <2>3. t[k] = f[(x1 + k - 1) % size]
    BY Zenon, <1>8 DEF Lists
  <2> QED
    BY Zenon, <2>2, <2>3, <1>9, <1>11 DEF SameCell
<1>13. n - 1 \in Nat /\ t \in Seq(S) /\ Len(t) = n - 1
  BY <1>2, <1>8 DEF Lists
<1>14. t = Tail(s)
  BY Zenon, <1>11, <1>12, <1>13, ListsEqual
<1> QED
  BY Zenon, <1>4, <1>5, <1>10, <1>14 DEF Same

\* What is stored first is in the cell of the counter behind.
LEMMA CellsFirst ==
  ASSUME NEW N \in Nat \ {0}, NEW size \in Nat \ {0}, NEW f,
         NEW x \in 0 .. (N - 1), NEW y \in 0 .. (N - 1), x # y
  PROVE  Same(Head(Cells(N, size, f, x, y)), f[x % size])
<1>1. PICK n : n = Ahead(N, x, y) /\ Apart(N, x, y, n)
  BY Zenon, AheadValue
<1>2. n \in Nat /\ n # 0 /\ 1 \in 1 .. n /\ x + 1 - 1 = x
  BY <1>1 DEF Apart
<1>3. Cells(N, size, f, x, y)[1] = f[x % size]
  BY Zenon, <1>1, <1>2 DEF Cells
<1> QED
  BY <1>3 DEF Same

\* What is stored up to y, and what is stored from there on.
LEMMA CellsJoin ==
  ASSUME NEW N \in Nat \ {0}, NEW size \in Nat \ {0}, N % size = 0, NEW f,
         NEW x \in 0 .. (N - 1), NEW y \in 0 .. (N - 1), NEW z \in 0 .. (N - 1),
         NEW n, Apart(N, x, y, n), NEW m, Apart(N, y, z, m), Apart(N, x, z, n + m)
  PROVE  Same(Cells(N, size, f, x, y) \o Cells(N, size, f, y, z), Cells(N, size, f, x, z))
<1>1. n \in Nat /\ m \in Nat
  BY DEF Apart
<1>2. PICK s : s = Cells(N, size, f, x, y)
  OBVIOUS
<1>3. PICK t : t = Cells(N, size, f, y, z)
  OBVIOUS
<1>4. PICK u : u = Cells(N, size, f, x, z)
  OBVIOUS
<1>5. PICK S : \A i \in 0 .. (size - 1) : f[i] \in S
  <2> WITNESS {f[i] : i \in 0 .. (size - 1)}
  <2> QED
    BY Zenon
<1>6. Lists(s, S, n, size, f, x)
  BY Zenon, <1>2, <1>5, CellsList
<1>7. Lists(t, S, m, size, f, y)
  BY Zenon, <1>3, <1>5, CellsList
<1>8. Lists(u, S, n + m, size, f, x)
  BY Zenon, <1>4, <1>5, CellsList
<1>0. s \in Seq(S) /\ Len(s) = n /\ t \in Seq(S) /\ Len(t) = m
  BY Zenon, <1>6, <1>7 DEF Lists
<1>9. s \o t \in Seq(S) /\ Len(s \o t) = n + m
  BY <1>0
<1>10. ASSUME NEW k \in 1 .. (n + m) PROVE (s \o t)[k] = u[k]
  <2>0. u[k] = f[(x + k - 1) % size]
    BY Zenon, <1>8 DEF Lists
  <2>1. CASE k <= n
    <3>1. k \in 1 .. n /\ (s \o t)[k] = s[k]
      BY <1>0, <1>1, <2>1
    <3>2. s[k] = f[(x + k - 1) % size]
      BY Zenon, <3>1, <1>6 DEF Lists
    <3> QED
      BY Zenon, <2>0, <3>1, <3>2
  <2>2. CASE ~(k <= n)
    <3>1. k - n \in 1 .. m /\ (s \o t)[k] = t[k - n]
      BY <1>0, <1>1, <2>2
    <3>2. t[k - n] = f[(y + (k - n) - 1) % size]
      BY Zenon, <3>1, <1>7 DEF Lists
    <3>3. /\ k - n - 1 \in Int
          /\ x + n + (k - n - 1) = x + k - 1 /\ y + (k - n - 1) = y + (k - n) - 1
      BY <1>1
    <3>4. SameCell(size, x + n + (k - n - 1), y + (k - n - 1))
      BY Zenon, <3>3, CellAhead
    <3>5. (x + k - 1) % size = (y + (k - n) - 1) % size
      BY Zenon, <3>3, <3>4 DEF SameCell
    <3> QED
      BY Zenon, <2>0, <3>1, <3>2, <3>5
  <2> QED
    BY Zenon, <2>1, <2>2
<1>11. n + m \in Nat /\ u \in Seq(S) /\ Len(u) = n + m
  BY <1>1, <1>8 DEF Lists
<1>12. s \o t = u
  BY Zenon, <1>9, <1>10, <1>11, ListsEqual
<1> QED
  BY Zenon, <1>2, <1>3, <1>4, <1>12 DEF Same

\* When y goes back by one, the newest character is gone.
LEMMA CellsDrop ==
  ASSUME NEW N \in Nat \ {0}, NEW size \in Nat \ {0}, N % size = 0, NEW f,
         NEW x \in 0 .. (N - 1), NEW y \in 0 .. (N - 1), x # y, NEW y1, Apart(N, 1, y, y1)
  PROVE  Same(Cells(N, size, f, x, y1),
              SubSeq(Cells(N, size, f, x, y), 1, Len(Cells(N, size, f, x, y)) - 1))
<1>1. PICK d : Apart(N, x, y, d)
  BY Zenon, AheadValue
<1>2. d \in Nat /\ d # 0 /\ 1 \in 0 .. d /\ y1 \in 0 .. (N - 1) /\ Follows(N, y1, y)
  BY <1>1 DEF Apart, Follows
<1>3. Apart(N, x, y1, d - 1) /\ d - 1 < N - 1
  BY <1>1, <1>2, AheadBack DEF Apart
<1>4. Same(Cells(N, size, f, x, y), Append(Cells(N, size, f, x, y1), f[y1 % size]))
  BY Zenon, <1>2, <1>3, CellsGrow
<1>5. PICK t : t = Cells(N, size, f, x, y1)
  OBVIOUS
<1>6. PICK c : c = f[y1 % size]
  OBVIOUS
<1>7. PICK s : s = Cells(N, size, f, x, y) /\ s = Append(t, c)
  BY Zenon, <1>4, <1>5, <1>6 DEF Same
<1>8. PICK S : \A i \in 0 .. (size - 1) : f[i] \in S
  <2> WITNESS {f[i] : i \in 0 .. (size - 1)}
  <2> QED
    BY Zenon
<1>9. t \in Seq(S) /\ Len(t) \in Nat /\ c \in S
  <2>1. y1 \in Int
    BY <1>2
  <2>2. y1 % size \in 0 .. (size - 1)
    BY Zenon, <2>1, ModBase
  <2>3. Lists(t, S, d - 1, size, f, x)
    BY Zenon, <1>2, <1>3, <1>5, <1>8, CellsList
  <2>4. t \in Seq(S) /\ Len(t) = d - 1 /\ c \in S
    BY Zenon, <1>6, <1>8, <2>2, <2>3 DEF Lists
  <2> QED
    BY <1>2, <2>4
<1>10. SubSeq(Append(t, c), 1, Len(Append(t, c)) - 1) = t
  BY <1>9
<1> QED
  BY Zenon, <1>5, <1>7, <1>10 DEF Same
========================================================================
