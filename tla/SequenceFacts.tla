--------------------------- MODULE SequenceFacts ---------------------------
(* What the proofs need to know of sequences: of the queues between a host *)
(* and a device, which grow at one end and shrink at the other, and of the *)
(* lists a call gathers.                                                   *)
EXTENDS Naturals, Sequences, TLAPS

\* The empty sequence is the one of length 0.
LEMMA EmptyFacts ==
  ASSUME NEW S
  PROVE  <<>> \in Seq(S) /\ Len(<<>>) = 0 /\ \A q \in Seq(S) : q = <<>> <=> Len(q) = 0
  OBVIOUS

\* An element put at the end.
LEMMA AppendFacts ==
  ASSUME NEW S, NEW q \in Seq(S), NEW x \in S
  PROVE  /\ Append(q, x) \in Seq(S) /\ Append(q, x) # <<>>
         /\ Len(Append(q, x)) = Len(q) + 1
         /\ \A j \in 1..Len(q) : Append(q, x)[j] = q[j]
         /\ Append(q, x)[Len(q) + 1] = x
         /\ \A j \in 1..Len(Append(q, x)) :
              (j \in 1..Len(q) /\ Append(q, x)[j] = q[j]) \/ (j = Len(q) + 1 /\ Append(q, x)[j] = x)
  OBVIOUS

\* A queue of one.
LEMMA OneFacts ==
  ASSUME NEW x
  PROVE  Append(<<>>, x) # <<>> /\ Head(Append(<<>>, x)) = x /\ Tail(Append(<<>>, x)) = <<>>
  OBVIOUS

\* The first element taken away.
LEMMA TailFacts ==
  ASSUME NEW S, NEW q \in Seq(S), q # <<>>
  PROVE  /\ Len(q) \in Nat /\ Len(q) > 0
         /\ Head(q) = q[1] /\ Head(q) \in S
         /\ Tail(q) \in Seq(S) /\ Len(Tail(q)) = Len(q) - 1
         /\ \A j \in 1..Len(Tail(q)) : j + 1 \in 1..Len(q) /\ Tail(q)[j] = q[j + 1]
  OBVIOUS

\* One sequence after another.
LEMMA ConcatFacts ==
  ASSUME NEW S, NEW q \in Seq(S), NEW r \in Seq(S)
  PROVE  /\ q \o r \in Seq(S) /\ Len(q \o r) = Len(q) + Len(r)
         /\ \A j \in 1..Len(q) : (q \o r)[j] = q[j]
         /\ \A j \in 1..Len(r) : (q \o r)[Len(q) + j] = r[j]
  OBVIOUS

\* A piece of a sequence.
LEMMA PieceFacts ==
  ASSUME NEW S, NEW q \in Seq(S), NEW m \in Nat, NEW n \in Nat, n <= Len(q)
  PROVE  /\ SubSeq(q, m + 1, n) \in Seq(S)
         /\ Len(SubSeq(q, m + 1, n)) = IF m <= n THEN n - m ELSE 0
         /\ \A j \in 1..(n - m) : m + j \in 1..Len(q) /\ SubSeq(q, m + 1, n)[j] = q[m + j]
  OBVIOUS

\* Two sequences with the same elements are equal.
LEMMA EqualFacts ==
  ASSUME NEW S, NEW q \in Seq(S), NEW r \in Seq(S), Len(q) = Len(r), \A j \in 1..Len(q) : q[j] = r[j]
  PROVE  q = r
  OBVIOUS

\* Adjacent pieces make a longer one, and the longest is the sequence itself.
LEMMA PiecesFacts ==
  ASSUME NEW S, NEW q \in Seq(S), NEW m \in Nat, NEW n \in Nat, m <= n, n <= Len(q)
  PROVE  /\ SubSeq(q, 1, m) \o SubSeq(q, m + 1, n) = SubSeq(q, 1, n)
         /\ SubSeq(q, 1, 0) = <<>> /\ SubSeq(q, 1, Len(q)) = q
<1> DEFINE front == SubSeq(q, 1, m)
           rest == SubSeq(q, m + 1, n)
           both == SubSeq(q, 1, n)
<1>1. /\ front \in Seq(S) /\ Len(front) = m
      /\ \A j \in 1..m : front[j] = q[j]
  <2>1. /\ SubSeq(q, 0 + 1, m) \in Seq(S) /\ Len(SubSeq(q, 0 + 1, m)) = m
        /\ \A j \in 1..m : SubSeq(q, 0 + 1, m)[j] = q[j]
    BY PieceFacts
  <2>2. QED
    BY <2>1
<1>2. /\ both \in Seq(S) /\ Len(both) = n
      /\ \A j \in 1..n : both[j] = q[j]
  <2>1. /\ SubSeq(q, 0 + 1, n) \in Seq(S) /\ Len(SubSeq(q, 0 + 1, n)) = n
        /\ \A j \in 1..n : SubSeq(q, 0 + 1, n)[j] = q[j]
    BY PieceFacts
  <2>2. QED
    BY <2>1
<1>3. /\ rest \in Seq(S) /\ Len(rest) = n - m
      /\ \A j \in 1..(n - m) : rest[j] = q[m + j]
  BY PieceFacts
<1> HIDE DEF front, rest, both
<1>4. /\ front \o rest \in Seq(S) /\ Len(front \o rest) = n
      /\ \A j \in 1..m : (front \o rest)[j] = front[j]
      /\ \A j \in 1..(n - m) : (front \o rest)[m + j] = rest[j]
  <2>1. /\ front \o rest \in Seq(S) /\ Len(front \o rest) = Len(front) + Len(rest)
        /\ \A j \in 1..Len(front) : (front \o rest)[j] = front[j]
        /\ \A j \in 1..Len(rest) : (front \o rest)[Len(front) + j] = rest[j]
    <3>1. \A f \in Seq(S), g \in Seq(S) :
            /\ f \o g \in Seq(S) /\ Len(f \o g) = Len(f) + Len(g)
            /\ \A j \in 1..Len(f) : (f \o g)[j] = f[j]
            /\ \A j \in 1..Len(g) : (f \o g)[Len(f) + j] = g[j]
      BY ConcatFacts
    <3>2. QED
      BY <1>1, <1>3, <3>1, Zenon
  <2>2. QED
    BY <1>1, <1>3, <2>1
<1>5. ASSUME NEW j \in 1..n PROVE (front \o rest)[j] = both[j]
  <2>1. CASE j \in 1..m
    BY <1>1, <1>2, <1>4, <2>1
  <2>2. CASE j \notin 1..m
    <3>1. j - m \in 1..(n - m) /\ m + (j - m) = j
      BY <2>2
    <3>2. (front \o rest)[m + (j - m)] = rest[j - m]
      BY <1>4, <3>1
    <3>3. rest[j - m] = q[m + (j - m)]
      BY <1>3, <3>1
    <3>4. QED
      BY <1>2, <3>1, <3>2, <3>3
  <2>3. QED
    BY <2>1, <2>2
<1>6. front \o rest = both
  BY <1>2, <1>4, <1>5, EqualFacts
<1>7. SubSeq(q, 1, 0) = <<>> /\ SubSeq(q, 1, Len(q)) = q
  OBVIOUS
<1>8. QED
  BY <1>6, <1>7 DEF front, rest, both

\* What is left of a sequence after its beginning.
LEMMA RestFacts ==
  ASSUME NEW S, NEW q \in Seq(S), NEW r \in Seq(S)
  PROVE  /\ Len(q) \in Nat /\ Len(q \o r) \in Nat /\ Len(q) <= Len(q \o r)
         /\ r = SubSeq(q \o r, Len(q) + 1, Len(q \o r))
<1> DEFINE m == Len(q)
           n == Len(q \o r)
           all == q \o r
           rest == SubSeq(all, m + 1, n)
<1>1. /\ all \in Seq(S) /\ n = m + Len(r) /\ m \in Nat /\ n \in Nat /\ Len(r) \in Nat
      /\ \A j \in 1..Len(r) : all[m + j] = r[j]
  BY ConcatFacts
<1>2. n <= Len(all)
  BY <1>1
<1> HIDE DEF m, n, all
<1>3. /\ rest \in Seq(S) /\ Len(rest) = n - m
      /\ \A j \in 1..(n - m) : rest[j] = all[m + j]
  BY <1>1, <1>2, PieceFacts
<1>4. Len(rest) = Len(r) /\ \A j \in 1..Len(r) : rest[j] = r[j]
  BY <1>1, <1>3, SMTT(60)
<1> HIDE DEF rest
<1>5. r = rest
  BY <1>3, <1>4, EqualFacts
<1>6. QED
  BY <1>1, <1>5 DEF rest, m, n, all

\* The place where a sequence is cut in two does not matter.
LEMMA ShiftFacts ==
  ASSUME NEW S, NEW q \in Seq(S), NEW r \in Seq(S), NEW n \in Nat, n <= Len(r)
  PROVE  (q \o SubSeq(r, 1, n)) \o SubSeq(r, n + 1, Len(r)) = q \o r
<1> DEFINE front == SubSeq(r, 1, n)
           rest == SubSeq(r, n + 1, Len(r))
           left == q \o front
<1>1. Len(r) \in Nat /\ Len(q) \in Nat
  OBVIOUS
<1> DEFINE Joined(f, g) ==
             /\ f \o g \in Seq(S) /\ Len(f \o g) = Len(f) + Len(g)
             /\ \A j \in 1..Len(f) : (f \o g)[j] = f[j]
             /\ \A j \in 1..Len(g) : (f \o g)[Len(f) + j] = g[j]
<1>0. \A f \in Seq(S), g \in Seq(S) : Joined(f, g)
  BY ConcatFacts
<1> HIDE DEF Joined
<1>2. /\ front \in Seq(S) /\ Len(front) = n
      /\ \A j \in 1..n : front[j] = r[j]
  <2>1. 0 + 1 = 1 /\ 0 \in Nat
    OBVIOUS
  <2>2. /\ SubSeq(r, 0 + 1, n) \in Seq(S) /\ Len(SubSeq(r, 0 + 1, n)) = n
        /\ \A j \in 1..n : SubSeq(r, 0 + 1, n)[j] = r[j]
    BY <2>1, PieceFacts
  <2>3. QED
    BY <2>1, <2>2
<1>3. /\ rest \in Seq(S) /\ Len(rest) = Len(r) - n
      /\ \A j \in 1..(Len(r) - n) : rest[j] = r[n + j]
  BY <1>1, PieceFacts
<1> HIDE DEF front, rest
<1>4. /\ left \in Seq(S) /\ Len(left) = Len(q) + n
      /\ \A j \in 1..Len(q) : left[j] = q[j]
      /\ \A j \in 1..n : left[Len(q) + j] = r[j]
  <2>1. Joined(q, front)
    BY <1>0, <1>2, Zenon
  <2>2. QED
    BY <1>2, <2>1 DEF Joined
<1> HIDE DEF left
<1>5. /\ left \o rest \in Seq(S) /\ Len(left \o rest) = Len(q) + Len(r)
      /\ \A j \in 1..(Len(q) + n) : (left \o rest)[j] = left[j]
      /\ \A j \in 1..(Len(r) - n) : (left \o rest)[Len(q) + n + j] = r[n + j]
  <2>1. Joined(left, rest)
    BY <1>0, <1>3, <1>4, Zenon
  <2>2. Len(left) = Len(q) + n /\ Len(rest) = Len(r) - n
    BY <1>3, <1>4
  <2>3. Len(q) + n + (Len(r) - n) = Len(q) + Len(r)
    BY <1>1
  <2>4. /\ left \o rest \in Seq(S) /\ Len(left \o rest) = Len(q) + Len(r)
        /\ \A j \in 1..(Len(q) + n) : (left \o rest)[j] = left[j]
    BY <2>1, <2>2, <2>3 DEF Joined
  <2>5. \A j \in 1..(Len(r) - n) : (left \o rest)[Len(q) + n + j] = rest[j]
    BY <2>1, <2>2 DEF Joined
  <2>6. QED
    BY <1>3, <2>4, <2>5
<1>6. /\ q \o r \in Seq(S) /\ Len(q \o r) = Len(q) + Len(r)
      /\ \A j \in 1..Len(q) : (q \o r)[j] = q[j]
      /\ \A j \in 1..Len(r) : (q \o r)[Len(q) + j] = r[j]
  BY ConcatFacts
<1>7. ASSUME NEW j \in 1..(Len(q) + Len(r)) PROVE (left \o rest)[j] = (q \o r)[j]
  <2>1. CASE j \in 1..Len(q)
    <3>1. j \in 1..(Len(q) + n)
      BY <1>1, <2>1
    <3>2. QED
      BY <1>4, <1>5, <1>6, <2>1, <3>1
  <2>2. CASE j \in (Len(q) + 1)..(Len(q) + n)
    <3> DEFINE i == j - Len(q)
    <3>1. i \in 1..n /\ i \in 1..Len(r) /\ j = Len(q) + i /\ j \in 1..(Len(q) + n)
      BY <1>1, <2>2
    <3> HIDE DEF i
    <3>2. QED
      BY <1>4, <1>5, <1>6, <3>1
  <2>3. CASE j > Len(q) + n
    <3> DEFINE i == j - Len(q)
               k == j - Len(q) - n
    <3>1. /\ k \in 1..(Len(r) - n) /\ i \in 1..Len(r) /\ i = n + k
          /\ j = Len(q) + i /\ j = Len(q) + n + k
      BY <1>1, <2>3
    <3> HIDE DEF i, k
    <3>2. QED
      BY <1>5, <1>6, <3>1, ZenonT(60)
  <2>4. j \in 1..Len(q) \/ j \in (Len(q) + 1)..(Len(q) + n) \/ j > Len(q) + n
    BY <1>1
  <2>5. QED
    BY <2>1, <2>2, <2>3, <2>4
<1>8. left \o rest = q \o r
  BY <1>5, <1>6, <1>7, EqualFacts
<1>9. QED
  BY <1>8 DEF left, front, rest

\* The first element, and what is behind it, as pieces.
LEMMA FirstFacts ==
  ASSUME NEW S, NEW q \in Seq(S), q # <<>>
  PROVE  SubSeq(q, 1, 1) = <<Head(q)>> /\ SubSeq(q, 2, Len(q)) = Tail(q)
<1> DEFINE m == 0
           n == 1
           one == <<Head(q)>>
           piece == SubSeq(q, m + 1, n)
<1>1. Len(q) \in Nat /\ Len(q) > 0 /\ Head(q) = q[1] /\ Head(q) \in S
  BY TailFacts
<1>2. one \in Seq(S) /\ Len(one) = 1 /\ one[1] = Head(q)
  BY <1>1
<1>3. m \in Nat /\ n \in Nat /\ n <= Len(q) /\ m + 1 = 1 /\ n - m = 1 /\ m <= n /\ m + 1 \in 1..(n - m)
  BY <1>1
<1> HIDE DEF m, n, one
<1>4. piece \in Seq(S) /\ Len(piece) = 1 /\ piece[1] = q[1]
  BY <1>3, PieceFacts
<1> HIDE DEF piece
<1>5. \A j \in 1..Len(one) : one[j] = piece[j]
  BY <1>1, <1>2, <1>4
<1>6. one = piece
  BY <1>2, <1>4, <1>5, EqualFacts
<1>7. SubSeq(q, 1, 1) = <<Head(q)>>
  <2>1. piece = SubSeq(q, m + 1, n) /\ one = <<Head(q)>>
    BY DEF piece, one
  <2>2. m + 1 = 1 /\ n = 1
    BY <1>3 DEF n
  <2>3. QED
    BY <1>6, <2>1, <2>2, Zenon
<1>8. SubSeq(q, 2, Len(q)) = Tail(q)
  OBVIOUS
<1>9. QED
  BY <1>7, <1>8

\* Three sequences one after another.
LEMMA JoinFacts ==
  ASSUME NEW S, NEW p \in Seq(S), NEW q \in Seq(S), NEW r \in Seq(S)
  PROVE  p \o (q \o r) = (p \o q) \o r
<1> DEFINE both == q \o r
           n == Len(q)
<1>1. both \in Seq(S) /\ n \in Nat /\ n <= Len(both) /\ Len(both) \in Nat /\ r = SubSeq(both, n + 1, Len(both))
  BY ConcatFacts, RestFacts
<1>2. q = SubSeq(both, 1, n)
  <2> DEFINE m == 0
             front == SubSeq(both, m + 1, n)
  <2>1. m \in Nat /\ n - m = n /\ m <= n /\ \A j \in Nat : m + j = j
    BY <1>1
  <2> HIDE DEF m
  <2>2. front \in Seq(S) /\ Len(front) = n /\ \A j \in 1..n : front[j] = both[j]
    BY <1>1, <2>1, PieceFacts
  <2>3. \A j \in 1..Len(q) : both[j] = q[j]
    BY ConcatFacts
  <2> HIDE DEF both, front
  <2>4. q = front
    BY <2>2, <2>3, EqualFacts DEF n
  <2>5. m + 1 = 1
    BY DEF m
  <2>6. QED
    BY <2>4, <2>5, Zenon DEF front
<1> HIDE DEF both, n
<1>3. (p \o SubSeq(both, 1, n)) \o SubSeq(both, n + 1, Len(both)) = p \o both
  BY <1>1, ShiftFacts
<1>4. (p \o q) \o r = p \o both
  BY <1>1, <1>2, <1>3, Zenon
<1>5. QED
  BY <1>4 DEF both
=============================================================================
