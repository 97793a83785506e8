--------------------------- MODULE Frames_proofs ---------------------------
(***************************************************************************)
(* What the proofs about both ends of the serial line need of the line and *)
(* of the message buffer.                                                  *)
(*                                                                         *)
(* A message is complete by its last byte, so that the order in which      *)
(* messages are taken from a line follows from where the last bytes of the *)
(* frames on it come from, whatever happens to the other bytes.            *)
(***************************************************************************)
EXTENDS Frames, TLAPS

Final(b) == b[2] = FrameLen

(* d was taken, in order, from the first p frames of t.                    *)
TakenFrom(d, p, t) ==
    /\ Len(d) <= p
    /\ \E at \in [1 .. Len(d) -> 1 .. p] :
          /\ \A i \in 1 .. Len(d) : d[i] = t[at[i]]
          /\ \A i, j \in 1 .. Len(d) : i < j => at[i] < at[j]

(* The last bytes in s are those of frames a + 1 .. b of t, in order.      *)
Within(s, a, b, t) ==
    \E o \in [1 .. Len(s) -> Int] :
       /\ \A i \in 1 .. Len(s) : Final(s[i]) => o[i] \in a + 1 .. b /\ t[o[i]] = s[i][1]
       /\ \A i, j \in 1 .. Len(s) : i < j /\ Final(s[i]) /\ Final(s[j]) => o[i] < o[j]

-----------------------------------------------------------------------------
(* Taking one more.                                                        *)
LEMMA TakeOne ==
    ASSUME NEW T, NEW d \in Seq(T), NEW t \in Seq(T), NEW p \in Nat, NEW r \in Nat,
           TakenFrom(d, p, t), p < r, r <= Len(t)
    PROVE  TakenFrom(Append(d, t[r]), r, t)
<1>1. PICK at \in [1 .. Len(d) -> 1 .. p] :
          /\ \A i \in 1 .. Len(d) : d[i] = t[at[i]]
          /\ \A i, j \in 1 .. Len(d) : i < j => at[i] < at[j]
  BY DEF TakenFrom
<1> DEFINE e == Append(d, t[r])
           n == Len(d)
           to == [i \in 1 .. n + 1 |-> IF i = n + 1 THEN r ELSE at[i]]
<1>2. /\ n \in Nat /\ n <= p /\ Len(e) = n + 1 /\ e[n + 1] = t[r]
      /\ \A i \in 1 .. n : e[i] = d[i]
  BY DEF TakenFrom
<1>3. r \in 1 .. r /\ \A i \in 1 .. n : at[i] \in 1 .. p /\ at[i] \in 1 .. r
  BY <1>2
<1>4. \A i \in 1 .. n + 1 : i = n + 1 \/ i \in 1 .. n
  BY <1>2
<1>5. /\ to \in [1 .. n + 1 -> 1 .. r] /\ to[n + 1] = r
      /\ \A i \in 1 .. n : to[i] = at[i] /\ at[i] \in 1 .. p
  BY <1>2, <1>3, <1>4
<1> HIDE DEF e, to
<1>6. \A i \in 1 .. n + 1 : e[i] = t[to[i]]
  BY <1>1, <1>2, <1>5
<1> HIDE DEF n
<1>7. \A i, j \in 1 .. n : i < j => to[i] < to[j]
  BY <1>1, <1>5 DEF n
<1>8. \A i \in 1 .. n : to[i] < to[n + 1]
  BY <1>2, <1>5
<1>9. \A i, j \in 1 .. n + 1 : i < j => to[i] < to[j]
  BY <1>2, <1>4, <1>7, <1>8
<1>10. Len(e) <= r
  BY <1>2
<1>11. TakenFrom(e, r, t)
  BY <1>2, <1>5, <1>6, <1>9, <1>10 DEF TakenFrom
<1> QED
  BY <1>11 DEF e

(* Passing over some, and frames that are added.                           *)
LEMMA TakenFromMore ==
    ASSUME NEW d, NEW t, NEW u, NEW p \in Nat, NEW r \in Nat,
           Len(d) \in Nat, TakenFrom(d, p, t), p <= r, \A i \in 1 .. p : u[i] = t[i]
    PROVE  TakenFrom(d, r, u)
<1>1. PICK at \in [1 .. Len(d) -> 1 .. p] :
          /\ \A i \in 1 .. Len(d) : d[i] = t[at[i]]
          /\ \A i, j \in 1 .. Len(d) : i < j => at[i] < at[j]
  BY DEF TakenFrom
<1>2. at \in [1 .. Len(d) -> 1 .. r]
  OBVIOUS
<1>3. \A i \in 1 .. Len(d) : d[i] = u[at[i]]
  BY <1>1
<1>4. Len(d) <= r
  BY DEF TakenFrom
<1> QED
  BY <1>1, <1>2, <1>3, <1>4 DEF TakenFrom

LEMMA TakenFromEmpty == TakenFrom(<< >>, 0, << >>)
<1> DEFINE d == << >>
           at == [i \in 1 .. Len(d) |-> 1]
<1>1. Len(d) = 0 /\ 1 .. Len(d) = {}
  OBVIOUS
<1>2. at \in [1 .. Len(d) -> 1 .. 0]
  BY <1>1
<1> HIDE DEF d, at
<1>3. /\ Len(d) <= 0
      /\ \A i \in 1 .. Len(d) : d[i] = d[at[i]]
      /\ \A i, j \in 1 .. Len(d) : i < j => at[i] < at[j]
  BY <1>1
<1>4. TakenFrom(d, 0, d)
  BY <1>2, <1>3 DEF TakenFrom
<1> QED
  BY <1>4 DEF d

LEMMA TakenFromPrefix ==
    ASSUME NEW T, NEW d \in Seq(T), NEW x \in T, NEW p \in Nat, NEW t,
           TakenFrom(Append(d, x), p, t)
    PROVE  TakenFrom(d, p, t)
<1> DEFINE e == Append(d, x)
<1>1. /\ Len(d) \in Nat /\ Len(e) = Len(d) + 1
      /\ \A i \in 1 .. Len(d) : i \in 1 .. Len(e) /\ e[i] = d[i]
  OBVIOUS
<1>2. TakenFrom(e, p, t)
  OBVIOUS
<1> HIDE DEF e
<1>3. PICK at \in [1 .. Len(e) -> 1 .. p] :
        /\ \A i \in 1 .. Len(e) : e[i] = t[at[i]]
        /\ \A i, j \in 1 .. Len(e) : i < j => at[i] < at[j]
  BY <1>2 DEF TakenFrom
<1> DEFINE to == [i \in 1 .. Len(d) |-> at[i]]
<1>4. to \in [1 .. Len(d) -> 1 .. p] /\ \A i \in 1 .. Len(d) : to[i] = at[i]
  BY <1>1
<1> HIDE DEF to
<1>5. \A i \in 1 .. Len(d) : d[i] = t[to[i]]
  BY <1>1, <1>3, <1>4
<1>6. \A i, j \in 1 .. Len(d) : i < j => to[i] < to[j]
  BY <1>1, <1>3, <1>4
<1>7. Len(d) <= p
  BY <1>1, <1>2 DEF TakenFrom
<1> QED
  BY <1>4, <1>5, <1>6, <1>7 DEF TakenFrom

-----------------------------------------------------------------------------
(* What is left of s, in order, when some bytes are lost or replaced by    *)
(* bytes that end no frame; h says where the others were.                  *)
LEMMA WithinSelected ==
    ASSUME NEW s, NEW u, NEW a, NEW b, NEW t, Len(s) \in Nat, Len(u) \in Nat,
           Within(s, a, b, t),
           NEW h \in [1 .. Len(u) -> 1 .. Len(s)],
           \A i, j \in 1 .. Len(u) : i < j => h[i] < h[j],
           \A i \in 1 .. Len(u) : Final(u[i]) => u[i] = s[h[i]]
    PROVE  Within(u, a, b, t)
<1>1. PICK o \in [1 .. Len(s) -> Int] :
         /\ \A i \in 1 .. Len(s) : Final(s[i]) => o[i] \in a + 1 .. b /\ t[o[i]] = s[i][1]
         /\ \A i, j \in 1 .. Len(s) : i < j /\ Final(s[i]) /\ Final(s[j]) => o[i] < o[j]
  BY DEF Within
<1> DEFINE q == [i \in 1 .. Len(u) |-> o[h[i]]]
<1>2. q \in [1 .. Len(u) -> Int]
  OBVIOUS
<1>3. \A i \in 1 .. Len(u) : Final(u[i]) => q[i] \in a + 1 .. b /\ t[q[i]] = u[i][1]
  BY <1>1
<1>4. \A i, j \in 1 .. Len(u) : i < j /\ Final(u[i]) /\ Final(u[j]) => q[i] < q[j]
  BY <1>1
<1> HIDE DEF q
<1> QED
  BY <1>2, <1>3, <1>4 DEF Within

LEMMA WithinEmpty == ASSUME NEW a, NEW b, NEW t PROVE Within(<< >>, a, b, t)
<1> DEFINE o == [i \in 1 .. 0 |-> 0]
<1>1. o \in [1 .. 0 -> Int] /\ \A i \in 1 .. 0 : FALSE
  OBVIOUS
<1>2. Len(<< >>) = 0
  OBVIOUS
<1> HIDE DEF o
<1> QED
  BY <1>1, <1>2 DEF Within

LEMMA WithinPart ==
    ASSUME NEW T, NEW s \in Seq(T), NEW a, NEW b, NEW t, Within(s, a, b, t),
           NEW m \in 1 .. Len(s) + 1, NEW n \in 0 .. Len(s)
    PROVE  Within(SubSeq(s, m, n), a, b, t)
<1> DEFINE u == SubSeq(s, m, n)
           h == [i \in 1 .. Len(u) |-> i + m - 1]
<1>1. Len(u) = IF m <= n THEN n - m + 1 ELSE 0
  OBVIOUS
<1>2. \A i \in 1 .. Len(u) : i + m - 1 \in 1 .. Len(s) /\ u[i] = s[i + m - 1]
  BY <1>1
<1>3. h \in [1 .. Len(u) -> 1 .. Len(s)] /\ \A i, j \in 1 .. Len(u) : i < j => h[i] < h[j]
  BY <1>1, <1>2
<1>4. \A i \in 1 .. Len(u) : u[i] = s[h[i]]
  BY <1>2
<1>5. Len(u) \in Nat /\ Len(s) \in Nat
  BY <1>1
<1> HIDE DEF u, h
<1>6. Within(u, a, b, t)
  BY <1>3, <1>4, <1>5, WithinSelected
<1> QED
  BY <1>6 DEF u

(* Wider bounds, and another list that has the same frames there.          *)
LEMMA WithinWider ==
    ASSUME NEW s, NEW a \in Int, NEW b \in Int, NEW c \in Int, NEW d \in Int, NEW t, NEW u,
           Len(s) \in Nat, Within(s, a, b, t), c <= a, b <= d,
           \A i \in a + 1 .. b : u[i] = t[i]
    PROVE  Within(s, c, d, u)
  BY DEF Within

LEMMA WithinAppend ==
    ASSUME NEW T, NEW s \in Seq(T), NEW a \in Int, NEW b \in Int, NEW c \in Int, NEW t,
           NEW x \in T, Within(s, a, b, t), a <= b, b <= c, Final(x) => b < c /\ t[c] = x[1]
    PROVE  Within(Append(s, x), a, c, t)
<1>1. PICK o \in [1 .. Len(s) -> Int] :
         /\ \A i \in 1 .. Len(s) : Final(s[i]) => o[i] \in a + 1 .. b /\ t[o[i]] = s[i][1]
         /\ \A i, j \in 1 .. Len(s) : i < j /\ Final(s[i]) /\ Final(s[j]) => o[i] < o[j]
  BY DEF Within
<1> DEFINE n == Len(s)
           u == Append(s, x)
           q == [i \in 1 .. n + 1 |-> IF i = n + 1 THEN c ELSE o[i]]
<1>2. n \in Nat /\ Len(u) = n + 1 /\ u[n + 1] = x /\ \A i \in 1 .. n : u[i] = s[i]
  OBVIOUS
<1>3. q \in [1 .. n + 1 -> Int] /\ q[n + 1] = c /\ \A i \in 1 .. n : q[i] = o[i]
  BY <1>2
<1>4. \A i \in 1 .. n + 1 : i = n + 1 \/ i \in 1 .. n
  BY <1>2
<1> HIDE DEF n, u, q
<1>5. \A i \in 1 .. n : Final(u[i]) => q[i] \in a + 1 .. b /\ t[q[i]] = u[i][1]
  BY <1>1, <1>2, <1>3 DEF n
<1>6. Final(u[n + 1]) => q[n + 1] \in a + 1 .. c /\ t[q[n + 1]] = u[n + 1][1]
  BY <1>2, <1>3
<1>7. \A i \in 1 .. n + 1 : Final(u[i]) => q[i] \in a + 1 .. c /\ t[q[i]] = u[i][1]
  BY <1>4, <1>5, <1>6
<1>8. \A i, j \in 1 .. n : i < j /\ Final(u[i]) /\ Final(u[j]) => q[i] < q[j]
  BY <1>1, <1>2, <1>3 DEF n
<1>9. \A i \in 1 .. n : Final(u[i]) /\ Final(u[n + 1]) => q[i] < q[n + 1]
  BY <1>2, <1>3, <1>5
<1>10. \A i, j \in 1 .. n + 1 : i < j /\ Final(u[i]) /\ Final(u[j]) => q[i] < q[j]
  BY <1>2, <1>4, <1>8, <1>9
<1> QED
  BY <1>2, <1>3, <1>7, <1>10 DEF Within, u

(* The first byte of s: what ends before it, and what is left.             *)
LEMMA WithinPop ==
    ASSUME NEW T, NEW s \in Seq(T), NEW a \in Int, NEW b \in Int, NEW t,
           Within(s, a, b, t), a <= b, s # << >>
    PROVE  \E r \in a .. b : /\ Within(Tail(s), r, b, t)
                             /\ Final(Head(s)) => a < r /\ t[r] = Head(s)[1]
<1>1. PICK o \in [1 .. Len(s) -> Int] :
         /\ \A i \in 1 .. Len(s) : Final(s[i]) => o[i] \in a + 1 .. b /\ t[o[i]] = s[i][1]
         /\ \A i, j \in 1 .. Len(s) : i < j /\ Final(s[i]) /\ Final(s[j]) => o[i] < o[j]
  BY DEF Within
<1> DEFINE u == Tail(s)
           n == Len(s)
           q == [i \in 1 .. n - 1 |-> o[i + 1]]
           r == IF Final(s[1]) THEN o[1] ELSE a
<1>2. /\ n \in Nat \ {0} /\ Len(u) = n - 1 /\ Head(s) = s[1] /\ 1 \in 1 .. n
      /\ \A i \in 1 .. n - 1 : i + 1 \in 1 .. n /\ 1 < i + 1 /\ u[i] = s[i + 1]
  OBVIOUS
<1>3. q \in [1 .. n - 1 -> Int] /\ \A i \in 1 .. n - 1 : q[i] = o[i + 1]
  BY <1>2
<1> HIDE DEF n, u, q
<1>4. r \in a .. b /\ (Final(Head(s)) => a < r /\ t[r] = Head(s)[1])
  BY <1>1, <1>2 DEF n
<1>5. \A i \in 1 .. n - 1 : Final(u[i]) => q[i] \in r + 1 .. b /\ t[q[i]] = u[i][1]
  <2> SUFFICES ASSUME NEW i \in 1 .. n - 1, Final(u[i])
               PROVE  q[i] \in r + 1 .. b /\ t[q[i]] = u[i][1]
    OBVIOUS
  <2>1. i + 1 \in 1 .. n /\ 1 < i + 1 /\ Final(s[i + 1]) /\ q[i] = o[i + 1] /\ u[i] = s[i + 1]
    BY <1>2, <1>3
  <2>2. o[i + 1] \in a + 1 .. b /\ t[o[i + 1]] = s[i + 1][1] /\ (Final(s[1]) => o[1] < o[i + 1])
    BY <1>1, <1>2, <2>1 DEF n
  <2>3. r < o[i + 1]
    BY <2>2, <1>1, <1>2 DEF n
  <2> QED
    BY <2>1, <2>2, <2>3, <1>4
<1>6. \A i, j \in 1 .. n - 1 : i < j /\ Final(u[i]) /\ Final(u[j]) => q[i] < q[j]
  <2> SUFFICES ASSUME NEW i \in 1 .. n - 1, NEW j \in 1 .. n - 1, i < j,
                      Final(u[i]), Final(u[j])
               PROVE  q[i] < q[j]
    OBVIOUS
  <2>1. i + 1 \in 1 .. n /\ j + 1 \in 1 .. n /\ i + 1 < j + 1
    BY <1>2
  <2>2. Final(s[i + 1]) /\ Final(s[j + 1])
    BY <1>2
  <2>3. o[i + 1] < o[j + 1]
    BY <1>1, <2>1, <2>2 DEF n
  <2> QED
    BY <1>3, <2>3
<1>7. Within(u, r, b, t)
  BY <1>2, <1>3, <1>5, <1>6 DEF Within
<1> QED
  BY <1>4, <1>7 DEF u

(* One piece after the other.                                              *)
LEMMA WithinConcat ==
    ASSUME NEW T, NEW s \in Seq(T), NEW u \in Seq(T),
           NEW a \in Int, NEW b \in Int, NEW c \in Int, NEW t,
           Within(s, a, b, t), Within(u, b, c, t), a <= b, b <= c
    PROVE  Within(s \o u, a, c, t)
<1>1. PICK o \in [1 .. Len(s) -> Int] :
         /\ \A i \in 1 .. Len(s) : Final(s[i]) => o[i] \in a + 1 .. b /\ t[o[i]] = s[i][1]
         /\ \A i, j \in 1 .. Len(s) : i < j /\ Final(s[i]) /\ Final(s[j]) => o[i] < o[j]
  BY DEF Within
<1>2. PICK p \in [1 .. Len(u) -> Int] :
         /\ \A i \in 1 .. Len(u) : Final(u[i]) => p[i] \in b + 1 .. c /\ t[p[i]] = u[i][1]
         /\ \A i, j \in 1 .. Len(u) : i < j /\ Final(u[i]) /\ Final(u[j]) => p[i] < p[j]
  BY DEF Within
<1> DEFINE m == Len(s)
           n == Len(u)
           v == s \o u
           q == [i \in 1 .. m + n |-> IF i <= m THEN o[i] ELSE p[i - m]]
<1>3. /\ m \in Nat /\ n \in Nat /\ Len(v) = m + n
      /\ \A i \in 1 .. m : v[i] = s[i]
      /\ \A i \in 1 .. n : v[m + i] = u[i]
  OBVIOUS
<1>4. \A i \in 1 .. m + n : i \in 1 .. m \/ (i - m \in 1 .. n /\ i = m + (i - m) /\ i > m)
  BY <1>3
<1>5. /\ q \in [1 .. m + n -> Int]
      /\ \A i \in 1 .. m : q[i] = o[i]
      /\ \A i \in 1 .. n : q[m + i] = p[i]
  BY <1>3, <1>4
<1> HIDE DEF m, n, v, q
<1>6. \A i \in 1 .. m : Final(v[i]) => q[i] \in a + 1 .. b /\ t[q[i]] = v[i][1]
  BY <1>1, <1>3, <1>5 DEF m
<1>7. \A i \in 1 .. n : Final(v[m + i]) => q[m + i] \in b + 1 .. c /\ t[q[m + i]] = v[m + i][1]
  <2> SUFFICES ASSUME NEW i \in 1 .. n, Final(v[m + i])
               PROVE  q[m + i] \in b + 1 .. c /\ t[q[m + i]] = v[m + i][1]
    OBVIOUS
  <2>1. v[m + i] = u[i] /\ q[m + i] = p[i]
    BY <1>3, <1>5
  <2>2. i \in 1 .. Len(u) /\ Final(u[i])
    BY <2>1 DEF n
  <2> QED
    BY <1>2, <2>1, <2>2
<1>8. \A i \in 1 .. m + n : Final(v[i]) => q[i] \in a + 1 .. c /\ t[q[i]] = v[i][1]
  <2> SUFFICES ASSUME NEW i \in 1 .. m + n, Final(v[i])
               PROVE  q[i] \in a + 1 .. c /\ t[q[i]] = v[i][1]
    OBVIOUS
  <2>1. CASE i \in 1 .. m
    BY <1>6, <2>1
  <2>2. CASE i - m \in 1 .. n /\ i = m + (i - m)
    BY <1>7, <2>2
  <2> QED
    BY <1>4, <2>1, <2>2
<1>9. \A i, j \in 1 .. m + n : i < j /\ Final(v[i]) /\ Final(v[j]) => q[i] < q[j]
  <2> SUFFICES ASSUME NEW i \in 1 .. m + n, NEW j \in 1 .. m + n, i < j,
                      Final(v[i]), Final(v[j])
               PROVE  q[i] < q[j]
    OBVIOUS
  <2>1. CASE i \in 1 .. m /\ j \in 1 .. m
    BY <1>1, <1>3, <1>5, <2>1 DEF m
  <2>2. CASE i \in 1 .. m /\ j - m \in 1 .. n /\ j = m + (j - m)
    <3>1. q[i] \in a + 1 .. b
      BY <1>6, <2>2
    <3>2. q[j] \in b + 1 .. c
      BY <1>7, <2>2
    <3> QED
      BY <3>1, <3>2
  <2>3. CASE i - m \in 1 .. n /\ i = m + (i - m) /\ j - m \in 1 .. n /\ j = m + (j - m)
    <3> DEFINE k == i - m
               l == j - m
    <3>1. k < l
      BY <1>3
    <3>2. u[k] = v[i] /\ u[l] = v[j] /\ q[i] = p[k] /\ q[j] = p[l]
      BY <1>3, <1>5, <2>3
    <3> HIDE DEF k, l
    <3>3. k \in 1 .. n /\ l \in 1 .. n
      BY <2>3 DEF k, l
    <3> QED
      BY <1>2, <3>1, <3>2, <3>3 DEF n
  <2> QED
    BY <1>3, <1>4, <2>1, <2>2, <2>3
<1>10. Within(v, a, c, t)
  <2>1. Len(v) = m + n /\ q \in [1 .. m + n -> Int]
    BY <1>3, <1>5
  <2> QED
    BY <1>8, <1>9, <2>1 DEF Within
<1> QED
  BY <1>10 DEF v

-----------------------------------------------------------------------------
(* The bytes of a frame.                                                   *)
LEMMA FrameBytesFacts ==
    ASSUME NEW F, NEW f \in F
    PROVE  /\ FrameBytes(f) \in Seq(F \X (1 .. FrameLen))
           /\ FrameBytes(f) \in Seq(BytesOf(F))
           /\ Len(FrameBytes(f)) = FrameLen
           /\ \A i \in 1 .. FrameLen : FrameBytes(f)[i] = <<f, i>>
<1>1. FrameLen \in Nat
  BY FrameAssumption DEF FrameAssumption
<1>2. FrameBytes(f) \in [1 .. FrameLen -> F \X (1 .. FrameLen)]
  BY DEF FrameBytes, Byte
<1>3. FrameBytes(f) \in Seq(F \X (1 .. FrameLen)) /\ Len(FrameBytes(f)) = FrameLen
  BY <1>1, <1>2
<1>4. FrameBytes(f) \in [1 .. FrameLen -> BytesOf(F)]
  BY <1>2 DEF BytesOf
<1>5. FrameBytes(f) \in Seq(BytesOf(F))
  BY <1>1, <1>4
<1> QED
  BY <1>3, <1>5 DEF FrameBytes, Byte

(* The first k of them.                                                    *)
LEMMA BeginningFacts ==
    ASSUME NEW F, NEW f \in F, NEW k \in 0 .. FrameLen
    PROVE  LET s == SubSeq(FrameBytes(f), 1, k)
           IN  /\ s \in Seq(BytesOf(F))
               /\ Len(s) = k
               /\ \A i \in 1 .. k : s[i] = <<f, i>>
               /\ k = FrameLen => s = FrameBytes(f)
<1> DEFINE u == FrameBytes(f)
           s == SubSeq(u, 1, k)
<1>1. FrameLen \in Nat /\ u \in Seq(BytesOf(F)) /\ Len(u) = FrameLen
      /\ \A i \in 1 .. FrameLen : u[i] = <<f, i>>
  BY FrameBytesFacts, FrameAssumption DEF FrameAssumption
<1> HIDE DEF u
<1>2. s \in Seq(BytesOf(F)) /\ Len(s) = k /\ \A i \in 1 .. k : s[i] = <<f, i>>
  BY <1>1
<1>3. k = FrameLen => s = u
  BY <1>1
<1> QED
  BY <1>2, <1>3 DEF u

(* A frame, or the beginning of one, comes after what is on the line; t    *)
(* has the whole frames.                                                   *)
LEMMA WithinWritten ==
    ASSUME NEW F, NEW f \in F, NEW k \in 0 .. FrameLen, NEW a \in Nat,
           NEW s \in Seq(BytesOf(F)), NEW t \in Seq(F), NEW v \in Seq(F),
           a <= Len(t), Within(s, a, Len(t), t),
           v = IF k = FrameLen THEN Append(t, f) ELSE t
    PROVE  /\ Within(s \o SubSeq(FrameBytes(f), 1, k), a, Len(v), v)
           /\ s \o SubSeq(FrameBytes(f), 1, k) \in Seq(BytesOf(F))
<1> DEFINE u == SubSeq(FrameBytes(f), 1, k)
           n == Len(t)
           o == [i \in 1 .. k |-> n + 1]
<1>1. FrameLen \in Nat /\ u \in Seq(BytesOf(F)) /\ Len(u) = k /\ \A i \in 1 .. k : u[i] = <<f, i>>
  BY BeginningFacts, FrameAssumption DEF FrameAssumption
<1>2. n \in Nat /\ n <= Len(v) /\ \A i \in 1 .. n : v[i] = t[i]
  OBVIOUS
<1>3. k = FrameLen => Len(v) = n + 1 /\ v[n + 1] = f
  OBVIOUS
<1> HIDE DEF u
<1>4. \A i \in 1 .. k : Final(u[i]) => i = FrameLen /\ k = FrameLen /\ u[i][1] = f
  BY <1>1 DEF Final
<1>5. o \in [1 .. k -> Int] /\ \A i \in 1 .. k : o[i] = n + 1
  BY <1>2
<1> HIDE DEF n, o
<1>6. \A i \in 1 .. k : Final(u[i]) => o[i] \in n + 1 .. Len(v) /\ v[o[i]] = u[i][1]
  BY <1>2, <1>3, <1>4, <1>5
<1>7. \A i, j \in 1 .. k : i < j /\ Final(u[i]) /\ Final(u[j]) => o[i] < o[j]
  BY <1>4
<1>8. Within(u, n, Len(v), v)
  BY <1>1, <1>5, <1>6, <1>7 DEF Within
<1>9. Within(s, a, n, v)
  <2>1. \A i \in a + 1 .. n : v[i] = t[i]
    BY <1>2
  <2>2. Within(s, a, n, t) /\ Len(s) \in Nat /\ a \in Int /\ n \in Int /\ a <= a /\ n <= n
    BY <1>2 DEF n
  <2> QED
    BY <1>2, <2>1, <2>2, WithinWider
<1>10. Within(s \o u, a, Len(v), v)
  <2>1. a <= n /\ Len(v) \in Int
    BY DEF n
  <2> QED
    BY <1>1, <1>2, <1>8, <1>9, <2>1, WithinConcat
<1>11. s \o u \in Seq(BytesOf(F))
  BY <1>1
<1> QED
  BY <1>10, <1>11 DEF u

-----------------------------------------------------------------------------
(* The buffers.                                                            *)
LEMMA PushFacts ==
    ASSUME NEW T, NEW s \in Seq(T), NEW x \in T, NEW c \in Nat \ {0}, Len(s) <= c
    PROVE  LET u == Deque!PushOver(c, s, x)
           IN  /\ u \in Seq(T)
               /\ Len(u) = IF Len(s) < c THEN Len(s) + 1 ELSE c
               /\ u[Len(u)] = x
               /\ Len(s) < c => \A i \in 1 .. Len(s) : u[i] = s[i]
               /\ Len(s) = c => \A i \in 1 .. c - 1 : u[i] = s[i + 1]
<1>1. CASE Len(s) < c
  BY <1>1 DEF Deque!PushOver
<1>2. CASE Len(s) = c
  <2>1. Tail(s) \in Seq(T) /\ Len(Tail(s)) = c - 1 /\ \A i \in 1 .. c - 1 : Tail(s)[i] = s[i + 1]
    BY <1>2
  <2> QED
    BY <1>2, <2>1 DEF Deque!PushOver
<1> QED
  BY <1>1, <1>2

(* A buffer that gets the next byte of a line.                             *)
LEMMA WithinPushed ==
    ASSUME NEW T, NEW s \in Seq(T), NEW x \in T, NEW c \in Nat \ {0}, Len(s) <= c,
           NEW a \in Int, NEW b \in Int, NEW r \in Int, NEW t,
           Within(s, a, b, t), a <= b, b <= r, Final(x) => b < r /\ t[r] = x[1]
    PROVE  Within(Deque!PushOver(c, s, x), a, r, t)
<1>1. CASE Len(s) < c
  <2>1. Within(Append(s, x), a, r, t)
    BY WithinAppend
  <2> QED
    BY <1>1, <2>1 DEF Deque!PushOver
<1>2. CASE Len(s) = c
  <2>1. s # << >> /\ Tail(s) = SubSeq(s, 2, Len(s)) /\ Tail(s) \in Seq(T)
        /\ 2 \in 1 .. Len(s) + 1 /\ Len(s) \in 0 .. Len(s)
    BY <1>2
  <2>2. Within(Tail(s), a, b, t)
    BY <2>1, WithinPart
  <2>3. Within(Append(Tail(s), x), a, r, t)
    BY <2>1, <2>2, WithinAppend
  <2> QED
    BY <1>2, <2>3 DEF Deque!PushOver
<1> QED
  BY <1>1, <1>2

(* A message is complete by its last byte.                                 *)
LEMMA ValidFacts ==
    ASSUME NEW s, Valid(s)
    PROVE  /\ Len(s) = FrameLen /\ s # << >>
           /\ \A i \in 1 .. FrameLen : s[i] = <<s[1][1], i>>
           /\ s[FrameLen] = <<s[1][1], FrameLen>> /\ Final(s[FrameLen])
<1>1. FrameLen \in Nat /\ FrameLen \in 1 .. FrameLen /\ FrameLen # 0
  BY FrameAssumption DEF FrameAssumption
<1>2. s = FrameBytes(s[1][1]) /\ Len(s) = FrameLen
  BY DEF Valid
<1>3. \A f : \A i \in 1 .. FrameLen : FrameBytes(f)[i] = <<f, i>>
  BY DEF FrameBytes, Byte
<1>4. \A i \in 1 .. FrameLen : s[i] = <<s[1][1], i>>
  BY <1>2, <1>3
<1>5. Len(<< >>) # FrameLen
  BY <1>1
<1> QED
  BY <1>1, <1>2, <1>4, <1>5 DEF Final

-----------------------------------------------------------------------------
(* A line that loses nothing.  Each frame is P bytes on it: its own and,   *)
(* if P = FrameLen + 1, the newline after it.                              *)

ByteOf(t, a, b) == IF b <= FrameLen THEN Byte(t[a], b) ELSE Newline

(* s is what is to come of the frames t from byte k of frame i on.         *)
Rest(s, t, P, i, k) ==
    /\ i \in 1 .. Len(t) + 1 /\ k \in 1 .. P
    /\ i = Len(t) + 1 => k = 1
    /\ Len(s) = (Len(t) + 1 - i) * P - k + 1
    /\ \A a \in i .. Len(t), b \in 1 .. P :
          (a - i) * P + b - k + 1 >= 1 => s[(a - i) * P + b - k + 1] = ByteOf(t, a, b)

LEMMA Products ==
    ASSUME NEW P \in Nat, NEW m \in Int
    PROVE  /\ m * P \in Int /\ (m + 1) * P = m * P + P /\ (m - 1) * P = m * P - P
           /\ m >= 0 => m * P >= 0
           /\ 0 * P = 0
<1>1. m * P \in Int /\ (m + 1) * P = m * P + P /\ (m - 1) * P = m * P - P /\ 0 * P = 0
  OBVIOUS
<1>2. m >= 0 => m * P >= 0
  OBVIOUS
<1> QED
  BY <1>1, <1>2

LEMMA RestEnd ==
    ASSUME NEW s, NEW t, NEW P \in Nat \ {0}, NEW i, NEW k, Len(t) \in Nat, Rest(s, t, P, i, k)
    PROVE  (s = << >> => i = Len(t) + 1) /\ (i = Len(t) + 1 => k = 1 /\ Len(s) = 0)
<1> DEFINE m == Len(t) + 1 - i
<1>1. m \in Nat /\ k \in 1 .. P /\ Len(s) = m * P - k + 1
  BY DEF Rest
<1>2. CASE m > 0
  <2>1. m - 1 \in Int /\ (m - 1) * P >= 0 /\ (m - 1) * P = m * P - P /\ m * P \in Int
    BY <1>1, <1>2, Products
  <2> HIDE DEF m
  <2>2. Len(s) > 0
    BY <1>1, <2>1
  <2> QED
    BY <1>1, <1>2, <2>2 DEF m
<1>3. CASE m = 0
  <2>1. i = Len(t) + 1 /\ k = 1
    BY <1>3 DEF Rest
  <2>2. m * P = 0
    BY <1>3, Products
  <2> QED
    BY <1>1, <2>1, <2>2
<1> QED
  BY <1>1, <1>2, <1>3

LEMMA RestPop ==
    ASSUME NEW T, NEW s \in Seq(T), NEW t, NEW P \in Nat \ {0}, NEW i, NEW k, Len(t) \in Nat,
           Rest(s, t, P, i, k), s # << >>
    PROVE  /\ i \in 1 .. Len(t) /\ Head(s) = ByteOf(t, i, k)
           /\ k < P => Rest(Tail(s), t, P, i, k + 1)
           /\ k = P => Rest(Tail(s), t, P, i + 1, 1)
<1>1. /\ i \in 1 .. Len(t) + 1 /\ k \in 1 .. P /\ Len(s) \in Nat /\ Len(s) # 0
      /\ Len(s) = (Len(t) + 1 - i) * P - k + 1
      /\ Head(s) = s[1] /\ Len(Tail(s)) = Len(s) - 1
      /\ \A j \in 1 .. Len(s) - 1 : Tail(s)[j] = s[j + 1]
  BY DEF Rest
<1>2. i \in 1 .. Len(t)
  BY <1>1, RestEnd
<1>3. Head(s) = ByteOf(t, i, k)
  <2>1. (i - i) * P + k - k + 1 = 1
    BY <1>1
  <2> QED
    BY <1>1, <1>2, <2>1 DEF Rest
<1> DEFINE J(a, b) == (a - i) * P + b - k + 1
<1>4. \A a \in i .. Len(t), b \in 1 .. P : J(a, b) >= 1 => s[J(a, b)] = ByteOf(t, a, b)
  BY DEF Rest
<1>5. \A a \in i .. Len(t), b \in 1 .. P : J(a, b) \in Int /\ J(a, b) <= Len(s)
  <2> TAKE a \in i .. Len(t), b \in 1 .. P
  <2> DEFINE x == (a - i) * P
             y == (Len(t) - a) * P
             z == (Len(t) + 1 - i) * P
  <2>1. x \in Int /\ y \in Int /\ z \in Int /\ y >= 0
    BY <1>1, Products
  <2>2. z = x + y + P
    BY <1>1
  <2> HIDE DEF x, y, z
  <2>3. x + b - k + 1 <= z - k + 1
    BY <1>1, <2>1, <2>2
  <2> QED
    BY <1>1, <2>1, <2>3 DEF x, z
<1>6. \A a \in i .. Len(t), b \in 1 .. P :
         J(a, b) - 1 >= 1 => Tail(s)[J(a, b) - 1] = ByteOf(t, a, b)
  <2> TAKE a \in i .. Len(t), b \in 1 .. P
  <2> DEFINE j == J(a, b)
  <2>1. j \in Int /\ j <= Len(s) /\ (j >= 1 => s[j] = ByteOf(t, a, b))
    BY <1>4, <1>5
  <2> HIDE DEF j
  <2>2. j - 1 >= 1 => Tail(s)[j - 1] = s[j]
    BY <1>1, <2>1
  <2>3. j - 1 >= 1 => Tail(s)[j - 1] = ByteOf(t, a, b)
    BY <2>1, <2>2
  <2> QED
    BY <2>3 DEF j
<1>7. CASE k < P
  <2>1. k + 1 \in 1 .. P /\ Len(Tail(s)) = (Len(t) + 1 - i) * P - (k + 1) + 1
    BY <1>1, <1>7, Products
  <2>2. \A a \in i .. Len(t), b \in 1 .. P : (a - i) * P + b - (k + 1) + 1 = J(a, b) - 1
    BY <1>1, Products
  <2>3. \A a \in i .. Len(t), b \in 1 .. P :
           (a - i) * P + b - (k + 1) + 1 >= 1
             => Tail(s)[(a - i) * P + b - (k + 1) + 1] = ByteOf(t, a, b)
    BY <1>6, <2>2
  <2>4. i \in 1 .. Len(t) + 1 /\ i # Len(t) + 1
    BY <1>2
  <2>5. Rest(Tail(s), t, P, i, k + 1)
    BY <2>1, <2>3, <2>4 DEF Rest
  <2> QED
    BY <1>2, <1>3, <1>7, <2>5
<1>8. CASE k = P
  <2>1. Len(Tail(s)) = (Len(t) + 1 - (i + 1)) * P - 1 + 1
    <3>1. (Len(t) + 1 - (i + 1)) * P = (Len(t) + 1 - i) * P - P
      BY <1>1
    <3>2. (Len(t) + 1 - i) * P \in Int
      BY <1>1, Products
    <3> QED
      BY <1>1, <1>8, <3>1, <3>2
  <2>2. \A a \in i .. Len(t), b \in 1 .. P : (a - (i + 1)) * P + b - 1 + 1 = J(a, b) - 1
    <3> TAKE a \in i .. Len(t), b \in 1 .. P
    <3>1. (a - (i + 1)) * P = (a - i) * P - P /\ (a - i) * P \in Int
      BY <1>1, Products
    <3> QED
      BY <1>1, <1>8, <3>1
  <2>3. \A a \in i + 1 .. Len(t), b \in 1 .. P :
           (a - (i + 1)) * P + b - 1 + 1 >= 1
             => Tail(s)[(a - (i + 1)) * P + b - 1 + 1] = ByteOf(t, a, b)
    <3>1. \A a \in i + 1 .. Len(t) : a \in i .. Len(t)
      BY <1>2
    <3> QED
      BY <1>6, <2>2, <3>1
  <2>4. i + 1 \in 1 .. Len(t) + 1 /\ 1 \in 1 .. P
    BY <1>2
  <2>5. Rest(Tail(s), t, P, i + 1, 1)
    BY <2>1, <2>3, <2>4 DEF Rest
  <2> QED
    BY <1>2, <1>3, <1>8, <2>5
<1> QED
  BY <1>1, <1>7, <1>8

(* One more frame is written.                                              *)
LEMMA RestMore ==
    ASSUME NEW T, NEW s \in Seq(T), NEW u \in Seq(T), NEW F, NEW t \in Seq(F), NEW f \in F,
           NEW P \in Nat \ {0}, NEW i, NEW k, Rest(s, t, P, i, k), Len(u) = P,
           \A b \in 1 .. P : u[b] = ByteOf(Append(t, f), Len(t) + 1, b)
    PROVE  Rest(s \o u, Append(t, f), P, i, k)
<1> DEFINE v == Append(t, f)
           w == s \o u
           n == Len(t)
<1>1. /\ n \in Nat /\ Len(v) = n + 1 /\ \A a \in 1 .. n : v[a] = t[a]
      /\ Len(s) \in Nat /\ Len(w) = Len(s) + P
      /\ \A j \in 1 .. Len(s) : w[j] = s[j]
      /\ \A b \in 1 .. P : w[Len(s) + b] = u[b]
  OBVIOUS
<1>2. /\ i \in 1 .. n + 1 /\ k \in 1 .. P
      /\ Len(s) = (n + 1 - i) * P - k + 1
      /\ \A a \in i .. n, b \in 1 .. P :
            (a - i) * P + b - k + 1 >= 1 => s[(a - i) * P + b - k + 1] = ByteOf(t, a, b)
  BY DEF Rest
<1>3. \A b \in 1 .. P : u[b] = ByteOf(v, n + 1, b)
  OBVIOUS
<1>4. \A a \in 1 .. n, b \in 1 .. P : ByteOf(v, a, b) = ByteOf(t, a, b)
  BY <1>1 DEF ByteOf
<1> HIDE DEF v, w, n
<1>5. Len(w) = (Len(v) + 1 - i) * P - k + 1
  <2>1. (n + 2 - i) * P = (n + 1 - i) * P + P /\ (n + 1 - i) * P \in Int
    BY <1>1, <1>2, Products
  <2> QED
    BY <1>1, <1>2, <2>1
<1>6. ASSUME NEW a \in i .. n, NEW b \in 1 .. P, (a - i) * P + b - k + 1 >= 1
      PROVE  w[(a - i) * P + b - k + 1] = ByteOf(v, a, b)
  <2> DEFINE x == (a - i) * P
             y == (n - a) * P
             z == (n + 1 - i) * P
             j == x + b - k + 1
  <2>1. x \in Int /\ y \in Int /\ z \in Int /\ y >= 0
    BY <1>1, <1>2, Products
  <2>2. z = x + y + P
    BY <1>1, <1>2
  <2>3. Len(s) = z - k + 1
    BY <1>2
  <2>4. j >= 1 /\ s[j] = ByteOf(t, a, b)
    BY <1>2, <1>6
  <2> HIDE DEF x, y, z
  <2>5. j \in 1 .. Len(s)
    BY <1>2, <2>1, <2>2, <2>3, <2>4
  <2> HIDE DEF j
  <2>6. a \in 1 .. n
    BY <1>1, <1>2
  <2>7. w[j] = ByteOf(v, a, b)
    BY <1>1, <1>4, <2>4, <2>5, <2>6
  <2> QED
    BY <2>7 DEF j, x
<1>7. ASSUME NEW a \in {n + 1}, NEW b \in 1 .. P
      PROVE  w[(a - i) * P + b - k + 1] = ByteOf(v, a, b)
  <2>1. (a - i) * P \in Int /\ a \in Int
    BY <1>1, <1>2, Products
  <2>2. Len(s) = (a - i) * P - k + 1
    BY <1>1, <1>2
  <2>3. (a - i) * P + b - k + 1 = Len(s) + b
    BY <1>1, <1>2, <2>1, <2>2
  <2>4. w[Len(s) + b] = u[b] /\ u[b] = ByteOf(v, a, b)
    BY <1>1, <1>3
  <2> QED
    BY <2>3, <2>4
<1>8. \A a \in i .. Len(v), b \in 1 .. P :
         (a - i) * P + b - k + 1 >= 1 => w[(a - i) * P + b - k + 1] = ByteOf(v, a, b)
  <2>1. \A a \in i .. Len(v) : a \in i .. n \/ a \in {n + 1}
    BY <1>1, <1>2
  <2> QED
    BY <1>6, <1>7, <2>1
<1>9. i \in 1 .. Len(v) + 1 /\ (i = Len(v) + 1 => k = 1)
  BY <1>1, <1>2
<1>10. Rest(w, v, P, i, k)
  BY <1>2, <1>5, <1>8, <1>9 DEF Rest
<1> QED
  BY <1>10 DEF v, w

-----------------------------------------------------------------------------
(* The message buffer on such a line, when byte k of frame i comes next.   *)

(* It ends with the first k bytes of f ...                                 *)
Ends(m, f, k) == k <= Len(m) /\ \A d \in 0 .. k - 1 : m[Len(m) - d] = Byte(f, k - d)

(* ... or another frame was made in it after some of them.                 *)
Cut(m, k) ==
    /\ Len(m) = FrameLen
    /\ \E d \in 0 .. k - 2 : Final(m[FrameLen - d]) /\ (d = 0 \/ m[FrameLen][2] = k - 1)

(* n of the frames before are taken, or were cut in two.                   *)
At(s, t, P, m, n, i, k) ==
    /\ Rest(s, t, P, i, k)
    /\ \/ k \notin 2 .. FrameLen /\ ~Partial(m) /\ n = IF k = 1 THEN i - 1 ELSE i
       \/ k \in 2 .. FrameLen /\ Ends(m, t[i], k - 1) /\ n = i - 1
       \/ k \in 2 .. FrameLen /\ Cut(m, k) /\ n = i

LEMMA LastFacts ==
    ASSUME NEW T, NEW m \in Seq(T), m # << >>, m[Len(m)][2] \notin 1 .. FrameLen - 1
    PROVE  ~Partial(m)
  BY DEF Partial

LEMMA OwnFacts ==
    ASSUME NEW f
    PROVE  /\ ~Partial(FrameBytes(f))
           /\ \A k \in 2 .. FrameLen : Cut(FrameBytes(f), k)
<1>1. FrameLen \in Nat /\ FrameLen >= 2
  BY FrameAssumption DEF FrameAssumption
<1> DEFINE m == FrameBytes(f)
<1>2. m \in Seq({f} \X (1 .. FrameLen)) /\ Len(m) = FrameLen /\ m[FrameLen] = <<f, FrameLen>>
  <2>1. f \in {f} /\ FrameLen \in 1 .. FrameLen
    BY <1>1
  <2> QED
    BY <2>1, FrameBytesFacts
<1> HIDE DEF m
<1>3. ~Partial(m)
  BY <1>1, <1>2, LastFacts
<1>4. \A k \in 2 .. FrameLen : Cut(m, k)
  <2> TAKE k \in 2 .. FrameLen
  <2>1. 0 \in 0 .. k - 2 /\ FrameLen - 0 = FrameLen /\ Final(m[FrameLen])
    BY <1>1, <1>2 DEF Final
  <2> QED
    BY <1>2, <2>1 DEF Cut
<1> QED
  BY <1>3, <1>4 DEF m

LEMMA EndsPartial ==
    ASSUME NEW T, NEW m \in Seq(T), NEW f, NEW k \in 1 .. FrameLen - 1, Ends(m, f, k)
    PROVE  Partial(m)
<1>1. FrameLen \in Nat /\ Len(m) \in Nat /\ k <= Len(m)
  BY FrameAssumption DEF FrameAssumption, Ends
<1>2. m[Len(m)] = Byte(f, k)
  <2>1. 0 \in 0 .. k - 1 /\ Len(m) - 0 = Len(m) /\ k - 0 = k
    BY <1>1
  <2> QED
    BY <2>1 DEF Ends
<1>3. \A j \in 1 .. k : m[Len(m) - k + j] = Byte(f, j)
  <2> TAKE j \in 1 .. k
  <2>1. k - j \in 0 .. k - 1 /\ Len(m) - (k - j) = Len(m) - k + j /\ k - (k - j) = j
    BY <1>1
  <2> QED
    BY <2>1 DEF Ends
<1>4. m # << >>
  BY <1>1
<1>5. m[Len(m)][1] = f /\ m[Len(m)][2] = k
  BY <1>2 DEF Byte
<1>6. \A j \in 1 .. m[Len(m)][2] : m[Len(m) - m[Len(m)][2] + j] = Byte(m[Len(m)][1], j)
  BY <1>3, <1>5
<1>7. m[Len(m)][2] \in 1 .. FrameLen - 1 /\ m[Len(m)][2] <= Len(m)
  BY <1>1, <1>5
<1> QED
  BY <1>4, <1>6, <1>7 DEF Partial

LEMMA CutNotPartial ==
    ASSUME NEW T, NEW m \in Seq(T), NEW k \in 2 .. FrameLen, Cut(m, k)
    PROVE  ~Partial(m)
<1>1. FrameLen \in Nat /\ FrameLen >= 2 /\ Len(m) = FrameLen /\ m # << >>
  BY FrameAssumption DEF FrameAssumption, Cut
<1>2. PICK d \in 0 .. k - 2 : Final(m[FrameLen - d]) /\ (d = 0 \/ m[FrameLen][2] = k - 1)
  BY DEF Cut
<1>3. CASE d = 0
  <2>1. m[Len(m)][2] = FrameLen
    BY <1>1, <1>2, <1>3 DEF Final
  <2> QED
    BY <1>1, <2>1, LastFacts
<1>4. CASE d # 0
  <2> SUFFICES ASSUME Partial(m) PROVE FALSE
    OBVIOUS
  <2>1. m[FrameLen][2] = k - 1
    BY <1>2, <1>4
  <2>2. \A j \in 1 .. k - 1 : m[FrameLen - (k - 1) + j] = <<m[FrameLen][1], j>>
    BY <1>1, <2>1 DEF Partial, Byte
  <2>3. k - 1 - d \in 1 .. k - 1 /\ FrameLen - (k - 1) + (k - 1 - d) = FrameLen - d
        /\ k - 1 - d # FrameLen
    BY <1>1, <1>2, <1>4
  <2>4. m[FrameLen - d][2] = k - 1 - d
    BY <2>2, <2>3
  <2> QED
    BY <1>2, <2>3, <2>4 DEF Final
<1> QED
  BY <1>3, <1>4

-----------------------------------------------------------------------------
(* What happens on the line and in the buffer.                             *)

LEMMA PushedFacts ==
    ASSUME NEW T, NEW m \in Seq(T), NEW x \in T, Len(m) <= FrameLen
    PROVE  LET u == PushByte(m, x)
           IN  /\ u \in Seq(T) /\ u # << >> /\ Len(u) \in Nat /\ Len(m) \in Nat
               /\ Len(u) = IF Len(m) < FrameLen THEN Len(m) + 1 ELSE FrameLen
               /\ u[Len(u)] = x
               /\ \A d \in 1 .. Len(u) - 1 : u[Len(u) - d] = m[Len(m) - (d - 1)]
<1> DEFINE u == PushByte(m, x)
<1>1. FrameLen \in Nat \ {0} /\ Len(m) \in Nat
  BY FrameAssumption DEF FrameAssumption
<1>2. /\ u \in Seq(T)
      /\ Len(u) = IF Len(m) < FrameLen THEN Len(m) + 1 ELSE FrameLen
      /\ u[Len(u)] = x
      /\ Len(m) < FrameLen => \A i \in 1 .. Len(m) : u[i] = m[i]
      /\ Len(m) = FrameLen => \A i \in 1 .. FrameLen - 1 : u[i] = m[i + 1]
  <2>1. u = Deque!PushOver(FrameLen, m, x)
    BY DEF PushByte
  <2> HIDE DEF u
  <2> DEFINE p == Deque!PushOver(FrameLen, m, x)
  <2>2. /\ p \in Seq(T)
        /\ Len(p) = IF Len(m) < FrameLen THEN Len(m) + 1 ELSE FrameLen
        /\ p[Len(p)] = x
        /\ Len(m) < FrameLen => \A i \in 1 .. Len(m) : p[i] = m[i]
        /\ Len(m) = FrameLen => \A i \in 1 .. FrameLen - 1 : p[i] = m[i + 1]
    BY <1>1, PushFacts
  <2> HIDE DEF p
  <2> QED
    BY <2>1, <2>2 DEF p
<1> HIDE DEF u
<1>3. Len(u) \in Nat /\ u # << >>
  BY <1>1, <1>2
<1>4. ASSUME NEW d \in 1 .. Len(u) - 1 PROVE u[Len(u) - d] = m[Len(m) - (d - 1)]
  <2>1. CASE Len(m) < FrameLen
    <3>1. Len(u) - d = Len(m) - (d - 1) /\ Len(u) - d \in 1 .. Len(m)
      BY <1>1, <1>2, <2>1
    <3> QED
      BY <1>2, <2>1, <3>1
  <2>2. CASE Len(m) = FrameLen
    <3>1. Len(u) - d + 1 = Len(m) - (d - 1) /\ Len(u) - d \in 1 .. FrameLen - 1
      BY <1>1, <1>2, <2>2
    <3> QED
      BY <1>2, <2>2, <3>1
  <2> QED
    BY <1>1, <2>1, <2>2
<1> QED
  BY <1>1, <1>2, <1>3, <1>4 DEF u

(* The first byte of a frame, and each that follows in it without a gap.   *)
LEMMA EndsMore ==
    ASSUME NEW T, NEW m \in Seq(T), NEW f, NEW k \in 1 .. FrameLen, Byte(f, k) \in T,
           Len(m) <= FrameLen, Ends(m, f, k - 1)
    PROVE  Ends(PushByte(m, Byte(f, k)), f, k)
<1> DEFINE u == PushByte(m, Byte(f, k))
<1>1. /\ FrameLen \in Nat /\ Len(u) \in Nat /\ Len(m) \in Nat
      /\ Len(u) = IF Len(m) < FrameLen THEN Len(m) + 1 ELSE FrameLen
      /\ u[Len(u)] = Byte(f, k)
      /\ \A d \in 1 .. Len(u) - 1 : u[Len(u) - d] = m[Len(m) - (d - 1)]
  BY PushedFacts, FrameAssumption DEF FrameAssumption
<1> HIDE DEF u
<1>2. k - 1 <= Len(m)
  BY DEF Ends
<1>3. k <= Len(u)
  BY <1>1, <1>2
<1>4. ASSUME NEW d \in 0 .. k - 1 PROVE u[Len(u) - d] = Byte(f, k - d)
  <2>1. CASE d = 0
    <3>1. Len(u) - d = Len(u) /\ k - d = k
      BY <1>1, <2>1
    <3> QED
      BY <1>1, <3>1
  <2>2. CASE d # 0
    <3>1. d \in 1 .. Len(u) - 1 /\ d - 1 \in 0 .. k - 1 - 1 /\ k - 1 - (d - 1) = k - d
      BY <1>1, <1>3, <2>2
    <3>2. m[Len(m) - (d - 1)] = Byte(f, k - 1 - (d - 1))
      BY <3>1 DEF Ends
    <3> QED
      BY <1>1, <3>1, <3>2
  <2> QED
    BY <2>1, <2>2
<1>5. Ends(u, f, k)
  BY <1>3, <1>4 DEF Ends
<1> QED
  BY <1>5 DEF u

(* A frame whose bytes have come all, without a gap, is a message.         *)
LEMMA EndsValid ==
    ASSUME NEW T, NEW u \in Seq(T), NEW f, Len(u) <= FrameLen, Ends(u, f, FrameLen)
    PROVE  Valid(u)
<1>1. FrameLen \in Nat /\ FrameLen >= 2 /\ Len(u) = FrameLen
  BY FrameAssumption DEF FrameAssumption, Ends
<1>2. \A j \in 1 .. FrameLen : u[j] = Byte(f, j)
  <2> TAKE j \in 1 .. FrameLen
  <2>1. FrameLen - j \in 0 .. FrameLen - 1 /\ FrameLen - (FrameLen - j) = j
    BY <1>1
  <2> QED
    BY <1>1, <2>1 DEF Ends
<1>3. u = FrameBytes(f)
  <2>1. FrameBytes(f) \in Seq({f} \X (1 .. FrameLen)) /\ Len(FrameBytes(f)) = FrameLen
        /\ \A j \in 1 .. FrameLen : FrameBytes(f)[j] = Byte(f, j)
    <3>1. f \in {f}
      OBVIOUS
    <3> QED
      BY <3>1, FrameBytesFacts DEF Byte
  <2> DEFINE g == FrameBytes(f)
  <2> HIDE DEF g
  <2>2. g \in Seq({f} \X (1 .. FrameLen)) /\ Len(g) = FrameLen
        /\ \A j \in 1 .. FrameLen : g[j] = u[j]
    BY <1>2, <2>1 DEF g
  <2>3. u = g
    BY <1>1, <2>2
  <2> QED
    BY <2>3 DEF g
<1>4. u[1][1] = f
  BY <1>1, <1>2 DEF Byte
<1> QED
  BY <1>1, <1>3, <1>4 DEF Valid

(* A byte within a frame is not the last one of a message.                 *)
LEMMA NotValid ==
    ASSUME NEW u, NEW j \in 1 .. FrameLen, u[j][2] # j
    PROVE  ~Valid(u)
  BY ValidFacts

LEMMA CutMore ==
    ASSUME NEW T, NEW m \in Seq(T), NEW f, NEW k \in 2 .. FrameLen, Byte(f, k) \in T,
           Cut(m, k)
    PROVE  LET u == PushByte(m, Byte(f, k))
           IN  /\ k < FrameLen => Cut(u, k + 1)
               /\ ~Valid(u) /\ Len(u) = FrameLen
<1> DEFINE u == PushByte(m, Byte(f, k))
<1>1. FrameLen \in Nat /\ Len(m) = FrameLen
  BY FrameAssumption DEF FrameAssumption, Cut
<1>2. /\ Len(u) = FrameLen /\ u[FrameLen] = Byte(f, k)
      /\ \A d \in 1 .. FrameLen - 1 : u[FrameLen - d] = m[FrameLen - (d - 1)]
  <2>1. Len(m) <= FrameLen
    BY <1>1
  <2>2. /\ Len(u) = IF Len(m) < FrameLen THEN Len(m) + 1 ELSE FrameLen
        /\ u[Len(u)] = Byte(f, k)
        /\ \A d \in 1 .. Len(u) - 1 : u[Len(u) - d] = m[Len(m) - (d - 1)]
    BY <2>1, PushedFacts
  <2> QED
    BY <1>1, <2>2
<1> HIDE DEF u
<1>3. PICK d \in 0 .. k - 2 : Final(m[FrameLen - d])
  BY DEF Cut
<1>4. d + 1 \in 1 .. FrameLen - 1 /\ d + 1 \in 0 .. k - 1 /\ d + 1 - 1 = d
  BY <1>1, <1>3
<1>5. u[FrameLen - (d + 1)] = m[FrameLen - d]
  BY <1>2, <1>4
<1>6. k < FrameLen => Cut(u, k + 1)
  <2>1. u[FrameLen][2] = k + 1 - 1 /\ k + 1 - 2 = k - 1
    BY <1>1, <1>2 DEF Byte
  <2> QED
    BY <1>2, <1>3, <1>4, <1>5, <2>1 DEF Cut
<1>7. ~Valid(u)
  <2>1. FrameLen - (d + 1) \in 1 .. FrameLen /\ FrameLen - (d + 1) # FrameLen
    BY <1>1, <1>4
  <2> QED
    BY <1>3, <1>5, <2>1, NotValid DEF Final
<1> QED
  BY <1>2, <1>6, <1>7 DEF u

(* The next byte goes from the line into the buffer: the last one of a     *)
(* frame that was not cut in two makes it a message, no other one does.    *)
LEMMA AtPop ==
    ASSUME NEW T, NEW m \in Seq(T), Len(m) <= FrameLen,
           NEW s \in Seq(T), s # << >>, NEW t, Len(t) \in Nat, NEW P \in {FrameLen, FrameLen + 1},
           NEW n, NEW i, NEW k, At(s, t, P, m, n, i, k)
    PROVE  LET u == PushByte(m, Head(s))
           IN  \E a, b :
                  /\ At(Tail(s), t, P, u, n + (IF Valid(u) THEN 1 ELSE 0), a, b)
                  /\ Valid(u) => b \notin 2 .. FrameLen
<1> DEFINE u == PushByte(m, Head(s))
           one == IF Valid(u) THEN 1 ELSE 0
<1>1. FrameLen \in Nat /\ FrameLen >= 2 /\ P \in Nat \ {0}
  BY FrameAssumption DEF FrameAssumption
<1>2. Rest(s, t, P, i, k)
  BY DEF At
<1>3. /\ i \in 1 .. Len(t) /\ k \in 1 .. P /\ Head(s) = ByteOf(t, i, k) /\ Head(s) \in T
      /\ k < P => Rest(Tail(s), t, P, i, k + 1)
      /\ k = P => Rest(Tail(s), t, P, i + 1, 1)
  <2>1. /\ i \in 1 .. Len(t) /\ Head(s) = ByteOf(t, i, k)
        /\ k < P => Rest(Tail(s), t, P, i, k + 1)
        /\ k = P => Rest(Tail(s), t, P, i + 1, 1)
    BY <1>1, <1>2, RestPop
  <2>2. k \in 1 .. P /\ Head(s) \in T
    BY <1>2 DEF Rest
  <2> QED
    BY <2>1, <2>2
<1>4. /\ u \in Seq(T) /\ u # << >> /\ Len(u) \in Nat /\ u[Len(u)] = Head(s)
      /\ Len(u) = IF Len(m) < FrameLen THEN Len(m) + 1 ELSE FrameLen
  BY <1>3, PushedFacts
<1>5. CASE k = FrameLen + 1
  <2>1. Head(s)[2] = 0 /\ k = P /\ k \notin 2 .. FrameLen /\ k # 1
    BY <1>1, <1>3, <1>5 DEF ByteOf, Newline, Byte
  <2>2. n = i
    BY <2>1 DEF At
  <2>3. ~Valid(u) /\ ~Partial(u)
    <3>1. u[Len(u)][2] = 0
      BY <1>4, <2>1
    <3>2. ~Partial(u)
      BY <1>1, <1>4, <3>1, LastFacts
    <3>3. Valid(u) => Len(u) = FrameLen /\ FrameLen \in 1 .. FrameLen
      BY <1>1 DEF Valid
    <3> QED
      BY <1>1, <3>1, <3>2, <3>3, NotValid
  <2>4. At(Tail(s), t, P, u, i, i + 1, 1)
    BY <1>1, <1>3, <2>1, <2>3 DEF At
  <2> QED
    BY <1>1, <1>3, <2>2, <2>3, <2>4
<1>6. CASE k <= FrameLen
  <2> DEFINE f == t[i]
  <2>1. Head(s) = Byte(f, k) /\ k \in 1 .. FrameLen /\ u[Len(u)][2] = k
    BY <1>1, <1>3, <1>4, <1>6 DEF ByteOf, Byte
  <2>2. k < FrameLen => ~Valid(u)
    <3>1. Valid(u) => Len(u) = FrameLen /\ FrameLen \in 1 .. FrameLen
      BY <1>1 DEF Valid
    <3> QED
      BY <1>1, <2>1, <3>1, NotValid
  <2>3. k = FrameLen => ~Partial(u)
    BY <1>1, <1>4, <2>1, LastFacts
  <2>4. CASE \/ k = 1 /\ n = i - 1
             \/ k \in 2 .. FrameLen /\ Ends(m, f, k - 1) /\ n = i - 1
    <3>1. Ends(u, f, k)
      <4>1. Ends(m, f, k - 1)
        <5>1. k = 1 => Ends(m, f, k - 1)
          BY DEF Ends
        <5> QED
          BY <2>4, <5>1
      <4>2. Byte(f, k) \in T /\ u = PushByte(m, Byte(f, k))
        BY <1>3, <2>1
      <4>3. Ends(PushByte(m, Byte(f, k)), f, k)
        BY <2>1, <4>1, <4>2, EndsMore
      <4> QED
        BY <4>2, <4>3
    <3>2. CASE k < FrameLen
      <4>1. Ends(u, f, k + 1 - 1)
        <5>1. k + 1 - 1 = k
          BY <2>1
        <5> QED
          BY <3>1, <5>1
      <4>2. k + 1 \in 2 .. FrameLen /\ k < P
        BY <1>1, <2>1, <3>2
      <4>3. At(Tail(s), t, P, u, n, i, k + 1)
        BY <1>3, <2>4, <4>1, <4>2 DEF At
      <4>4. n + 0 = n
        BY <1>3, <2>4
      <4> QED
        BY <2>2, <3>2, <4>3, <4>4
    <3>3. CASE k = FrameLen
      <4>1. Valid(u)
        <5>1. Len(u) <= FrameLen
          BY <1>1, <1>4
        <5> QED
          BY <1>4, <3>1, <3>3, <5>1, EndsValid
      <4>2. CASE P = FrameLen
        <5>1. i + 1 - 1 = i /\ 1 \notin 2 .. FrameLen /\ n + 1 = i
          BY <1>1, <1>3, <2>4
        <5>2. At(Tail(s), t, P, u, n + 1, i + 1, 1)
          BY <1>3, <2>3, <3>3, <4>2, <5>1 DEF At
        <5> QED
          BY <4>1, <5>1, <5>2
      <4>3. CASE P = FrameLen + 1
        <5>1. k < P /\ k + 1 \notin 2 .. FrameLen /\ k + 1 # 1 /\ n + 1 = i
          BY <1>1, <1>3, <2>4, <3>3, <4>3
        <5>2. At(Tail(s), t, P, u, n + 1, i, k + 1)
          BY <1>3, <2>3, <3>3, <5>1 DEF At
        <5> QED
          BY <4>1, <5>1, <5>2
      <4> QED
        BY <4>2, <4>3
    <3> QED
      BY <1>1, <2>1, <3>2, <3>3
  <2>5. CASE k \in 2 .. FrameLen /\ Cut(m, k) /\ n = i
    <3>1. (k < FrameLen => Cut(u, k + 1)) /\ ~Valid(u)
      BY <1>3, <2>1, <2>5, CutMore
    <3>2. CASE k < FrameLen
      <4>1. k + 1 \in 2 .. FrameLen /\ k < P
        BY <1>1, <2>1, <3>2
      <4>2. At(Tail(s), t, P, u, n, i, k + 1)
        BY <1>3, <2>5, <3>1, <3>2, <4>1 DEF At
      <4>3. n + 0 = n
        BY <1>3, <2>5
      <4> QED
        BY <3>1, <4>2, <4>3
    <3>3. CASE k = FrameLen
      <4>1. CASE P = FrameLen
        <5>1. i + 1 - 1 = i /\ 1 \notin 2 .. FrameLen /\ n + 0 = i
          BY <1>1, <1>3, <2>5
        <5>2. At(Tail(s), t, P, u, n + 0, i + 1, 1)
          BY <1>3, <2>3, <3>3, <4>1, <5>1 DEF At
        <5> QED
          BY <3>1, <5>2
      <4>2. CASE P = FrameLen + 1
        <5>1. k < P /\ k + 1 \notin 2 .. FrameLen /\ k + 1 # 1 /\ n + 0 = i
          BY <1>1, <1>3, <2>5, <3>3, <4>2
        <5>2. At(Tail(s), t, P, u, n + 0, i, k + 1)
          BY <1>3, <2>3, <3>3, <5>1 DEF At
        <5> QED
          BY <3>1, <5>2
      <4> QED
        BY <4>1, <4>2
    <3> QED
      BY <1>1, <2>1, <3>2, <3>3
  <2> QED
    BY <1>1, <1>3, <2>1, <2>4, <2>5 DEF At
<1> QED
  BY <1>1, <1>3, <1>5, <1>6

(* Another frame is made in the buffer.                                    *)
LEMMA AtFilled ==
    ASSUME NEW T, NEW m \in Seq(T), NEW s, NEW t, NEW P, NEW n \in Int, NEW i, NEW k, NEW f,
           At(s, t, P, m, n, i, k)
    PROVE  At(s, t, P, FrameBytes(f), n + (IF Partial(m) THEN 1 ELSE 0), i, k)
<1> DEFINE u == FrameBytes(f)
<1>1. ~Partial(u) /\ \A b \in 2 .. FrameLen : Cut(u, b)
  BY OwnFacts
<1> HIDE DEF u
<1>2. CASE k \notin 2 .. FrameLen /\ ~Partial(m) /\ n = IF k = 1 THEN i - 1 ELSE i
  <2>1. At(s, t, P, u, n, i, k)
    BY <1>1, <1>2 DEF At
  <2> QED
    BY <1>2, <2>1 DEF u
<1>3. CASE k \in 2 .. FrameLen /\ Ends(m, t[i], k - 1) /\ n = i - 1
  <2>1. Partial(m)
    <3>1. k - 1 \in 1 .. FrameLen - 1
      BY <1>3, FrameAssumption DEF FrameAssumption
    <3> QED
      BY <1>3, <3>1, EndsPartial
  <2>2. n + 1 = i
    BY <1>3 DEF At, Rest
  <2>3. At(s, t, P, u, n + 1, i, k)
    BY <1>1, <1>3, <2>2 DEF At
  <2> QED
    BY <2>1, <2>3 DEF u
<1>4. CASE k \in 2 .. FrameLen /\ Cut(m, k) /\ n = i
  <2>1. ~Partial(m)
    BY <1>4, CutNotPartial
  <2>2. At(s, t, P, u, n, i, k)
    BY <1>1, <1>4 DEF At
  <2> QED
    BY <2>1, <2>2 DEF u
<1> QED
  BY <1>2, <1>3, <1>4 DEF At

(* One more frame is written.                                              *)
LEMMA AtSent ==
    ASSUME NEW T, NEW s \in Seq(T), NEW u \in Seq(T), NEW F, NEW t \in Seq(F), NEW f \in F,
           NEW P \in Nat \ {0}, NEW m, NEW n, NEW i, NEW k, At(s, t, P, m, n, i, k),
           Len(u) = P, \A b \in 1 .. P : u[b] = ByteOf(Append(t, f), Len(t) + 1, b)
    PROVE  At(s \o u, Append(t, f), P, m, n, i, k)
<1>1. Rest(s, t, P, i, k)
  BY DEF At
<1>2. Rest(s \o u, Append(t, f), P, i, k)
  BY <1>1, RestMore
<1>3. k \in 2 .. FrameLen => Append(t, f)[i] = t[i]
  BY <1>1 DEF Rest
<1> QED
  BY <1>2, <1>3 DEF At

(* At the end of the line all frames are accounted for.                    *)
LEMMA AtEnd ==
    ASSUME NEW t, Len(t) \in Nat, NEW P \in Nat \ {0}, NEW m, NEW n, NEW i, NEW k,
           At(<< >>, t, P, m, n, i, k)
    PROVE  n = Len(t) /\ ~Partial(m) /\ i = Len(t) + 1 /\ k = 1
<1>1. Rest(<< >>, t, P, i, k)
  BY DEF At
<1>2. i = Len(t) + 1 /\ k = 1
  BY <1>1, RestEnd
<1> QED
  BY <1>2 DEF At

(* As many times P as fit into x.                                          *)
LEMMA EndingIn ==
    ASSUME NEW P \in Nat, P >= 2, NEW m \in Int, NEW x \in Nat, m * P <= x
    PROVE  m <= x \div P
<1> DEFINE q == x \div P
<1>1. q \in Int /\ x < q * P + P
  OBVIOUS
<1> HIDE DEF q
<1>2. CASE m <= q
  BY <1>2
<1>3. CASE m >= q + 1
  <2>1. m - (q + 1) \in Int /\ m - (q + 1) >= 0
    BY <1>1, <1>3
  <2>2. (m - (q + 1)) * P >= 0
    BY <2>1, Products
  <2>3. (m - (q + 1)) * P = m * P - (q + 1) * P /\ (q + 1) * P = q * P + P
        /\ m * P \in Int /\ q * P \in Int
    BY <1>1
  <2> QED
    BY <1>1, <2>2, <2>3
<1> QED
  BY <1>1, <1>2, <1>3 DEF q

(* Of the frames not taken and not cut in two, only those are missing that *)
(* end in what is to come.                                                 *)
LEMMA AtWaiting ==
    ASSUME NEW t, Len(t) \in Nat, NEW s, Len(s) \in Nat, NEW m, NEW n, NEW i, NEW k,
           At(s, t, FrameLen + 1, m, n, i, k)
    PROVE  /\ n <= Len(t)
           /\ Len(t) - n <= (Len(s) + FrameLen - 1) \div (FrameLen + 1)
<1> DEFINE P == FrameLen + 1
           r == Len(t) + 1 - i
<1>1. FrameLen \in Nat /\ FrameLen >= 2 /\ P \in Nat /\ P >= 2
  BY FrameAssumption DEF FrameAssumption
<1>2. /\ i \in 1 .. Len(t) + 1 /\ k \in 1 .. P /\ (i = Len(t) + 1 => k = 1)
      /\ Len(s) = r * P - k + 1 /\ r \in Int /\ r * P \in Int /\ (r - 1) * P = r * P - P
  BY <1>1, Products DEF At, Rest
<1>3. \/ k = 1 /\ n = i - 1
      \/ k \in 2 .. FrameLen /\ n \in {i - 1, i}
      \/ k = P /\ n = i
  BY <1>1, <1>2 DEF At
<1>4. n \in Int /\ n <= Len(t)
  BY <1>1, <1>2, <1>3
<1> DEFINE x == Len(s) + FrameLen - 1
<1>5. x \in Nat /\ (Len(t) - n) * P <= x
  <2>1. x = r * P - k + FrameLen /\ x \in Nat
    BY <1>1, <1>2
  <2>2. CASE Len(t) - n = r /\ k <= FrameLen
    <3>1. (Len(t) - n) * P = r * P
      BY Zenon, <2>2
    <3> HIDE DEF P, r, x
    <3> QED
      BY <1>1, <1>2, <2>1, <2>2, <3>1
  <2>3. CASE Len(t) - n = r - 1
    <3>1. (Len(t) - n) * P = (r - 1) * P
      BY Zenon, <2>3
    <3> HIDE DEF P, r, x
    <3>2. k <= FrameLen + 1
      BY <1>2 DEF P
    <3>3. P = FrameLen + 1
      BY DEF P
    <3> QED
      BY <1>1, <1>2, <2>1, <3>1, <3>2, <3>3
  <2> QED
    BY <1>1, <1>2, <1>3, <2>2, <2>3
<1> HIDE DEF P, x
<1>6. Len(t) - n <= x \div P
  BY <1>1, <1>4, <1>5, EndingIn
<1> QED
  BY <1>4, <1>6 DEF P, x

(* Before anything is written.                                             *)
LEMMA AtStart ==
    ASSUME NEW P \in Nat \ {0}, NEW t, Len(t) \in Nat
    PROVE  At(<< >>, t, P, << >>, Len(t), Len(t) + 1, 1)
<1>1. Rest(<< >>, t, P, Len(t) + 1, 1)
  <2>1. (Len(t) + 1 - (Len(t) + 1)) * P = 0
    BY Products
  <2>2. Len(t) + 1 .. Len(t) = {}
    OBVIOUS
  <2> QED
    BY <2>1, <2>2 DEF Rest
<1>2. ~Partial(<< >>)
  BY DEF Partial
<1> QED
  BY <1>1, <1>2 DEF At
=============================================================================
