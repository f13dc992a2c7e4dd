--------------------------- MODULE Recovery_proofs ---------------------------
(***************************************************************************)
(* Theorems about the sequential part of an extraction: the search of an   *)
(* archive, for any entries, bytes and limits, with gzip members in gzip   *)
(* members to any depth; the scan of methods, for any instructions; and    *)
(* the names of what is emitted, for any names given, reserved and folded. *)
(***************************************************************************)
EXTENDS Gather, LiteScan, ProtoNames, FiniteSetTheorems, SequenceTheorems, WellFoundedInduction, TLAPS

-----------------------------------------------------------------------------
(* Loops.  What they compute is a function on the numbers up to that of    *)
(* their steps, which exists (LoopRuns) and of which things are shown by   *)
(* induction: the numbers it holds for are a set, and the least number not *)
(* in a set exists because < is well-founded.                              *)

(* Any set of numbers has a least one. *)
LEMMA LeastNumber == ASSUME NEW S \in SUBSET Nat, S # {} PROVE \E m \in S : \A n \in S : m <= n
<1>1. PICK m \in S : \A n \in S : ~(<<n, m>> \in OpToRel(<, Nat))
  BY NatLessThanWellFounded, WFMin
<1>2. \A n \in S : ~(n < m)
  BY <1>1 DEF OpToRel
<1>3. QED
  BY <1>2

(* Induction up to a number, for the members of a set. *)
LEMMA Induction ==
  ASSUME NEW N \in Nat, NEW S, 0 \in S, \A n \in 1..N : n - 1 \in S => n \in S
  PROVE  \A n \in 0..N : n \in S
<1>1. SUFFICES ASSUME (0..N) \ S # {} PROVE FALSE
  OBVIOUS
<1>2. PICK m \in (0..N) \ S : \A n \in (0..N) \ S : m <= n
  <2>1. (0..N) \ S \in SUBSET Nat
    OBVIOUS
  <2>2. QED
    BY <1>1, <2>1, LeastNumber
<1>3. m \in 1..N /\ m - 1 \in 0..N
  BY <1>2
<1>4. m - 1 \in S
  BY <1>2, <1>3
<1>5. QED
  BY <1>2, <1>3, <1>4

(* A loop of N steps, each of which depends on the one before, has a run. *)
LoopRun(f, N, X, base, body) ==
  /\ f \in [0..N -> X]
  /\ f[0] = base
  /\ \A n \in 1..N : f[n] = body[n][f[n - 1]]

LEMMA LoopRuns ==
  ASSUME NEW N \in Nat, NEW X, NEW base \in X, NEW body, \A n \in 1..N : \A x \in X : body[n][x] \in X
  PROVE  \E f : LoopRun(f, N, X, base, body)
<1> DEFINE Runs(m) == \E f \in [0..m -> X] : f[0] = base /\ \A n \in 1..m : f[n] = body[n][f[n - 1]]
           S == {m \in 0..N : Runs(m)}
<1>1. 0 \in S
  <2> DEFINE g == [n \in 0..0 |-> base]
  <2>1. g \in [0..0 -> X] /\ g[0] = base /\ \A n \in 1..0 : g[n] = body[n][g[n - 1]]
    OBVIOUS
  <2> HIDE DEF g
  <2>2. Runs(0)
    BY <2>1
  <2>3. QED
    BY <2>2
<1>2. ASSUME NEW m \in 1..N, m - 1 \in S PROVE m \in S
  <2>1. PICK f \in [0..(m - 1) -> X] : f[0] = base /\ \A n \in 1..(m - 1) : f[n] = body[n][f[n - 1]]
    BY <1>2
  <2> DEFINE g == [n \in 0..m |-> IF n = m THEN body[m][f[m - 1]] ELSE f[n]]
  <2>2. f[m - 1] \in X /\ body[m][f[m - 1]] \in X
    BY <2>1
  <2>3. g \in [0..m -> X]
    BY <2>1, <2>2
  <2>4. g[0] = base /\ \A n \in 1..m : g[n] = body[n][g[n - 1]]
    BY <2>1, <2>2
  <2> HIDE DEF g
  <2>5. Runs(m)
    BY <2>3, <2>4
  <2>6. QED
    BY <2>5
<1>3. N \in S
  <2> HIDE DEF S
  <2>1. \A n \in 0..N : n \in S
    BY <1>1, <1>2, Induction
  <2>2. QED
    BY <2>1
<1>4. QED
  BY <1>3 DEF LoopRun

(* A set of numbers up to N has a greatest one, and a least one.           *)
LEMMA Extremes ==
  ASSUME NEW N \in Nat, NEW S \in SUBSET (0..N), S # {}
  PROVE  /\ Max(S) \in S /\ \A x \in S : x <= Max(S)
         /\ Min(S) \in S /\ \A x \in S : Min(S) <= x
<1> DEFINE T == {N - x : x \in S}
<1>1. PICK t \in T : \A y \in T : t <= y
  <2>1. T \in SUBSET Nat /\ T # {}
    <3>1. PICK s : s \in S
      OBVIOUS
    <3>2. N - s \in T
      BY <3>1
    <3>3. \A x \in S : N - x \in Nat
      OBVIOUS
    <3>4. QED
      BY <3>2, <3>3
  <2> HIDE DEF T
  <2>2. QED
    BY <2>1, LeastNumber
<1>2. PICK m \in S : t = N - m
  BY <1>1
<1>3. \A x \in S : m >= x
  <2>1. SUFFICES ASSUME NEW x \in S PROVE m >= x
    OBVIOUS
  <2>2. N - x \in T
    OBVIOUS
  <2>3. N - m <= N - x
    BY <1>1, <1>2, <2>2
  <2>4. m \in Int /\ x \in Int /\ N \in Int
    OBVIOUS
  <2>5. QED
    BY <2>3, <2>4
<1>4. Max(S) \in S /\ \A x \in S : Max(S) >= x
  BY <1>3 DEF Max
<1>5. PICK l \in S : \A x \in S : l <= x
  <2>1. S \in SUBSET Nat
    OBVIOUS
  <2>2. QED
    BY <2>1, LeastNumber
<1>6. Min(S) \in S /\ \A x \in S : Min(S) <= x
  BY <1>5 DEF Min
<1>7. QED
  BY <1>4, <1>6

(* Of two numbers the least is the smaller. *)
LEMMA MinOfTwo ==
  ASSUME NEW x \in Int, NEW y \in Int
  PROVE  Min({x, y}) = IF x <= y THEN x ELSE y
<1>1. CASE x <= y
  <2>1. x \in {x, y} /\ \A z \in {x, y} : x <= z
    BY <1>1
  <2>2. Min({x, y}) \in {x, y} /\ \A z \in {x, y} : Min({x, y}) <= z
    BY <2>1 DEF Min
  <2>3. QED
    BY <1>1, <2>2
<1>2. CASE ~(x <= y)
  <2>1. y \in {x, y} /\ \A z \in {x, y} : y <= z
    BY <1>2
  <2>2. Min({x, y}) \in {x, y} /\ \A z \in {x, y} : Min({x, y}) <= z
    BY <2>1 DEF Min
  <2>3. QED
    BY <1>2, <2>2
<1>3. QED
  BY <1>1, <1>2

-----------------------------------------------------------------------------
(* One candidate.  What may be found in bytes: a descriptor, or the first  *)
(* MaxBoundaries fields of a longer one.                                   *)
Piece(d, data) ==
  \/ d \in Written(data)
  \/ Len(d) = MaxBoundaries /\ \E w \in Written(data) : IsPrefix(d, w)

Name(data, start) == start \in DOMAIN data /\ data[start].kind = "name"
Ends(data, start, end) == end \in DOMAIN data /\ Complete(data, start, end)

(* Written, by where a descriptor begins and ends. *)
LEMMA WrittenAt ==
  ASSUME NEW data
  PROVE  /\ \A start, end : Name(data, start) /\ Ends(data, start, end) => SubSeq(data, start, end) \in Written(data)
         /\ \A d \in Written(data) : \E start, end : Name(data, start) /\ Ends(data, start, end) /\ d = SubSeq(data, start, end)
<1>1. ASSUME NEW start, NEW end, Name(data, start), Ends(data, start, end) PROVE SubSeq(data, start, end) \in Written(data)
  <2>1. <<start, end>> \in {q \in (DOMAIN data) \X (DOMAIN data) : Complete(data, q[1], q[2])}
    BY <1>1 DEF Name, Ends
  <2>2. \A p \in {q \in (DOMAIN data) \X (DOMAIN data) : Complete(data, q[1], q[2])} : SubSeq(data, p[1], p[2]) \in Written(data)
    BY DEF Written
  <2>3. QED
    BY <2>1, <2>2
<1>2. ASSUME NEW d \in Written(data)
      PROVE  \E start, end : Name(data, start) /\ Ends(data, start, end) /\ d = SubSeq(data, start, end)
  BY DEF Written, Name, Ends, Complete
<1>3. QED
  BY <1>1, <1>2

(* A run of fields ends where the bytes do, or before what is no field.    *)
LEMMA RunEnds ==
  ASSUME NEW X, NEW data \in Seq(X), NEW start, Name(data, start)
  PROVE  /\ RunEnd(data, start) \in start..Len(data)
         /\ RunEnd(data, start) < Len(data) => ~IsField(data[RunEnd(data, start) + 1])
         /\ \A end \in DOMAIN data : Canonical(data, start, end) => end <= RunEnd(data, start)
<1> DEFINE S == {n \in start..Len(data) : \A k \in start..n : IsField(data[k])}
<1>1. Len(data) \in Nat /\ start \in 1..Len(data) /\ DOMAIN data = 1..Len(data) /\ IsField(data[start])
  BY DEF Name, IsField
<1>2. start \in S /\ S \in SUBSET (0..Len(data))
  BY <1>1
<1>3. RunEnd(data, start) = Max(S)
  BY DEF RunEnd
<1>4. Max(S) \in S /\ \A x \in S : x <= Max(S)
  <2> HIDE DEF S
  <2>1. S # {} /\ Len(data) \in Nat
    BY <1>1, <1>2
  <2>2. QED
    BY <1>2, <2>1, Extremes
<1>5. RunEnd(data, start) < Len(data) => ~IsField(data[RunEnd(data, start) + 1])
  <2>1. SUFFICES ASSUME NEW m, m = Max(S), m < Len(data), IsField(data[m + 1]) PROVE FALSE
    BY <1>3
  <2>2. m \in S
    BY <1>4, <2>1
  <2>3. m + 1 \in S
    <3>1. m \in start..Len(data) /\ m + 1 \in start..Len(data) /\ \A k \in start..m : IsField(data[k])
      BY <1>1, <2>1, <2>2
    <3>2. \A k \in start..(m + 1) : k \in start..m \/ k = m + 1
      BY <3>1
    <3>3. QED
      BY <2>1, <3>1, <3>2
  <2>4. m + 1 <= m /\ m \in Int
    <3> HIDE DEF S
    <3>1. m \in Int
      BY <1>2, <2>2
    <3>2. QED
      BY <1>4, <2>1, <2>3, <3>1
  <2>5. QED
    BY <2>4
<1>6. ASSUME NEW end \in DOMAIN data, Canonical(data, start, end) PROVE end \in S
  BY <1>1, <1>6 DEF Canonical, IsField
<1>7. QED
  BY <1>3, <1>4, <1>5, <1>6

(* What starts a descriptor in order is in order itself. *)
LEMMA CanonicalShorter ==
  ASSUME NEW data, NEW start \in Int, NEW end \in Int, NEW e \in (start + 1)..end, Canonical(data, start, end)
  PROVE  Canonical(data, start, e)
BY DEF Canonical

(* So a descriptor that can be made longer is the start of one that cannot.*)
LEMMA Completed ==
  ASSUME NEW X, NEW data \in Seq(X), NEW start, Name(data, start), NEW e \in DOMAIN data, Canonical(data, start, e)
  PROVE  \E end \in e..Len(data) : Ends(data, start, end)
<1> DEFINE S == {n \in e..Len(data) : Canonical(data, start, n)}
<1>1. Len(data) \in Nat /\ DOMAIN data = 1..Len(data) /\ e \in S /\ S \in SUBSET (0..Len(data))
  OBVIOUS
<1>2. Max(S) \in S /\ \A x \in S : x <= Max(S)
  <2> HIDE DEF S
  <2>1. S # {} /\ Len(data) \in Nat
    BY <1>1
  <2>2. QED
    BY <1>1, <2>1, Extremes
<1>3. ASSUME NEW m, m = Max(S) PROVE m \in e..Len(data) /\ Ends(data, start, m)
  <2>1. m \in S
    BY <1>2, <1>3
  <2>2. ~(m < Len(data) /\ Canonical(data, start, m + 1))
    <3>1. SUFFICES ASSUME m < Len(data), Canonical(data, start, m + 1) PROVE FALSE
      OBVIOUS
    <3>2. m + 1 \in S /\ m \in Int
      BY <1>1, <2>1, <3>1
    <3>3. m + 1 <= m
      <4> HIDE DEF S
      <4>1. QED
        BY <1>2, <1>3, <3>2
    <3>4. QED
      BY <3>2, <3>3
  <2>3. QED
    BY <1>1, <2>1, <2>2 DEF Ends, Complete, Name
<1>4. QED
  BY <1>3

(* The end of a descriptor is the only one of its name. *)
LEMMA OneEnd ==
  ASSUME NEW X, NEW data \in Seq(X), NEW start, Name(data, start), NEW e, Ends(data, start, e),
         NEW m \in DOMAIN data, Canonical(data, start, m), NEW n \in DOMAIN data, n >= m, ~(m < n /\ Canonical(data, start, m + 1)), e <= n
  PROVE  e = m
<1>1. Len(data) \in Nat /\ DOMAIN data = 1..Len(data) /\ start \in Int /\ e \in Int /\ m \in Int /\ n \in Int
  BY DEF Name, Ends
<1>2. e > start /\ m > start /\ Canonical(data, start, e)
  BY DEF Ends, Complete, Canonical
<1>3. CASE e < m
  <2>1. e + 1 \in (start + 1)..m /\ e < Len(data)
    BY <1>1, <1>2, <1>3
  <2>2. Canonical(data, start, e + 1)
    BY <1>1, <2>1, CanonicalShorter
  <2>3. QED
    BY <2>1, <2>2 DEF Ends, Complete
<1>4. CASE m < e
  <2>1. m + 1 \in (start + 1)..e /\ m < n
    BY <1>1, <1>2, <1>4
  <2>2. Canonical(data, start, m + 1)
    BY <1>1, <1>2, <2>1, CanonicalShorter
  <2>3. QED
    BY <2>1, <2>2
<1>5. QED
  BY <1>1, <1>3, <1>4

(* What is cut short is a start of the whole. *)
LEMMA CutShort ==
  ASSUME NEW X, NEW data \in Seq(X), NEW start \in DOMAIN data, NEW e \in start..Len(data), NEW end \in e..Len(data)
  PROVE  Len(SubSeq(data, start, e)) = e - start + 1 /\ IsPrefix(SubSeq(data, start, e), SubSeq(data, start, end))
<1>1. Len(data) \in Nat /\ DOMAIN data = 1..Len(data) /\ start \in 1..Len(data) /\ e \in 1..Len(data) /\ end \in 1..Len(data)
  OBVIOUS
<1> DEFINE d == SubSeq(data, start, e)
           w == SubSeq(data, start, end)
           n == e - start + 1
<1>2. n \in Nat /\ n >= 1 /\ n <= end - start + 1
  BY <1>1
<1>3. /\ d \in Seq(X) /\ Len(d) = n /\ \A i \in 1..n : d[i] = data[start + i - 1]
      /\ w \in Seq(X) /\ Len(w) = end - start + 1 /\ \A i \in 1..(end - start + 1) : w[i] = data[start + i - 1]
  <2>1. (\A i \in start..e : data[i] \in X) /\ (\A i \in start..end : data[i] \in X) /\ start \in Int /\ e \in Int /\ end \in Int
    BY <1>1
  <2>2. d \in Seq(X) /\ Len(d) = (IF start <= e THEN e - start + 1 ELSE 0) /\ \A i \in 1..(e - start + 1) : d[i] = data[start + i - 1]
    <3> HIDE DEF n
    <3>1. QED
      BY <2>1, SubSeqProperties
  <2>3. w \in Seq(X) /\ Len(w) = (IF start <= end THEN end - start + 1 ELSE 0) /\ \A i \in 1..(end - start + 1) : w[i] = data[start + i - 1]
    <3> HIDE DEF n
    <3>1. QED
      BY <2>1, SubSeqProperties
  <2>4. start <= e /\ start <= end
    BY <1>1
  <2>5. QED
    BY <2>2, <2>3, <2>4
<1> HIDE DEF d, w, n
<1>4. SubSeq(d, 1, n) = SubSeq(w, 1, n)
  <2>1. \A i \in 1..n : d[i] \in X /\ w[i] \in X /\ d[i] = w[i]
    <3>1. SUFFICES ASSUME NEW i \in 1..n PROVE d[i] \in X /\ w[i] \in X /\ d[i] = w[i]
      OBVIOUS
    <3>2. i \in 1..(end - start + 1)
      BY <1>1, <1>2
    <3>3. d[i] = data[start + i - 1] /\ w[i] = data[start + i - 1]
      BY <1>3, <3>2
    <3>4. d[i] \in X
      BY <1>3
    <3>5. QED
      BY <3>3, <3>4
  <2>2. 1 \in Int /\ n \in Int
    BY <1>2
  <2>3. /\ SubSeq(d, 1, n) \in Seq(X) /\ Len(SubSeq(d, 1, n)) = n /\ \A i \in 1..n : SubSeq(d, 1, n)[i] = d[i]
        /\ SubSeq(w, 1, n) \in Seq(X) /\ Len(SubSeq(w, 1, n)) = n /\ \A i \in 1..n : SubSeq(w, 1, n)[i] = w[i]
    BY <1>2, <2>1, <2>2, SubSeqProperties
  <2>4. QED
    BY <2>1, <2>3
<1>5. QED
  BY <1>2, <1>3, <1>4 DEF IsPrefix, d, w, n

(* What is found at a name is a piece of the bytes.  It is a descriptor,   *)
(* and the only one of that name, if no limit is reached.                  *)
LEMMA TriedFinds ==
  ASSUME GatherAssumption, NEW X, NEW data \in Seq(X), NEW start, Name(data, start), NEW allowed \in Nat
  PROVE  LET tried == Tried(data, start, allowed) IN
         /\ tried.attempts \in 0..allowed /\ tried.end \in 0..Len(data)
         /\ tried.end # 0 => Piece(SubSeq(data, start, tried.end), data)
         /\ RunEnd(data, start) - start + 1 <= MaxBoundaries /\ tried.attempts # allowed =>
              \A end : Ends(data, start, end) => end = tried.end
<1> DEFINE last == Min({RunEnd(data, start), start + MaxBoundaries - 1})
           good == {n \in start..last : Canonical(data, start, n)}
           needed == IF good = {} THEN last - start + 1 ELSE last - Max(good) + 1
           tried == Tried(data, start, allowed)
<1>1. Len(data) \in Nat /\ DOMAIN data = 1..Len(data) /\ start \in 1..Len(data) /\ MaxBoundaries \in Nat \ {0}
  BY DEF Name, GatherAssumption, Positive, Inflatable
<1>2. /\ RunEnd(data, start) \in start..Len(data) /\ (RunEnd(data, start) < Len(data) => ~IsField(data[RunEnd(data, start) + 1]))
      /\ \A end \in DOMAIN data : Canonical(data, start, end) => end <= RunEnd(data, start)
  BY RunEnds
<1>3. last = IF RunEnd(data, start) <= start + MaxBoundaries - 1 THEN RunEnd(data, start) ELSE start + MaxBoundaries - 1
  <2>1. RunEnd(data, start) \in Int /\ start + MaxBoundaries - 1 \in Int
    BY <1>1, <1>2
  <2>2. QED
    BY <2>1, MinOfTwo
<1>4. last \in start..Len(data)
  <2>1. PICK r \in start..Len(data) : r = RunEnd(data, start)
    BY <1>2
  <2>2. last = IF r <= start + MaxBoundaries - 1 THEN r ELSE start + MaxBoundaries - 1
    BY <1>3, <2>1
  <2> HIDE DEF last
  <2>3. start \in Int /\ MaxBoundaries \in Int /\ MaxBoundaries >= 1 /\ Len(data) \in Int
    BY <1>1
  <2>4. QED
    BY <2>1, <2>2, <2>3
<1> HIDE DEF last
<1>5. good # {} => Max(good) \in good /\ \A x \in good : x <= Max(good)
  <2>1. good \in SUBSET (0..Len(data)) /\ Len(data) \in Nat
    BY <1>1, <1>4
  <2> HIDE DEF good
  <2>2. QED
    BY <2>1, Extremes
<1>6. needed \in Nat /\ needed >= 1
  <2>1. last \in Int /\ start \in Int /\ start <= last
    BY <1>1, <1>4
  <2>2. \A m \in start..last : last - m + 1 \in Nat /\ last - m + 1 >= 1
    BY <2>1
  <2>3. CASE good = {}
    <3>1. start \in start..last /\ needed = last - start + 1
      BY <2>1, <2>3
    <3> HIDE DEF needed
    <3>2. QED
      BY <2>2, <3>1
  <2>4. CASE good # {}
    <3>1. PICK m : m = Max(good)
      OBVIOUS
    <3>2. m \in start..last
      BY <1>5, <2>4, <3>1
    <3>3. needed = last - m + 1
      BY <2>4, <3>1
    <3> HIDE DEF needed
    <3>4. QED
      BY <2>2, <3>2, <3>3
  <2>5. QED
    BY <2>3, <2>4
<1>7. /\ tried.attempts = Min({needed, allowed})
      /\ tried.end = IF good # {} /\ needed <= allowed THEN Max(good) ELSE 0
  BY DEF Tried, last
<1> HIDE DEF needed, tried
<1>8. tried.attempts = IF needed <= allowed THEN needed ELSE allowed
  <2> HIDE DEF good
  <2>1. needed \in Int /\ allowed \in Int
    BY <1>6
  <2>2. QED
    BY <1>7, <2>1, MinOfTwo
<1>9. tried.attempts \in 0..allowed /\ tried.end \in 0..Len(data)
  <2>1. good # {} => Max(good) \in start..last
    BY <1>5
  <2> HIDE DEF good
  <2>2. tried.end \in 0..Len(data)
    <3>1. \A m \in start..last : m \in 0..Len(data)
      BY <1>1, <1>4
    <3>2. 0 \in 0..Len(data)
      BY <1>1
    <3>3. QED
      BY <1>7, <2>1, <3>1, <3>2
  <2>3. tried.attempts \in 0..allowed
    BY <1>6, <1>8
  <2>4. QED
    BY <2>2, <2>3
<1>10. ASSUME NEW m, good # {}, m = Max(good)
       PROVE  /\ m \in start..last /\ m \in DOMAIN data /\ Canonical(data, start, m) /\ m > start
              /\ ~(m < last /\ Canonical(data, start, m + 1))
  <2>1. m \in start..last /\ Canonical(data, start, m) /\ m > start
    BY <1>5, <1>10 DEF Canonical
  <2>2. ASSUME m < last, Canonical(data, start, m + 1) PROVE FALSE
    <3>1. m + 1 \in good /\ m \in Int
      <4>1. last \in Int /\ start \in Int
        BY <1>1, <1>4
      <4>2. m \in Int /\ m + 1 \in start..last
        BY <2>1, <2>2, <4>1
      <4>3. QED
        BY <2>2, <4>2
    <3>2. m + 1 <= m
      <4> HIDE DEF good
      <4>1. QED
        BY <1>5, <1>10, <3>1
    <3>3. QED
      BY <3>1, <3>2
  <2>3. QED
    BY <1>1, <1>4, <2>1, <2>2
<1>11. ASSUME tried.end # 0 PROVE Piece(SubSeq(data, start, tried.end), data)
  <2>1. PICK m : m = tried.end
    OBVIOUS
  <2>2. /\ m \in start..last /\ m \in DOMAIN data /\ Canonical(data, start, m) /\ m > start
        /\ ~(m < last /\ Canonical(data, start, m + 1))
    <3> HIDE DEF good
    <3>1. QED
      BY <1>7, <1>10, <1>11, <2>1
  <2>3. CASE ~(m < Len(data) /\ Canonical(data, start, m + 1))
    <3>1. Ends(data, start, m)
      BY <2>2, <2>3 DEF Ends, Complete, Name
    <3>2. QED
      BY <2>1, <3>1, WrittenAt DEF Piece
  <2>4. CASE m < Len(data) /\ Canonical(data, start, m + 1)
    <3>1. m = last /\ m + 1 <= RunEnd(data, start)
      <4>1. m \in start..last /\ last \in Int /\ start \in Int /\ ~(m < last)
        BY <1>1, <1>4, <2>2, <2>4
      <4>2. m + 1 \in DOMAIN data
        BY <1>1, <2>2, <2>4
      <4>3. m = last
        BY <4>1
      <4>4. QED
        BY <1>2, <2>4, <4>2, <4>3
    <3>2. m = start + MaxBoundaries - 1
      <4>1. RunEnd(data, start) # m
        BY <1>1, <2>2, <3>1
      <4>2. QED
        BY <1>3, <3>1, <4>1
    <3>3. PICK end \in m..Len(data) : Ends(data, start, end)
      BY <2>2, Completed
    <3>4. start \in DOMAIN data /\ m \in start..Len(data)
      BY <1>1, <1>4, <2>2
    <3>5. Len(SubSeq(data, start, m)) = MaxBoundaries /\ IsPrefix(SubSeq(data, start, m), SubSeq(data, start, end))
      <4>1. Len(SubSeq(data, start, m)) = m - start + 1 /\ IsPrefix(SubSeq(data, start, m), SubSeq(data, start, end))
        BY <3>4, CutShort
      <4>2. m - start + 1 = MaxBoundaries
        BY <1>1, <3>2
      <4>3. QED
        BY <4>1, <4>2
    <3>6. SubSeq(data, start, end) \in Written(data)
      BY <3>3, WrittenAt
    <3>7. QED
      BY <2>1, <3>5, <3>6 DEF Piece
  <2>5. QED
    BY <2>3, <2>4
<1>12. ASSUME RunEnd(data, start) - start + 1 <= MaxBoundaries, tried.attempts # allowed, NEW end, Ends(data, start, end)
       PROVE  end = tried.end
  <2>1. last = RunEnd(data, start) /\ needed <= allowed
    <3>1. last = RunEnd(data, start)
      <4>1. RunEnd(data, start) \in Int /\ start \in Int /\ MaxBoundaries \in Int
        BY <1>1, <1>2
      <4>2. RunEnd(data, start) <= start + MaxBoundaries - 1
        BY <1>12, <4>1
      <4>3. QED
        BY <1>3, <4>2
    <3>2. QED
      BY <1>8, <1>12, <3>1
  <2>2. end \in DOMAIN data /\ Canonical(data, start, end) /\ end > start
    BY <1>12 DEF Ends, Complete, Canonical
  <2>3. end \in good
    BY <1>1, <1>2, <2>1, <2>2
  <2>4. PICK m : m = tried.end
    OBVIOUS
  <2>5. /\ m \in DOMAIN data /\ Canonical(data, start, m) /\ m \in start..last /\ m = Max(good)
        /\ ~(m < last /\ Canonical(data, start, m + 1))
    <3> HIDE DEF good
    <3>1. good # {} /\ m = Max(good)
      BY <1>7, <2>1, <2>3, <2>4
    <3>2. QED
      BY <1>10, <3>1
  <2>6. last \in DOMAIN data /\ last >= m /\ end <= last
    BY <1>1, <1>2, <1>4, <2>1, <2>2, <2>5
  <2>7. end = m
    <3> HIDE DEF good
    <3>1. QED
      BY <1>12, <2>5, <2>6, OneEnd
  <2>8. QED
    BY <2>4, <2>7
<1>13. QED
  BY <1>9, <1>11, <1>12 DEF tried

-----------------------------------------------------------------------------
(* The scan of bytes is a loop over them. *)
Cuts == UNION {{SubSeq(b, p[1], p[2]) : p \in (DOMAIN b) \X (DOMAIN b)} : b \in Blobs}
Limits == {"candidates", "boundaries", "gzip"}
ScanStates == [candidates : Nat, attempts : Nat, limits : SUBSET Limits, found : SUBSET Cuts]
Unscanned == [candidates |-> 0, attempts |-> 0, limits |-> NoLimit, found |-> {}]
Offered(data, state, n) == IF data[n].kind = "name" THEN Offer(data, state, n) ELSE state

(* A piece of bytes is one of the pieces there may be. *)
LEMMA CutsOf ==
  ASSUME NEW data \in Blobs, NEW start \in DOMAIN data, NEW end \in DOMAIN data
  PROVE  SubSeq(data, start, end) \in Cuts
<1> DEFINE those == {SubSeq(data, p[1], p[2]) : p \in (DOMAIN data) \X (DOMAIN data)}
<1>1. <<start, end>> \in (DOMAIN data) \X (DOMAIN data)
  OBVIOUS
<1>2. SubSeq(data, <<start, end>>[1], <<start, end>>[2]) \in those
  BY <1>1
<1>3. SubSeq(data, start, end) \in those
  BY <1>2
<1>4. those \in SUBSET Cuts
  BY DEF Cuts
<1>5. QED
  BY <1>3, <1>4

(* A name offered leaves a scan again (scan_descriptors). *)
LEMMA OfferedType ==
  ASSUME GatherAssumption, NEW data \in Blobs, NEW n \in 1..Len(data), NEW state \in ScanStates
  PROVE  Offered(data, state, n) \in ScanStates
<1>1. data \in Seq(ToSet(data)) /\ DOMAIN data = 1..Len(data) /\ Len(data) \in Nat
  BY DEF GatherAssumption, Positive, Inflatable
<1>2. SUFFICES ASSUME Name(data, n) PROVE Offer(data, state, n) \in ScanStates
  BY <1>1 DEF Offered, Name
<1>3. MaxAttempts \in Nat /\ state.attempts \in Nat /\ state.candidates \in Nat
  BY DEF GatherAssumption, Positive, Inflatable, ScanStates
<1>4. CASE state.candidates >= MaxCandidates \/ state.attempts >= MaxAttempts
  BY <1>4 DEF Offer, ScanStates, Limits
<1>5. CASE ~(state.candidates >= MaxCandidates \/ state.attempts >= MaxAttempts)
  <2> DEFINE tried == Tried(data, n, MaxAttempts - state.attempts)
             more == IF tried.end = 0 THEN {} ELSE {SubSeq(data, n, tried.end)}
             met == state.limits
               \union (IF RunEnd(data, n) - n + 1 > MaxBoundaries THEN {"boundaries"} ELSE {})
               \union (IF state.attempts + tried.attempts = MaxAttempts THEN {"candidates"} ELSE {})
  <2>1. MaxAttempts - state.attempts \in Nat
    BY <1>3, <1>5
  <2>2. tried.attempts \in 0..(MaxAttempts - state.attempts) /\ tried.end \in 0..Len(data)
    BY <1>1, <1>2, <2>1, TriedFinds
  <2>3. more \in SUBSET Cuts
    <3> HIDE DEF tried
    <3>1. tried.end = 0 \/ tried.end \in DOMAIN data
      BY <1>1, <2>2
    <3>2. n \in DOMAIN data
      BY <1>1
    <3>3. QED
      BY <3>1, <3>2, CutsOf
  <2>4. met \in SUBSET Limits
    <3>1. state.limits \in SUBSET Limits
      BY DEF ScanStates
    <3> HIDE DEF tried
    <3>2. QED
      BY <3>1 DEF Limits
  <2>5. Offer(data, state, n) =
          [candidates |-> state.candidates + 1, attempts |-> state.attempts + tried.attempts,
           limits |-> met, found |-> state.found \union more]
    BY <1>5 DEF Offer
  <2> HIDE DEF met, more, tried
  <2>6. state.candidates + 1 \in Nat /\ state.attempts + tried.attempts \in Nat /\ state.found \union more \in SUBSET Cuts
    <3>1. tried.attempts \in Nat
      BY <1>3, <2>2
    <3>2. state.found \union more \in SUBSET Cuts
      BY <2>3 DEF ScanStates
    <3>3. state.candidates + 1 \in Nat
      BY <1>3
    <3>4. \A x, y \in Nat : x + y \in Nat
      OBVIOUS
    <3>5. state.attempts + tried.attempts \in Nat
      BY <1>3, <3>1, <3>4
    <3>6. QED
      BY <3>2, <3>3, <3>5
  <2>7. [candidates |-> state.candidates + 1, attempts |-> state.attempts + tried.attempts,
         limits |-> met, found |-> state.found \union more] \in ScanStates
    BY <2>4, <2>6 DEF ScanStates
  <2>8. QED
    BY <2>5, <2>7
<1>6. QED
  BY <1>4, <1>5

(* The loop of scan_descriptors runs: from nothing, a token at a time.     *)
LEMMA ScanLoop ==
  ASSUME GatherAssumption, NEW data \in Blobs
  PROVE  \E f : /\ f[0] = Unscanned
                /\ \A n \in 1..Len(data) : f[n] = Offered(data, f[n - 1], n)
                /\ ScanDescriptors(data) = f[Len(data)]
<1> DEFINE N == Len(data)
           step == [n \in 1..N |-> [x \in ScanStates |-> Offered(data, x, n)]]
           Runs(f) == f = [n \in 0..N |-> IF n = 0 THEN Unscanned ELSE Offered(data, f[n - 1], n)]
<1>1. N \in Nat /\ Unscanned \in ScanStates
  BY DEF GatherAssumption, Positive, Inflatable, Unscanned, ScanStates, NoLimit
<1>2. \A n \in 1..N : \A x \in ScanStates : step[n][x] \in ScanStates
  BY OfferedType
<1>3. PICK f : LoopRun(f, N, ScanStates, Unscanned, step)
  <2> HIDE DEF step, N
  <2>1. QED
    BY <1>1, <1>2, LoopRuns
<1>4. Runs(f)
  <2>1. ASSUME NEW n \in 1..N PROVE f[n] = Offered(data, f[n - 1], n)
    <3>1. n - 1 \in 0..N
      BY <1>1
    <3>2. f[n - 1] \in ScanStates
      BY <1>3, <3>1 DEF LoopRun
    <3>3. QED
      BY <1>3, <3>2 DEF LoopRun
  <2>2. \A n \in 0..N : f[n] = IF n = 0 THEN Unscanned ELSE Offered(data, f[n - 1], n)
    <3>1. \A n \in 0..N : n = 0 \/ n \in 1..N
      BY <1>1
    <3>2. f[0] = Unscanned
      BY <1>3 DEF LoopRun
    <3> HIDE DEF N
    <3>3. QED
      BY <2>1, <3>1, <3>2
  <2>3. QED
    BY <1>3, <2>2 DEF LoopRun
<1> DEFINE g == CHOOSE g : Runs(g)
<1>5. Runs(g)
  BY <1>4
<1>6. ScanDescriptors(data) = g[N]
  BY DEF ScanDescriptors, Offered, Unscanned
<1>7. g[0] = Unscanned /\ \A n \in 1..N : g[n] = Offered(data, g[n - 1], n)
  <2> HIDE DEF g
  <2>1. \A n \in 0..N : g[n] = IF n = 0 THEN Unscanned ELSE Offered(data, g[n - 1], n)
    BY <1>5
  <2>2. 0 \in 0..N /\ \A n \in 1..N : n \in 0..N /\ n # 0
    BY <1>1
  <2> HIDE DEF N
  <2>3. QED
    BY <2>1, <2>2
<1>8. QED
  BY <1>6, <1>7

\* What the scan keeps up: it finds pieces of the bytes, and while it
\* has met no limit all descriptors that begin at the first n bytes.
ScanGood(data, state, n) ==
  /\ state \in ScanStates
  /\ \A d \in state.found : Piece(d, data)
  /\ state.limits = {} =>
       \A start \in 1..n : \A end : Name(data, start) /\ Ends(data, start, end) => SubSeq(data, start, end) \in state.found

(* One token more keeps what the scan is to show: the step of its induction. *)
LEMMA OfferedGood ==
  ASSUME GatherAssumption, NEW data \in Blobs, NEW n \in 1..Len(data), NEW state, ScanGood(data, state, n - 1)
  PROVE  ScanGood(data, Offered(data, state, n), n)
<1>1. data \in Seq(ToSet(data)) /\ DOMAIN data = 1..Len(data) /\ Len(data) \in Nat /\ state \in ScanStates
  BY DEF GatherAssumption, Positive, Inflatable, ScanGood
<1>2. Offered(data, state, n) \in ScanStates
  BY <1>1, OfferedType
<1>3. \A start \in 1..n : start \in 1..(n - 1) \/ start = n
  BY <1>1
<1>4. CASE ~Name(data, n)
  <2>1. Offered(data, state, n) = state
    BY <1>1, <1>4 DEF Offered, Name
  <2>2. QED
    BY <1>3, <1>4, <2>1 DEF ScanGood
<1>5. CASE Name(data, n) /\ (state.candidates >= MaxCandidates \/ state.attempts >= MaxAttempts)
  <2>1. Offered(data, state, n) = [state EXCEPT !.limits = @ \union {"candidates"}]
    BY <1>5 DEF Offered, Offer, Name
  <2>2. Offered(data, state, n).limits # {} /\ Offered(data, state, n).found = state.found
    BY <1>1, <2>1 DEF ScanStates
  <2>3. QED
    BY <1>2, <2>2 DEF ScanGood
<1>6. CASE Name(data, n) /\ ~(state.candidates >= MaxCandidates \/ state.attempts >= MaxAttempts)
  <2> DEFINE allowed == MaxAttempts - state.attempts
             tried == Tried(data, n, allowed)
             more == IF tried.end = 0 THEN {} ELSE {SubSeq(data, n, tried.end)}
             new == Offered(data, state, n)
  <2>1. MaxAttempts \in Nat /\ state.attempts \in Nat /\ state.candidates \in Nat /\ MaxCandidates \in Nat /\ allowed \in Nat
    BY <1>1, <1>6 DEF GatherAssumption, Positive, Inflatable, ScanStates
  <2>2. /\ tried.attempts \in 0..allowed
        /\ tried.end # 0 => Piece(SubSeq(data, n, tried.end), data)
        /\ RunEnd(data, n) - n + 1 <= MaxBoundaries /\ tried.attempts # allowed =>
              \A end : Ends(data, n, end) => end = tried.end
    <3> HIDE DEF allowed
    <3>1. QED
      BY <1>1, <1>6, <2>1, TriedFinds
  <2>3. new.found = state.found \union more
    BY <1>6 DEF Offered, Offer, Name
  <2>4. new.limits = state.limits
               \union (IF RunEnd(data, n) - n + 1 > MaxBoundaries THEN {"boundaries"} ELSE {})
               \union (IF state.attempts + tried.attempts = MaxAttempts THEN {"candidates"} ELSE {})
    BY <1>6 DEF Offered, Offer, Name
  <2>5. \A d \in new.found : Piece(d, data)
    BY <2>2, <2>3 DEF ScanGood
  <2>6. ASSUME new.limits = {}, NEW start \in 1..n, NEW end, Name(data, start), Ends(data, start, end)
        PROVE  SubSeq(data, start, end) \in new.found
    <3>1. CASE start = n
      <4>1. RunEnd(data, n) \in Int /\ MaxBoundaries \in Int /\ n \in Int
        BY <1>1, <1>6, RunEnds DEF GatherAssumption, Positive, Inflatable
      <4>2. RunEnd(data, n) - n + 1 <= MaxBoundaries /\ tried.attempts # allowed
        <5>1. ~(RunEnd(data, n) - n + 1 > MaxBoundaries) /\ state.attempts + tried.attempts # MaxAttempts
          BY <2>4, <2>6
        <5> HIDE DEF tried
        <5>2. tried.attempts \in Int
          BY <2>1, <2>2
        <5>3. RunEnd(data, n) - n + 1 <= MaxBoundaries
          BY <4>1, <5>1
        <5>4. tried.attempts # allowed
          <6>1. \A x, y, z \in Int : x = y - z => z + x = y
            OBVIOUS
          <6>2. MaxAttempts \in Int /\ state.attempts \in Int
            BY <2>1
          <6>3. QED
            BY <5>1, <5>2, <6>1, <6>2
        <5>5. QED
          BY <5>3, <5>4
      <4>3. end = tried.end /\ end # 0
        BY <1>1, <2>2, <2>6, <3>1, <4>2 DEF Ends
      <4>4. QED
        BY <2>3, <3>1, <4>3
    <3>2. CASE start \in 1..(n - 1)
      <4>1. state.limits = {}
        BY <2>4, <2>6
      <4>2. QED
        BY <2>3, <2>6, <3>2, <4>1 DEF ScanGood
    <3>3. QED
      BY <1>3, <3>1, <3>2
  <2>7. QED
    BY <1>2, <2>5, <2>6 DEF ScanGood
<1>7. QED
  BY <1>4, <1>5, <1>6

(* What a scan of bytes finds: pieces of them, and every descriptor if it  *)
(* met no limit.                                                           *)
LEMMA ScanFinds ==
  ASSUME GatherAssumption, NEW data \in Blobs
  PROVE  /\ ScanDescriptors(data) \in ScanStates
         /\ \A d \in ScanDescriptors(data).found : Piece(d, data)
         /\ ScanDescriptors(data).limits = {} => Written(data) \subseteq ScanDescriptors(data).found
<1>1. PICK f : /\ f[0] = Unscanned
               /\ \A n \in 1..Len(data) : f[n] = Offered(data, f[n - 1], n)
               /\ ScanDescriptors(data) = f[Len(data)]
  BY ScanLoop
<1> DEFINE S == {n \in 0..Len(data) : ScanGood(data, f[n], n)}
<1>2. Len(data) \in Nat /\ DOMAIN data = 1..Len(data)
  BY DEF GatherAssumption, Positive, Inflatable
<1>3. 0 \in S
  BY <1>1, <1>2 DEF ScanGood, Unscanned, ScanStates, NoLimit
<1>4. \A n \in 1..Len(data) : n - 1 \in S => n \in S
  BY <1>1, <1>2, OfferedGood
<1>5. Len(data) \in S
  <2> HIDE DEF S
  <2>1. \A n \in 0..Len(data) : n \in S
    BY <1>2, <1>3, <1>4, Induction
  <2>2. QED
    BY <1>2, <2>1
<1>6. ScanGood(data, ScanDescriptors(data), Len(data))
  BY <1>1, <1>5
<1>7. ASSUME ScanDescriptors(data).limits = {}, NEW d \in Written(data) PROVE d \in ScanDescriptors(data).found
  <2>1. PICK start, end : Name(data, start) /\ Ends(data, start, end) /\ d = SubSeq(data, start, end)
    BY WrittenAt
  <2>2. start \in 1..Len(data)
    BY <1>2, <2>1 DEF Name
  <2>3. QED
    BY <1>6, <1>7, <2>1, <2>2 DEF ScanGood
<1>8. QED
  BY <1>6, <1>7 DEF ScanGood

-----------------------------------------------------------------------------
(* Gzip members.  A level of the search takes bytes and a budget to what   *)
(* is found, and uses the level below it; so the levels are a loop too.    *)
Searches == [stopped : BOOLEAN, members : Nat, budget : 0..MaxInflated, limits : SUBSET Limits, found : SUBSET Cuts]
Levels == [Blobs -> [0..MaxInflated -> Searches]]
Inflated(data, state, below, n) == IF data[n].kind = "gzip" THEN Inflate(data[n], state, below) ELSE state

\* What is inside bytes but the bytes themselves.
Below(depth, data) == IF depth = 0 THEN {} ELSE UNION {Inside[depth - 1][data[k].payload] : k \in Whole(data)}

(* What the bytes are made of, and that gzip members hold bytes. *)
LEMMA Payloads ==
  ASSUME GatherAssumption, NEW data \in Blobs
  PROVE  /\ data \in Seq(ToSet(data)) /\ DOMAIN data = 1..Len(data) /\ Len(data) \in Nat
         /\ \A k \in 1..Len(data) : data[k].kind = "gzip" => data[k].payload \in Blobs /\ Len(data[k].payload) \in Nat
         /\ Whole(data) \subseteq 1..Len(data) /\ \A k \in Whole(data) : data[k].kind = "gzip" /\ data[k].payload \in Blobs
<1>1. \A b \in Blobs : b \in Seq(ToSet(b)) /\ DOMAIN b = 1..Len(b) /\ Len(b) \in Nat
  BY DEF GatherAssumption, Positive, Inflatable
<1>2. \A k \in DOMAIN data : data[k].kind = "gzip" => data[k].payload \in Blobs
  BY DEF GatherAssumption, Positive, Inflatable
<1>3. QED
  BY <1>1, <1>2 DEF Whole

(* The recursion of Inside: the bytes, and what is below them. *)
LEMMA InsideIs ==
  ASSUME GatherAssumption, NEW depth \in 0..MaxGzipDepth, NEW data \in Blobs
  PROVE  Inside[depth][data] = {data} \union Below(depth, data)
<1> DEFINE N == MaxGzipDepth
           X == [Blobs -> SUBSET Blobs]
           base == [b \in Blobs |-> {b}]
           Next(x) == [b \in Blobs |-> {b} \union UNION {x[b[k].payload] : k \in Whole(b)}]
           step == [n \in 1..N |-> [x \in X |-> Next(x)]]
           Level(f, n) == [b \in Blobs |->
                             {b} \union (IF n = 0 THEN {} ELSE UNION {f[n - 1][b[k].payload] : k \in Whole(b)})]
           Runs(f) == f = [n \in 0..N |-> Level(f, n)]
<1>1. N \in Nat /\ base \in X
  BY DEF GatherAssumption, Positive, Inflatable
<1>2. \A x \in X : Next(x) \in X
  <2>1. SUFFICES ASSUME NEW x \in X, NEW b \in Blobs PROVE UNION {x[b[k].payload] : k \in Whole(b)} \subseteq Blobs
    OBVIOUS
  <2>2. \A k \in Whole(b) : b[k].payload \in Blobs
    BY Payloads
  <2>3. QED
    BY <2>2
<1>3. \A n \in 1..N : \A x \in X : step[n][x] \in X /\ step[n][x] = Next(x)
  BY <1>2
<1>4. PICK f : LoopRun(f, N, X, base, step)
  <2> HIDE DEF step, N, X, base
  <2>1. QED
    BY <1>1, <1>3, LoopRuns
<1>5. f \in [0..N -> X] /\ f[0] = Level(f, 0) /\ \A n \in 1..N : f[n] = Level(f, n)
  <2>1. ASSUME NEW n \in 1..N PROVE f[n] = Next(f[n - 1])
    <3>1. n - 1 \in 0..N
      BY <1>1
    <3>2. f[n - 1] \in X
      BY <1>4, <3>1 DEF LoopRun
    <3> HIDE DEF step, X, Next
    <3>3. QED
      BY <1>3, <1>4, <3>2 DEF LoopRun
  <2>2. \A n \in 1..N : Next(f[n - 1]) = Level(f, n)
    BY <1>1
  <2>3. f[0] = base /\ f \in [0..N -> X]
    BY <1>4 DEF LoopRun
  <2>4. base = Level(f, 0)
    OBVIOUS
  <2> HIDE DEF X, Next, Level, base
  <2>5. QED
    BY <2>1, <2>2, <2>3, <2>4
<1>6. Runs(f)
  <2> HIDE DEF Level, X
  <2>1. \A n \in 0..N : n = 0 \/ n \in 1..N
    BY <1>1
  <2>2. \A n \in 0..N : f[n] = Level(f, n)
    BY <1>5, <2>1
  <2>3. QED
    BY <1>5, <2>2
<1>7. Inside = CHOOSE g : Runs(g)
  BY DEF Inside
<1>8. Runs(Inside)
  <2> HIDE DEF Runs
  <2>1. QED
    BY <1>6, <1>7
<1>9. Inside[depth] = Level(Inside, depth)
  <2> HIDE DEF Level
  <2>1. QED
    BY <1>8
<1>10. QED
  BY <1>9 DEF Below

\* One member that can be paid for, and what becomes of the search.
Payable(token, state) ==
  ~(state.stopped \/ state.budget = 0 \/ state.members = MaxMembers \/ state.budget - Len(token.payload) < 0)

(* A budget that pays for so much is one still. *)
LEMMA LeftOver ==
  ASSUME NEW N \in Nat, NEW budget \in 0..N, NEW length \in Nat, ~(budget - length < 0)
  PROVE  budget - length \in 0..N
  OBVIOUS

(* It is a search again, and within its budget. *)
LEMMA InflatedType ==
  ASSUME GatherAssumption, NEW data \in Blobs, NEW n \in 1..Len(data), NEW below \in Levels, NEW state \in Searches
  PROVE  Inflated(data, state, below, n) \in Searches
<1>1. CASE data[n].kind # "gzip"
  BY <1>1 DEF Inflated
<1>2. CASE data[n].kind = "gzip"
  <2> DEFINE token == data[n]
             left == state.budget - Len(token.payload)
             plain == ScanDescriptors(token.payload)
             nested == below[token.payload][left]
  <2>1. token.payload \in Blobs /\ Len(token.payload) \in Nat
    BY <1>2, Payloads
  <2>2. state.budget \in 0..MaxInflated /\ MaxInflated \in Nat /\ state.members \in Nat
    BY DEF Searches, GatherAssumption, Positive, Inflatable
  <2>3. CASE ~Payable(token, state)
    <3>1. Inflated(data, state, below, n) = [state EXCEPT !.stopped = TRUE, !.limits = @ \union {"gzip"}]
      BY <1>2, <2>3 DEF Inflated, Inflate, Payable
    <3>2. QED
      BY <3>1 DEF Searches, Limits
  <2>4. CASE Payable(token, state)
    <3>1. left \in 0..MaxInflated
      <4>1. ~(left < 0)
        BY <2>4 DEF Payable
      <4>2. QED
        BY <2>1, <2>2, <4>1, LeftOver
    <3> HIDE DEF left
    <3>2. CASE ~token.whole
      <4>1. Inflated(data, state, below, n) = [state EXCEPT !.budget = left, !.members = @ + 1]
        BY <1>2, <2>4, <3>2 DEF Inflated, Inflate, Payable, left
      <4>2. ASSUME NEW l \in 0..MaxInflated, NEW m \in Nat PROVE [state EXCEPT !.budget = l, !.members = m] \in Searches
        BY DEF Searches
      <4>3. state.members + 1 \in Nat
        BY <2>2
      <4>4. [state EXCEPT !.budget = left, !.members = state.members + 1] \in Searches
        BY <3>1, <4>2, <4>3
      <4>5. [state EXCEPT !.budget = left, !.members = @ + 1] = [state EXCEPT !.budget = left, !.members = state.members + 1]
        BY DEF Searches
      <4>6. QED
        BY <4>1, <4>4, <4>5
    <3>3. CASE token.whole
      <4>1. Inflated(data, state, below, n) =
              [stopped |-> FALSE, members |-> state.members + 1, budget |-> nested.budget,
               limits |-> state.limits \union plain.limits \union nested.limits,
               found |-> state.found \union plain.found \union nested.found]
        BY <1>2, <2>4, <3>3 DEF Inflated, Inflate, Payable, left
      <4>2. nested \in Searches
        <5> HIDE DEF token
        <5>1. QED
          BY <2>1, <3>1 DEF Levels
      <4>3. plain \in ScanStates
        <5> HIDE DEF token
        <5>1. QED
          BY <2>1, ScanFinds
      <4> HIDE DEF plain, nested, token
      <4>4. nested.budget \in 0..MaxInflated /\ nested.limits \in SUBSET Limits /\ nested.found \in SUBSET Cuts
        BY <4>2 DEF Searches
      <4>5. plain.limits \in SUBSET Limits /\ plain.found \in SUBSET Cuts
        BY <4>3 DEF ScanStates
      <4>6. state.limits \in SUBSET Limits /\ state.found \in SUBSET Cuts /\ state.members + 1 \in Nat
        BY <2>2 DEF Searches
      <4>7. QED
        BY <4>1, <4>4, <4>5, <4>6 DEF Searches
    <3>4. QED
      BY <3>2, <3>3
  <2>5. QED
    BY <2>3, <2>4
<1>3. QED
  BY <1>1, <1>2

(* The loop of _scan_gzip over the members runs, and keeps its budget. *)
LEMMA MembersLoop ==
  ASSUME GatherAssumption, NEW data \in Blobs, NEW below \in Levels, NEW budget \in 0..MaxInflated
  PROVE  \E f : /\ f \in [0..Len(data) -> Searches]
                /\ f[0] = Unsearched(budget)
                /\ \A n \in 1..Len(data) : f[n] = Inflated(data, f[n - 1], below, n)
                /\ SearchMembers(data, budget, below) = f[Len(data)]
<1> DEFINE N == Len(data)
           base == Unsearched(budget)
           step == [n \in 1..N |-> [x \in Searches |-> Inflated(data, x, below, n)]]
           Level(f, n) == IF n = 0 THEN base ELSE Inflated(data, f[n - 1], below, n)
           Runs(f) == f = [n \in 0..N |-> Level(f, n)]
<1>1. N \in Nat /\ base \in Searches
  BY DEF GatherAssumption, Positive, Inflatable, Unsearched, Searches, NoLimit
<1>2. \A n \in 1..N : \A x \in Searches : step[n][x] \in Searches
  BY InflatedType
<1>3. PICK f : LoopRun(f, N, Searches, base, step)
  <2> HIDE DEF step, N, base
  <2>1. QED
    BY <1>1, <1>2, LoopRuns
<1>4. f \in [0..N -> Searches] /\ f[0] = base /\ \A n \in 1..N : f[n] = Inflated(data, f[n - 1], below, n)
  <2>1. ASSUME NEW n \in 1..N PROVE f[n] = Inflated(data, f[n - 1], below, n)
    <3>1. n - 1 \in 0..N
      BY <1>1
    <3>2. f[n - 1] \in Searches
      BY <1>3, <3>1 DEF LoopRun
    <3>3. QED
      BY <1>3, <3>2 DEF LoopRun
  <2>2. f \in [0..N -> Searches] /\ f[0] = base
    BY <1>3 DEF LoopRun
  <2> HIDE DEF base
  <2>3. QED
    BY <2>1, <2>2
<1>5. Runs(f)
  <2>1. \A n \in 0..N : n = 0 \/ n \in 1..N
    BY <1>1
  <2> HIDE DEF base, N
  <2>2. \A n \in 0..N : f[n] = Level(f, n)
    BY <1>4, <2>1
  <2> HIDE DEF Level
  <2>3. QED
    BY <1>4, <2>2
<1> DEFINE g == CHOOSE g : Runs(g)
<1>6. Runs(g)
  <2> HIDE DEF Runs
  <2>1. QED
    BY <1>5
<1>7. SearchMembers(data, budget, below) = g[N]
  BY DEF SearchMembers, Inflated
<1>8. g[0] = base /\ \A n \in 1..N : g[n] = Inflated(data, g[n - 1], below, n)
  <2>1. 0 \in 0..N /\ \A n \in 1..N : n \in 0..N /\ n # 0
    BY <1>1
  <2> HIDE DEF g, N, base
  <2>2. \A n \in 0..N : g[n] = Level(g, n)
    BY <1>6
  <2>3. QED
    BY <2>1, <2>2
<1>9. g \in [0..N -> Searches]
  <2> DEFINE S == {n \in 0..N : g[n] \in Searches}
  <2>1. 0 \in S
    <3> HIDE DEF base, g
    <3>1. QED
      BY <1>1, <1>8
  <2>2. \A n \in 1..N : n - 1 \in S => n \in S
    <3> HIDE DEF base, g
    <3>1. QED
      BY <1>1, <1>8, InflatedType
  <2>3. \A n \in 0..N : n \in S
    <3> HIDE DEF S
    <3>1. N \in Nat
      BY <1>1
    <3>2. QED
      BY <2>1, <2>2, <3>1, Induction
  <2>4. g = [n \in 0..N |-> Level(g, n)]
    <3> HIDE DEF g
    <3>1. QED
      BY <1>6
  <2> HIDE DEF g, Level
  <2>5. QED
    BY <2>3, <2>4
<1>10. QED
  <2> HIDE DEF g, base
  <2>1. QED
    BY <1>7, <1>8, <1>9 DEF base

(* The recursion of _scan_gzip: each level is the search with the one below. *)
LEMMA LevelsAre ==
  ASSUME GatherAssumption
  PROVE  /\ \A depth \in 0..MaxGzipDepth : ScanGzip[depth] \in Levels
         /\ \A data \in Blobs : \A budget \in 0..MaxInflated : ScanGzip[0][data][budget] = Unsearched(budget)
         /\ \A depth \in 1..MaxGzipDepth : \A data \in Blobs : \A budget \in 0..MaxInflated :
              ScanGzip[depth][data][budget] = SearchMembers(data, budget, ScanGzip[depth - 1])
<1> DEFINE N == MaxGzipDepth
           base == [data \in Blobs |-> [budget \in 0..MaxInflated |-> Unsearched(budget)]]
           Next(x) == [data \in Blobs |-> [budget \in 0..MaxInflated |-> SearchMembers(data, budget, x)]]
           step == [n \in 1..N |-> [x \in Levels |-> Next(x)]]
           Level(f, n) == [data \in Blobs |-> [budget \in 0..MaxInflated |->
                             IF n = 0 THEN Unsearched(budget) ELSE SearchMembers(data, budget, f[n - 1])]]
           Runs(f) == f = [n \in 0..N |-> Level(f, n)]
<1>1. N \in Nat /\ base \in Levels
  <2>1. \A budget \in 0..MaxInflated : Unsearched(budget) \in Searches
    BY DEF Unsearched, Searches, NoLimit
  <2>2. QED
    BY <2>1 DEF GatherAssumption, Positive, Inflatable, Levels
<1>2. \A x \in Levels : Next(x) \in Levels
  <2>1. SUFFICES ASSUME NEW x \in Levels, NEW data \in Blobs, NEW budget \in 0..MaxInflated
                 PROVE  SearchMembers(data, budget, x) \in Searches
    BY DEF Levels
  <2>2. PICK f : f \in [0..Len(data) -> Searches] /\ SearchMembers(data, budget, x) = f[Len(data)]
    BY MembersLoop
  <2>3. Len(data) \in 0..Len(data)
    BY Payloads
  <2>4. QED
    BY <2>2, <2>3
<1>3. \A n \in 1..N : \A x \in Levels : step[n][x] \in Levels /\ step[n][x] = Next(x)
  <2> HIDE DEF Next
  <2>1. QED
    BY <1>2
<1>4. PICK f : LoopRun(f, N, Levels, base, step)
  <2> HIDE DEF step, N, base
  <2>1. QED
    BY <1>1, <1>3, LoopRuns
<1>5. f \in [0..N -> Levels] /\ f[0] = Level(f, 0) /\ \A n \in 1..N : f[n] = Level(f, n)
  <2>1. ASSUME NEW n \in 1..N PROVE f[n] = Next(f[n - 1])
    <3>1. n - 1 \in 0..N
      BY <1>1
    <3>2. f[n - 1] \in Levels
      BY <1>4, <3>1 DEF LoopRun
    <3> HIDE DEF step, Next
    <3>3. QED
      BY <1>3, <1>4, <3>2 DEF LoopRun
  <2>2. \A n \in 1..N : Next(f[n - 1]) = Level(f, n)
    BY <1>1
  <2>3. f[0] = base /\ f \in [0..N -> Levels]
    BY <1>4 DEF LoopRun
  <2>4. base = Level(f, 0)
    OBVIOUS
  <2> HIDE DEF Next, Level, base
  <2>5. QED
    BY <2>1, <2>2, <2>3, <2>4
<1>6. Runs(f)
  <2> HIDE DEF Level
  <2>1. \A n \in 0..N : n = 0 \/ n \in 1..N
    BY <1>1
  <2>2. \A n \in 0..N : f[n] = Level(f, n)
    BY <1>5, <2>1
  <2>3. QED
    BY <1>5, <2>2
<1>7. ScanGzip = CHOOSE g : Runs(g)
  BY DEF ScanGzip
<1>8. Runs(ScanGzip)
  <2> HIDE DEF Runs
  <2>1. QED
    BY <1>6, <1>7
<1>9. \A n \in 0..N : ScanGzip[n] = Level(ScanGzip, n)
  <2> HIDE DEF Level
  <2>1. QED
    BY <1>8
<1>10. ScanGzip[0] = base /\ \A n \in 1..N : ScanGzip[n] = Next(ScanGzip[n - 1])
  <2>1. 0 \in 0..N /\ \A n \in 1..N : n \in 0..N /\ n # 0
    BY <1>1
  <2>2. QED
    BY <1>9, <2>1
<1>11. \A n \in 0..N : ScanGzip[n] \in Levels
  <2> DEFINE S == {n \in 0..N : ScanGzip[n] \in Levels}
  <2> HIDE DEF base, Next, N
  <2>1. 0 \in S
    BY <1>1, <1>10
  <2>2. \A n \in 1..N : n - 1 \in S => n \in S
    BY <1>1, <1>2, <1>10
  <2>3. \A n \in 0..N : n \in S
    <3> HIDE DEF S
    <3>1. N \in Nat
      BY <1>1
    <3>2. QED
      BY <2>1, <2>2, <3>1, Induction
  <2>4. QED
    BY <2>3
<1>12. \A data \in Blobs : \A budget \in 0..MaxInflated :
         /\ base[data][budget] = Unsearched(budget)
         /\ \A x : Next(x)[data][budget] = SearchMembers(data, budget, x)
  OBVIOUS
<1>13. QED
  <2> HIDE DEF base, Next
  <2>1. QED
    BY <1>10, <1>11, <1>12

\* What a level finds: pieces of what is inside the bytes, and all that is
\* written there if no limit was met.
Finds(outcome, depth, data) ==
  /\ \A d \in outcome.found : \E b \in Below(depth, data) : Piece(d, b)
  /\ outcome.limits = {} => \A b \in Below(depth, data) : Written(b) \subseteq outcome.found
LevelGood(depth) == \A data \in Blobs : \A budget \in 0..MaxInflated : Finds(ScanGzip[depth][data][budget], depth, data)

\* And what the loop over the members of the bytes keeps up.
MembersGood(depth, data, state, n) ==
  /\ state \in Searches
  /\ state.stopped => state.limits # {}
  /\ \A d \in state.found : \E b \in Below(depth, data) : Piece(d, b)
  /\ state.limits = {} =>
       \A k \in Whole(data) : k <= n => \A b \in Inside[depth - 1][data[k].payload] : Written(b) \subseteq state.found

(* A search that has met a limit has only to account for what it found. *)
LEMMA LimitMet ==
  ASSUME NEW depth, NEW data, NEW n, NEW state \in Searches, state.limits # {},
         \A d \in state.found : \E b \in Below(depth, data) : Piece(d, b)
  PROVE  MembersGood(depth, data, state, n)
  BY DEF MembersGood

(* One member more keeps what a level is to show, given the level below. *)
LEMMA InflatedGood ==
  ASSUME GatherAssumption, NEW depth \in 1..MaxGzipDepth, LevelGood(depth - 1),
         NEW data \in Blobs, NEW n \in 1..Len(data), NEW state, MembersGood(depth, data, state, n - 1)
  PROVE  MembersGood(depth, data, Inflated(data, state, ScanGzip[depth - 1], n), n)
<1> DEFINE below == ScanGzip[depth - 1]
           token == data[n]
           left == state.budget - Len(token.payload)
           plain == ScanDescriptors(token.payload)
           nested == below[token.payload][left]
           new == Inflated(data, state, below, n)
<1>1. /\ depth \in Int /\ depth # 0 /\ depth - 1 \in 0..MaxGzipDepth /\ below \in Levels
      /\ state \in Searches /\ n \in Int /\ Len(data) \in Nat
      /\ \A k \in Whole(data) : k \in 1..Len(data) /\ data[k].kind = "gzip"
  <2>1. MaxGzipDepth \in Nat
    BY DEF GatherAssumption, Positive, Inflatable
  <2>2. depth \in Int /\ depth # 0 /\ depth - 1 \in 0..MaxGzipDepth
    BY <2>1
  <2>3. QED
    BY <2>2, LevelsAre, Payloads DEF MembersGood
<1>2. new \in Searches
  BY <1>1, InflatedType
<1>3. \A k \in Whole(data) : k <= n => k <= n - 1 \/ k = n
  <2>1. \A k \in 1..Len(data) : k \in Int
    BY <1>1
  <2>2. \A k, l \in Int : k <= l => k <= l - 1 \/ k = l
    OBVIOUS
  <2>3. QED
    BY <1>1, <2>1, <2>2
<1>4. CASE n \notin Whole(data) /\ new.stopped = state.stopped /\ new.limits = state.limits /\ new.found = state.found
  BY <1>2, <1>3, <1>4 DEF MembersGood
<1>5. CASE token.kind # "gzip"
  BY <1>1, <1>4, <1>5 DEF Inflated
<1>6. CASE token.kind = "gzip" /\ ~Payable(token, state)
  <2>1. new = [state EXCEPT !.stopped = TRUE, !.limits = @ \union {"gzip"}]
    BY <1>6 DEF Inflated, Inflate, Payable
  <2>2. new.limits # {} /\ new.found = state.found
    BY <1>1, <2>1 DEF Searches
  <2>3. \A d \in state.found : \E b \in Below(depth, data) : Piece(d, b)
    BY DEF MembersGood
  <2>4. \A d \in new.found : \E b \in Below(depth, data) : Piece(d, b)
    BY <2>2, <2>3
  <2>5. MembersGood(depth, data, new, n)
    <3> HIDE DEF new
    <3>1. QED
      BY <1>2, <2>2, <2>4, LimitMet
  <2>6. QED
    BY <2>5
<1>7. CASE token.kind = "gzip" /\ Payable(token, state) /\ ~token.whole
  <2>1. new = [state EXCEPT !.budget = left, !.members = @ + 1]
    BY <1>7 DEF Inflated, Inflate, Payable
  <2>2. new.limits = state.limits /\ new.found = state.found /\ new.stopped = state.stopped
    BY <1>1, <2>1 DEF Searches
  <2>3. n \notin Whole(data)
    BY <1>7 DEF Whole
  <2>4. QED
    BY <1>4, <2>2, <2>3
<1>8. CASE token.kind = "gzip" /\ Payable(token, state) /\ token.whole
  <2> DEFINE payload == token.payload
  <2>1. payload \in Blobs /\ Len(payload) \in Nat /\ n \in Whole(data)
    <3>1. DOMAIN data = 1..Len(data)
      BY Payloads
    <3>2. QED
      BY <1>8, <3>1, Payloads DEF Whole
  <2>2. left \in 0..MaxInflated
    <3>1. state.budget \in 0..MaxInflated /\ MaxInflated \in Nat
      BY <1>1 DEF Searches, GatherAssumption, Positive, Inflatable
    <3>2. ~(left < 0)
      BY <1>8 DEF Payable
    <3>3. QED
      BY <2>1, <3>1, <3>2, LeftOver
  <2>3. new = [stopped |-> FALSE, members |-> state.members + 1, budget |-> nested.budget,
               limits |-> state.limits \union plain.limits \union nested.limits,
               found |-> state.found \union plain.found \union nested.found]
    BY <1>8 DEF Inflated, Inflate, Payable
  <2> HIDE DEF left, token
  <2>4. Finds(nested, depth - 1, payload)
    BY <2>1, <2>2 DEF LevelGood
  <2>5. /\ \A d \in plain.found : Piece(d, payload)
        /\ plain.limits = {} => Written(payload) \subseteq plain.found
    BY <2>1, ScanFinds
  <2>6. Inside[depth - 1][payload] = {payload} \union Below(depth - 1, payload)
    BY <1>1, <2>1, InsideIs
  <2>7. Inside[depth - 1][payload] \subseteq Below(depth, data)
    BY <1>1, <2>1 DEF Below, token
  <2> HIDE DEF plain, nested, below, payload, new
  <2>8. new.stopped = FALSE /\ new.limits = state.limits \union plain.limits \union nested.limits
        /\ new.found = state.found \union plain.found \union nested.found
    BY <2>3
  <2>9. \A d \in new.found : \E b \in Below(depth, data) : Piece(d, b)
    <3>1. \A d \in state.found : \E b \in Below(depth, data) : Piece(d, b)
      BY DEF MembersGood
    <3>2. \A d \in plain.found : \E b \in Below(depth, data) : Piece(d, b)
      BY <2>5, <2>6, <2>7
    <3>3. \A d \in nested.found : \E b \in Below(depth, data) : Piece(d, b)
      BY <2>4, <2>6, <2>7 DEF Finds
    <3>4. QED
      BY <2>8, <3>1, <3>2, <3>3
  <2>10. ASSUME new.limits = {}, NEW k \in Whole(data), k <= n, NEW b \in Inside[depth - 1][data[k].payload]
         PROVE  Written(b) \subseteq new.found
    <3>1. state.limits = {} /\ plain.limits = {} /\ nested.limits = {}
      BY <2>8, <2>10
    <3>2. CASE k <= n - 1
      <4>1. Written(b) \subseteq state.found
        BY <2>10, <3>1, <3>2 DEF MembersGood
      <4>2. QED
        BY <2>8, <4>1
    <3>3. CASE k = n
      <4>1. b = payload \/ b \in Below(depth - 1, payload)
        BY <2>6, <2>10, <3>3 DEF payload, token
      <4>2. Written(b) \subseteq plain.found \union nested.found
        BY <2>4, <2>5, <3>1, <4>1 DEF Finds
      <4>3. QED
        BY <2>8, <4>2
    <3>4. QED
      BY <1>3, <2>10, <3>2, <3>3
  <2>11. QED
    BY <1>2, <2>8, <2>9, <2>10 DEF MembersGood, new, below
<1>9. QED
  BY <1>5, <1>6, <1>7, <1>8

(* So a level finds what is below the bytes if the one below it does. *)
LEMMA LevelFinds ==
  ASSUME GatherAssumption, NEW depth \in 1..MaxGzipDepth, LevelGood(depth - 1)
  PROVE  LevelGood(depth)
<1>1. SUFFICES ASSUME NEW data \in Blobs, NEW budget \in 0..MaxInflated
               PROVE  Finds(ScanGzip[depth][data][budget], depth, data)
  BY DEF LevelGood
<1>2. Len(data) \in Nat /\ MaxGzipDepth \in Nat /\ depth \in Int /\ depth # 0 /\ depth - 1 \in 0..MaxGzipDepth
      /\ \A k \in Whole(data) : k \in 1..Len(data)
  BY Payloads DEF GatherAssumption, Positive, Inflatable
<1>3. ScanGzip[depth - 1] \in Levels
  BY <1>2, LevelsAre
<1>4. PICK f : /\ f \in [0..Len(data) -> Searches]
               /\ f[0] = Unsearched(budget)
               /\ \A n \in 1..Len(data) : f[n] = Inflated(data, f[n - 1], ScanGzip[depth - 1], n)
               /\ SearchMembers(data, budget, ScanGzip[depth - 1]) = f[Len(data)]
  BY <1>3, MembersLoop
<1> DEFINE S == {n \in 0..Len(data) : MembersGood(depth, data, f[n], n)}
<1>5. 0 \in S
  <2>1. 0 \in 0..Len(data) /\ f[0] \in Searches
    <3>1. 0 \in 0..Len(data)
      BY <1>2
    <3>2. QED
      BY <1>4, <3>1
  <2>2. \A k \in Whole(data) : ~(k <= 0)
    BY <1>2
  <2>3. f[0].found = {} /\ ~f[0].stopped
    BY <1>4 DEF Unsearched
  <2>4. QED
    BY <2>1, <2>2, <2>3 DEF MembersGood
<1>6. \A n \in 1..Len(data) : n - 1 \in S => n \in S
  <2>1. SUFFICES ASSUME NEW n \in 1..Len(data), n - 1 \in S PROVE n \in S
    OBVIOUS
  <2>2. MembersGood(depth, data, f[n - 1], n - 1)
    BY <2>1
  <2>3. MembersGood(depth, data, Inflated(data, f[n - 1], ScanGzip[depth - 1], n), n)
    BY <2>2, InflatedGood
  <2>4. f[n] = Inflated(data, f[n - 1], ScanGzip[depth - 1], n) /\ n \in 0..Len(data)
    BY <1>2, <1>4
  <2>5. QED
    BY <2>3, <2>4
<1>7. MembersGood(depth, data, f[Len(data)], Len(data))
  <2> HIDE DEF S
  <2>1. \A n \in 0..Len(data) : n \in S
    BY <1>2, <1>5, <1>6, Induction
  <2>2. Len(data) \in S
    BY <1>2, <2>1
  <2>3. QED
    BY <2>2 DEF S
<1>8. ScanGzip[depth][data][budget] = f[Len(data)]
  BY <1>4, LevelsAre
<1> DEFINE outcome == ScanGzip[depth][data][budget]
<1>9. /\ \A d \in outcome.found : \E b \in Below(depth, data) : Piece(d, b)
      /\ outcome.limits = {} => \A k \in Whole(data) : \A b \in Inside[depth - 1][data[k].payload] : Written(b) \subseteq outcome.found
  <2>1. \A k \in Whole(data) : k <= Len(data)
    BY <1>2
  <2>2. QED
    BY <1>7, <1>8, <2>1 DEF MembersGood
<1>10. \A b \in Below(depth, data) : \E k \in Whole(data) : b \in Inside[depth - 1][data[k].payload]
  BY <1>2 DEF Below
<1> HIDE DEF outcome
<1>11. Finds(outcome, depth, data)
  BY <1>9, <1>10 DEF Finds
<1>12. QED
  BY <1>11 DEF outcome

(* The findings of bytes: nothing that is not written there or inside, and *)
(* all of it within the limits.                                            *)
LEMMA FindingsOf ==
  ASSUME GatherAssumption, NEW data \in Blobs
  PROVE  /\ \A d \in Findings(data) : \E b \in Inside[MaxGzipDepth][data] : Piece(d, b)
         /\ WithinLimits(data) => UNION {Written(b) : b \in Inside[MaxGzipDepth][data]} \subseteq Findings(data)
<1>1. MaxGzipDepth \in Nat /\ MaxInflated \in Nat
  BY DEF GatherAssumption, Positive, Inflatable
<1> DEFINE S == {n \in 0..MaxGzipDepth : LevelGood(n)}
<1>2. 0 \in S
  <2>1. \A b \in Blobs : \A budget \in 0..MaxInflated : ScanGzip[0][b][budget].found = {}
    <3>1. \A b \in Blobs : \A budget \in 0..MaxInflated : ScanGzip[0][b][budget] = Unsearched(budget)
      BY LevelsAre
    <3>2. \A budget \in 0..MaxInflated : Unsearched(budget).found = {}
      BY DEF Unsearched
    <3>3. QED
      BY <3>1, <3>2
  <2>2. \A b \in Blobs : Below(0, b) = {}
    BY DEF Below
  <2>3. QED
    BY <1>1, <2>1, <2>2 DEF LevelGood, Finds
<1>3. \A n \in 1..MaxGzipDepth : n - 1 \in S => n \in S
  BY <1>1, LevelFinds
<1>4. LevelGood(MaxGzipDepth)
  <2> HIDE DEF S
  <2>1. \A n \in 0..MaxGzipDepth : n \in S
    BY <1>1, <1>2, <1>3, Induction
  <2>2. MaxGzipDepth \in S
    BY <1>1, <2>1
  <2>3. QED
    BY <2>2 DEF S
<1> DEFINE plain == ScanDescriptors(data)
           gzip == ScanGzip[MaxGzipDepth][data][MaxInflated]
<1>5. Finds(gzip, MaxGzipDepth, data)
  BY <1>1, <1>4 DEF LevelGood
<1>6. /\ \A d \in plain.found : Piece(d, data)
      /\ plain.limits = {} => Written(data) \subseteq plain.found
  BY ScanFinds
<1>7. Inside[MaxGzipDepth][data] = {data} \union Below(MaxGzipDepth, data)
  BY <1>1, InsideIs
<1>8. Findings(data) = plain.found \union gzip.found /\ (WithinLimits(data) => plain.limits = {} /\ gzip.limits = {})
  BY DEF Findings, WithinLimits, NoLimit
<1> HIDE DEF plain, gzip
<1>9. QED
  BY <1>5, <1>6, <1>7, <1>8 DEF Finds

-----------------------------------------------------------------------------
(* Running sums of sizes exist and only grow. *)
LEMMA SumsGrow ==
  ASSUME NEW sizes, NEW N \in Nat, sizes \in [1..N -> Nat], Len(sizes) = N
  PROVE  /\ Sums(sizes) \in [0..N -> Nat]
         /\ \A n \in 1..N : Sums(sizes)[n] = Sums(sizes)[n - 1] + sizes[n]
         /\ \A i, j \in 0..N : i <= j => Sums(sizes)[i] <= Sums(sizes)[j]
<1> DEFINE step == [n \in 1..N |-> [x \in Nat |-> x + sizes[n]]]
           Level(f, n) == IF n = 0 THEN 0 ELSE f[n - 1] + sizes[n]
           Runs(f) == f = [n \in 0..N |-> Level(f, n)]
           sum == Sums(sizes)
<1>1. \A n \in 1..N : \A x \in Nat : step[n][x] \in Nat /\ step[n][x] = x + sizes[n]
  OBVIOUS
<1>2. PICK f : LoopRun(f, N, Nat, 0, step)
  <2> HIDE DEF step
  <2>1. 0 \in Nat
    OBVIOUS
  <2>2. QED
    BY <1>1, <2>1, LoopRuns
<1>3. f \in [0..N -> Nat] /\ f[0] = 0 /\ \A n \in 1..N : f[n] = f[n - 1] + sizes[n]
  <2> HIDE DEF step
  <2>1. f \in [0..N -> Nat] /\ f[0] = 0 /\ \A n \in 1..N : f[n] = step[n][f[n - 1]]
    BY <1>2 DEF LoopRun
  <2>2. \A n \in 1..N : f[n - 1] \in Nat
    BY <2>1
  <2>3. QED
    BY <1>1, <2>1, <2>2
<1>4. Runs(f)
  <2>1. \A n \in 0..N : n = 0 \/ n \in 1..N
    OBVIOUS
  <2>2. \A n \in 1..N : n # 0
    OBVIOUS
  <2>3. \A n \in 0..N : f[n] = Level(f, n)
    BY <1>3, <2>1, <2>2
  <2> HIDE DEF Level
  <2>4. QED
    BY <1>3, <2>3
<1>5. sum = CHOOSE g : Runs(g)
  BY DEF Sums
<1>6. Runs(sum)
  <2> HIDE DEF Runs, sum
  <2>1. QED
    BY <1>4, <1>5
<1>7. sum[0] = 0 /\ \A n \in 1..N : sum[n] = sum[n - 1] + sizes[n]
  <2>1. 0 \in 0..N /\ \A n \in 1..N : n \in 0..N /\ n # 0
    OBVIOUS
  <2> HIDE DEF sum
  <2>2. \A n \in 0..N : sum[n] = Level(sum, n)
    BY <1>6
  <2>3. QED
    BY <2>1, <2>2
<1>8. sum \in [0..N -> Nat]
  <2> DEFINE S == {n \in 0..N : sum[n] \in Nat}
  <2> HIDE DEF sum
  <2>1. 0 \in S
    BY <1>7
  <2>2. \A n \in 1..N : n - 1 \in S => n \in S
    BY <1>7
  <2>3. \A n \in 0..N : n \in S
    <3> HIDE DEF S
    <3>1. QED
      BY <2>1, <2>2, Induction
  <2>4. sum = [n \in 0..N |-> Level(sum, n)]
    BY <1>6
  <2> HIDE DEF Level
  <2>5. QED
    BY <2>3, <2>4
<1>9. ASSUME NEW i \in 0..N PROVE \A j \in 0..N : i <= j => sum[i] <= sum[j]
  <2> DEFINE S == {j \in 0..N : i <= j => sum[i] <= sum[j]}
  <2> HIDE DEF sum
  <2>1. 0 \in S
    BY <1>8
  <2>2. ASSUME NEW n \in 1..N, n - 1 \in S PROVE n \in S
    <3>1. sum[i] \in Nat /\ sum[n - 1] \in Nat /\ sum[n] = sum[n - 1] + sizes[n] /\ sizes[n] \in Nat
      BY <1>7, <1>8
    <3>2. i = n \/ i > n \/ i <= n - 1
      OBVIOUS
    <3>3. i <= n - 1 => sum[i] <= sum[n - 1]
      BY <2>2
    <3>4. i <= n - 1 => sum[i] <= sum[n]
      BY <3>1, <3>3
    <3>5. i = n => sum[i] <= sum[n]
      BY <3>1
    <3>6. QED
      BY <3>2, <3>4, <3>5
  <2>3. \A n \in 0..N : n \in S
    <3> HIDE DEF S
    <3>1. QED
      BY <2>1, <2>2, Induction
  <2>4. QED
    BY <2>3
<1>10. QED
  BY <1>7, <1>8, <1>9

-----------------------------------------------------------------------------
(* The walk over an archive.                                               *)

Covered(entries) == \A k \in Selected(entries) : Findings(entries[k].data) \subseteq found

\* Where the walk is: in the archive, or in its one jar after all else.
Walk ==
  /\ Archive(archive) /\ ZipFile(opened)
  /\ ~inJar => opened = archive.entries
  /\ inJar => /\ archive.aar /\ Covered(archive.entries)
              /\ JarsOf(archive.entries) # {} /\ \A e \in JarsOf(archive.entries) : opened = e.inside

\* What was read of a zip file is covered and within the budget, and so will
\* be what is left.
Reading ==
  /\ Inventoried(opened) /\ Affordable(opened)
  /\ unread \subseteq Selected(opened)
  /\ \A k \in unread : \A l \in Selected(opened) : k < l => l \in unread
  /\ \A k \in Selected(opened) \ unread : Findings(opened[k].data) \subseteq found
  /\ \A k \in unread : bytes <= Sums(Sizes(opened))[k - 1]

Founded == \A d \in found : \E data \in AllBlobs : \E b \in Inside[MaxGzipDepth][data] : Piece(d, b)

GatherInv ==
  /\ gathering \in {"going", "reading", "done", "refused"} /\ inJar \in BOOLEAN
  /\ bytes \in Nat /\ bytes <= MaxScan
  /\ Founded
  /\ gathering # "refused" => Walk
  /\ gathering \in {"reading", "done"} => Reading
  /\ gathering = "done" => unread = {} /\ ~MoreToOpen

(* The entries of a zip file, those selected and their sizes. *)
LEMMA ZipShape ==
  ASSUME NEW entries, ZipFile(entries)
  PROVE  /\ Len(entries) \in Nat /\ DOMAIN entries = 1..Len(entries)
         /\ Selected(entries) \subseteq 1..Len(entries)
         /\ \A k \in 1..Len(entries) : entries[k] \in ToSet(entries) /\ entries[k].size \in Nat /\ entries[k].data \in Blobs
         /\ Sizes(entries) \in [1..Len(entries) -> Nat] /\ Len(Sizes(entries)) = Len(entries)
         /\ \A k \in Selected(entries) : Sizes(entries)[k] = entries[k].size
         /\ \A data \in BlobsOf(entries) : \E k \in Selected(entries) : data = entries[k].data
         /\ \A k \in Selected(entries) : entries[k].data \in BlobsOf(entries)
<1>1. Len(entries) \in Nat /\ DOMAIN entries = 1..Len(entries)
  BY DEF ZipFile
<1>2. Selected(entries) \subseteq 1..Len(entries)
  BY <1>1 DEF Selected
<1>3. \A k \in 1..Len(entries) : entries[k] \in ToSet(entries) /\ entries[k].size \in Nat /\ entries[k].data \in Blobs
  BY <1>1 DEF ZipFile, ToSet
<1>4. Sizes(entries) \in [1..Len(entries) -> Nat]
  BY <1>1, <1>3 DEF Sizes
<1>5. Len(Sizes(entries)) = Len(entries)
  <2>1. Sizes(entries) \in Seq(Nat) /\ DOMAIN Sizes(entries) = 1..Len(entries)
    BY <1>1, <1>4
  <2>2. QED
    BY <1>1, <2>1
<1>6. \A k \in Selected(entries) : Sizes(entries)[k] = entries[k].size
  BY <1>1, <1>2 DEF Sizes
<1>7. \A e \in ToSet(entries) : \E k \in 1..Len(entries) : e = entries[k]
  BY <1>1 DEF ToSet
<1>8. \A data \in BlobsOf(entries) : \E k \in Selected(entries) : data = entries[k].data
  BY <1>1, <1>7 DEF BlobsOf, Selected
<1>9. \A k \in Selected(entries) : entries[k].data \in BlobsOf(entries)
  BY <1>1, <1>3 DEF BlobsOf, Selected
<1>10. QED
  BY <1>1, <1>2, <1>3, <1>4, <1>5, <1>6, <1>8, <1>9

(* What is read is among the bytes there are. *)
LEMMA OpenedBlobs == Walk => BlobsOf(opened) \subseteq AllBlobs
<1>1. SUFFICES ASSUME Walk PROVE BlobsOf(opened) \subseteq AllBlobs
  OBVIOUS
<1>2. CASE ~inJar
  BY <1>1, <1>2 DEF Walk, AllBlobs
<1>3. CASE inJar
  <2>1. PICK e \in JarsOf(archive.entries) : opened = e.inside
    BY <1>1, <1>3 DEF Walk
  <2>2. BlobsOf(e.inside) \subseteq UNION {BlobsOf(x.inside) : x \in JarsOf(archive.entries)}
    BY <2>1
  <2>3. archive.aar
    BY <1>1, <1>3 DEF Walk
  <2>4. QED
    BY <2>1, <2>2, <2>3 DEF AllBlobs
<1>4. QED
  BY <1>2, <1>3

(* A file that passes the inventory has at most one jar. *)
LEMMA OneJar ==
  ASSUME NEW entries, ZipFile(entries), Inventoried(entries), NEW e \in JarsOf(entries), NEW f \in JarsOf(entries)
  PROVE  e = f
<1>1. DOMAIN entries = 1..Len(entries) /\ Len(entries) \in Nat
  BY ZipShape
<1>2. PICK k \in 1..Len(entries) : e = entries[k]
  BY <1>1 DEF JarsOf, ToSet
<1>3. PICK l \in 1..Len(entries) : f = entries[l]
  BY <1>1 DEF JarsOf, ToSet
<1>4. e.kind # "directory" /\ f.kind # "directory" /\ e.name = f.name
  BY DEF JarsOf
<1>5. ~(k < l) /\ ~(l < k)
  BY <1>1, <1>2, <1>3, <1>4 DEF Inventoried
<1>6. QED
  BY <1>1, <1>2, <1>3, <1>5

(* Before anything is opened there is nothing to explain. *)
LEMMA GatherStarts ==
  ASSUME GatherAssumption, NEW CONSTANT archives, \A a \in archives : Archive(a), GatherInit(archives)
  PROVE  GatherInv
<1>1. Archive(archive) /\ MaxScan \in Nat
  BY DEF GatherInit, GatherAssumption, Positive, Inflatable
<1>2. Walk
  BY <1>1 DEF GatherInit, Walk, Archive
<1>3. gathering = "going" /\ inJar = FALSE /\ bytes = 0 /\ found = {}
  BY DEF GatherInit
<1>4. bytes \in Nat /\ bytes <= MaxScan
  BY <1>1, <1>3
<1>5. Founded
  BY <1>3 DEF Founded
<1>6. QED
  BY <1>2, <1>3, <1>4, <1>5 DEF GatherInv

(* An archive that passes is read from its first entry, at no cost yet. *)
LEMMA OpenKeeps == GatherAssumption /\ GatherInv /\ Open => GatherInv'
<1> SUFFICES ASSUME GatherAssumption, GatherInv, Open PROVE GatherInv'
  OBVIOUS
<1>1. Walk /\ Walk' /\ MaxScan \in Nat
  BY DEF GatherInv, Open, Walk, Covered, GatherAssumption, Positive, Inflatable
<1>2. Founded'
  BY DEF GatherInv, Open, Founded, AllBlobs
<1>3. Reading'
  <2>1. Inventoried(opened') /\ Affordable(opened') /\ unread' = Selected(opened') /\ bytes' = 0 /\ ZipFile(opened')
    BY <1>1 DEF Open, Walk
  <2>2. ASSUME NEW k \in unread' PROVE 0 <= Sums(Sizes(opened'))[k - 1]
    <3>1. k \in 1..Len(opened') /\ Len(opened') \in Nat /\ k - 1 \in 0..Len(opened')
      BY <2>1, ZipShape
    <3>2. Sizes(opened') \in [1..Len(opened') -> Nat] /\ Len(Sizes(opened')) = Len(opened')
      BY <2>1, ZipShape
    <3>3. Sums(Sizes(opened')) \in [0..Len(opened') -> Nat]
      BY <3>1, <3>2, SumsGrow
    <3>4. QED
      BY <3>1, <3>3
  <2>3. QED
    BY <2>1, <2>2 DEF Reading
<1>4. gathering' = "reading" /\ bytes' = 0 /\ inJar' = inJar
  BY DEF Open
<1>5. QED
  BY <1>1, <1>2, <1>3, <1>4 DEF GatherInv

(* A member read adds what its bytes hold, and costs its size: with those  *)
(* read before and those left it is one of the sum that was checked.       *)
LEMMA ReadMemberKeeps == GatherAssumption /\ GatherInv /\ ReadMember => GatherInv'
<1> SUFFICES ASSUME GatherAssumption, GatherInv, ReadMember PROVE GatherInv'
  OBVIOUS
<1> DEFINE k == Min(unread)
           N == Len(opened)
           sum == Sums(Sizes(opened))
<1>1. Walk /\ Reading /\ Founded /\ bytes \in Nat /\ ZipFile(opened) /\ MaxScan \in Nat
  BY DEF GatherInv, ReadMember, Walk, GatherAssumption, Positive, Inflatable
<1>2. N \in Nat /\ unread \subseteq 1..N /\ unread # {} /\ Selected(opened) \subseteq 1..N
  BY <1>1, ZipShape DEF Reading, ReadMember
<1>3. k \in unread /\ \A l \in unread : k <= l
  <2>1. unread \in SUBSET (0..N)
    BY <1>2
  <2> HIDE DEF N
  <2>2. QED
    BY <1>2, <2>1, Extremes
<1>4. k \in Selected(opened) /\ k \in 1..N
  BY <1>1, <1>2, <1>3 DEF Reading
<1>5. /\ found' = found \union Findings(opened[k].data) /\ bytes' = bytes + opened[k].size /\ unread' = unread \ {k}
      /\ archive' = archive /\ opened' = opened /\ inJar' = inJar /\ gathering' = gathering /\ gathering = "reading"
  BY DEF ReadMember, New
<1>6. /\ sum \in [0..N -> Nat] /\ sum[k] = sum[k - 1] + opened[k].size
      /\ \A i, j \in 0..N : i <= j => sum[i] <= sum[j]
      /\ sum[N] <= MaxScan /\ opened[k].size \in Nat
  <2>1. Sizes(opened) \in [1..N -> Nat] /\ Len(Sizes(opened)) = N /\ Sizes(opened)[k] = opened[k].size /\ opened[k].size \in Nat
    BY <1>1, <1>4, ZipShape
  <2>2. /\ sum \in [0..N -> Nat] /\ sum[k] = sum[k - 1] + Sizes(opened)[k]
        /\ \A i, j \in 0..N : i <= j => sum[i] <= sum[j]
    <3> HIDE DEF N, k
    <3>1. QED
      BY <1>2, <1>4, <2>1, SumsGrow
  <2>3. sum[N] <= MaxScan
    BY <1>1, <2>1 DEF Reading, Affordable, Total
  <2>4. QED
    BY <2>1, <2>2, <2>3
<1> HIDE DEF k, N, sum
<1>7. bytes' \in Nat /\ bytes' <= sum[k]
  <2>1. bytes <= sum[k - 1]
    BY <1>1, <1>3 DEF Reading, sum
  <2>2. k - 1 \in 0..N
    BY <1>2, <1>4
  <2>3. sum[k - 1] \in Nat /\ sum[k] \in Nat
    BY <1>2, <1>4, <1>6, <2>2
  <2>4. \A x, y, size \in Nat : x <= y => x + size <= y + size /\ x + size \in Nat
    OBVIOUS
  <2>5. bytes + opened[k].size <= sum[k - 1] + opened[k].size /\ bytes + opened[k].size \in Nat
    BY <1>1, <1>6, <2>1, <2>3, <2>4
  <2>6. QED
    BY <1>5, <1>6, <2>5
<1>8. \A l \in k..N : bytes' <= sum[l]
  <2>1. SUFFICES ASSUME NEW l \in k..N PROVE bytes' <= sum[l]
    OBVIOUS
  <2>2. k \in 0..N /\ l \in 0..N /\ k <= l
    BY <1>2, <1>4
  <2>3. sum[k] <= sum[l] /\ sum[k] \in Nat /\ sum[l] \in Nat
    BY <1>6, <2>2
  <2>4. QED
    BY <1>7, <2>3
<1>9. bytes' <= MaxScan
  <2>1. N \in k..N /\ N \in 0..N
    BY <1>2, <1>4
  <2>2. bytes' <= sum[N] /\ sum[N] \in Nat
    BY <1>6, <1>8, <2>1
  <2>3. QED
    BY <1>1, <1>6, <1>7, <2>2
<1>10. Walk'
  <2>1. Covered(archive.entries) => Covered(archive.entries)'
    BY <1>5 DEF Covered
  <2>2. QED
    BY <1>1, <1>5, <2>1 DEF Walk
<1>11. Reading'
  <2>1. unread' \subseteq Selected(opened') /\ Inventoried(opened') /\ Affordable(opened')
    BY <1>1, <1>5 DEF Reading
  <2>2. \A l \in unread' : k < l
    BY <1>2, <1>3, <1>4, <1>5
  <2>3. \A j \in unread' : \A l \in Selected(opened') : j < l => l \in unread'
    <3>1. SUFFICES ASSUME NEW j \in unread', NEW l \in Selected(opened), j < l PROVE l \in unread /\ l # k
      BY <1>5
    <3>2. l \in unread
      BY <1>1, <1>5, <3>1 DEF Reading
    <3>3. k < j /\ j \in Int /\ k \in Int
      BY <1>2, <1>4, <1>5, <2>2, <3>1
    <3>4. QED
      BY <3>1, <3>2, <3>3
  <2>4. \A l \in Selected(opened') \ unread' : Findings(opened'[l].data) \subseteq found'
    BY <1>1, <1>5 DEF Reading
  <2>5. \A l \in unread' : bytes' <= Sums(Sizes(opened'))[l - 1]
    <3>1. SUFFICES ASSUME NEW l \in unread' PROVE bytes' <= sum[l - 1]
      BY <1>5 DEF sum
    <3>2. k < l /\ l \in 1..N
      BY <1>2, <1>5, <2>2, <3>1
    <3>3. l - 1 \in k..N
      BY <1>2, <1>4, <3>2
    <3>4. QED
      BY <1>8, <3>3
  <2>6. QED
    BY <2>1, <2>3, <2>4, <2>5 DEF Reading
<1>12. Founded'
  <2>1. AllBlobs' = AllBlobs
    BY <1>5 DEF AllBlobs
  <2>2. opened[k].data \in Blobs /\ opened[k].data \in AllBlobs
    BY <1>1, <1>2, <1>4, ZipShape, OpenedBlobs
  <2>3. \A d \in Findings(opened[k].data) : \E b \in Inside[MaxGzipDepth][opened[k].data] : Piece(d, b)
    BY <2>2, FindingsOf
  <2>4. \A d \in found' : \E data \in AllBlobs : \E b \in Inside[MaxGzipDepth][data] : Piece(d, b)
    BY <1>1, <1>5, <2>2, <2>3 DEF Founded
  <2>5. QED
    BY <2>1, <2>4 DEF Founded
<1>13. QED
  BY <1>5, <1>7, <1>9, <1>10, <1>11, <1>12 DEF GatherInv

(* The jar of an AAR is opened after all of the AAR has been read. *)
LEMMA OpenJarKeeps == GatherAssumption /\ GatherInv /\ OpenJar => GatherInv'
<1> SUFFICES ASSUME GatherAssumption, GatherInv, OpenJar PROVE GatherInv'
  OBVIOUS
<1>1. Walk /\ Reading /\ Founded /\ bytes \in Nat /\ bytes <= MaxScan /\ unread = {}
  BY DEF GatherInv, OpenJar
<1>2. archive' = archive /\ found' = found /\ bytes' = bytes /\ inJar' = TRUE
  BY DEF OpenJar
<1>3. Founded'
  BY <1>1, <1>2 DEF Founded, AllBlobs
<1>4. opened = archive.entries /\ archive.aar /\ JarsOf(archive.entries) # {} /\ Archive(archive)
  BY <1>1 DEF OpenJar, MoreToOpen, Walk
<1>5. CASE gathering' = "refused"
  BY <1>1, <1>2, <1>3, <1>5 DEF GatherInv
<1>6. CASE gathering' # "refused"
  <2> DEFINE jar == CHOOSE e \in JarsOf(opened) : TRUE
  <2>1. gathering' = "going" /\ opened' = jar.inside
    BY <1>6 DEF OpenJar
  <2>2. jar \in JarsOf(archive.entries)
    BY <1>4
  <2> HIDE DEF jar
  <2>3. \A e \in JarsOf(archive.entries) : e = jar
    BY <1>1, <1>4, <2>2, OneJar DEF Walk, Reading
  <2>4. ZipFile(jar.inside)
    BY <1>4, <2>2 DEF Archive, JarsOf
  <2>5. Covered(archive.entries)'
    BY <1>1, <1>2, <1>4 DEF Reading, Covered
  <2>6. Walk'
    BY <1>2, <1>4, <2>1, <2>3, <2>4, <2>5 DEF Walk
  <2>7. QED
    BY <1>1, <1>2, <1>3, <2>1, <2>6 DEF GatherInv
<1>7. QED
  BY <1>5, <1>6

(* The invariant holds throughout. *)
LEMMA GatherInvariant ==
  ASSUME NEW CONSTANT archives, \A a \in archives : Archive(a)
  PROVE  GatherSpec(archives) => []GatherInv
<1>1. GatherInit(archives) => GatherInv
  BY GatherAssumption, GatherStarts
<1>2. ASSUME GatherInv, [GatherNext]_gatherVars PROVE GatherInv'
  <2>1. CASE RefuseArchive
    BY <1>2, <2>1 DEF GatherInv, RefuseArchive, Founded, AllBlobs
  <2>2. CASE EndGather
    <3>1. Reading /\ Walk /\ ~MoreToOpen /\ unread = {}
      BY <1>2, <2>2 DEF GatherInv, EndGather
    <3>2. Reading' /\ Walk' /\ ~MoreToOpen' /\ unread' = {}
      BY <2>2, <3>1 DEF EndGather, Reading, Walk, Covered, MoreToOpen
    <3>3. QED
      BY <1>2, <2>2, <3>2 DEF GatherInv, EndGather, Founded, AllBlobs
  <2>3. CASE UNCHANGED gatherVars
    BY <1>2, <2>3 DEF GatherInv, gatherVars, Walk, Reading, Covered, Founded, AllBlobs, MoreToOpen
  <2>4. QED
    BY <1>2, <2>1, <2>2, <2>3, GatherAssumption, OpenKeeps, ReadMemberKeeps, OpenJarKeeps DEF GatherNext
<1>3. QED
  BY <1>1, <1>2, PTL DEF GatherSpec

(* Whatever archives there are, of any entries, with any bytes and gzip    *)
(* members in gzip members, a search that ends has found every descriptor  *)
(* in bytes whose limits it did not reach, has found nothing that is not   *)
(* there, and has not read more than it may (cli.py _find).                *)
THEOREM NothingIsOverlooked ==
  ASSUME NEW CONSTANT archives, \A a \in archives : Archive(a)
  PROVE  GatherSpec(archives) => []NothingOverlooked
<1>1. ASSUME GatherInv PROVE NothingOverlooked
  <2>1. \A d \in found :
          \E data \in AllBlobs : \E b \in Inside[MaxGzipDepth][data] :
             \/ d \in Written(b)
             \/ Len(d) = MaxBoundaries /\ \E w \in Written(b) : IsPrefix(d, w)
    BY <1>1 DEF GatherInv, Founded, Piece
  <2>2. ASSUME gathering = "done", NEW data \in AllBlobs, WithinLimits(data)
        PROVE  UNION {Written(b) : b \in Inside[MaxGzipDepth][data]} \subseteq found
    <3>1. Walk /\ Reading /\ unread = {} /\ ~MoreToOpen /\ Archive(archive) /\ ZipFile(archive.entries) /\ ZipFile(opened)
      BY <1>1, <2>2 DEF GatherInv, Walk, Archive
    <3>2. Covered(opened) /\ Covered(archive.entries)
      BY <3>1 DEF Reading, Walk, Covered
    <3>3. data \in BlobsOf(archive.entries) \/ data \in BlobsOf(opened)
      <4>1. SUFFICES ASSUME data \notin BlobsOf(archive.entries) PROVE data \in BlobsOf(opened)
        OBVIOUS
      <4>2. archive.aar /\ \E e \in JarsOf(archive.entries) : data \in BlobsOf(e.inside)
        BY <2>2, <4>1 DEF AllBlobs
      <4>3. inJar
        BY <3>1, <4>2 DEF Walk, MoreToOpen
      <4>4. QED
        BY <3>1, <4>2, <4>3 DEF Walk
    <3>4. data \in Blobs /\ Findings(data) \subseteq found
      BY <3>1, <3>2, <3>3, ZipShape DEF Covered
    <3>5. QED
      BY <2>2, <3>4, GatherAssumption, FindingsOf
  <2>3. QED
    BY <1>1, <2>1, <2>2 DEF NothingOverlooked, GatherInv
<1>2. QED
  BY <1>1, GatherInvariant, PTL

-----------------------------------------------------------------------------
(* LiteScan.                                                               *)

\* What registers may hold.
RegisterFile(f) ==
  /\ f = [r \in Registers |-> f[r]]
  /\ \A r \in Registers : /\ f[r].kind = "array" => f[r] \in [kind : {"array"}, value : Nat]
                          /\ f[r].kind = "int" => f[r].value \in Int

\* What the scan knows at a place.
Snapshot(known, arrs) == [known |-> known, arrays |-> arrs]
Here == Snapshot(Known, arrays)

\* Everything known at s2 is known at s, of the arrays too.
Weaker(s2, s) ==
  \A r \in Registers :
    s2.known[r] # Unknown =>
      /\ s2.known[r] = s.known[r]
      /\ s.known[r].kind = "array" /\ s.known[r].value \in DOMAIN s.arrays =>
           /\ s.known[r].value \in DOMAIN s2.arrays
           /\ s2.arrays[s.known[r].value] = s.arrays[s.known[r].value]

\* No branch leads to k: the instruction before it has been executed last.
Unbranched(k) == k > 1 /\ \A j \in 1..(k - 1) : k \notin Targets(j)

Puts(i, s, v) == [s.known EXCEPT ![i.dst] = v]

\* What the scan makes of the registers and arrays at the instruction at k,
\* where it loses nothing.
Carries(i, s, s2) ==
  /\ i.op \notin {"new", "filled", "put"} => s2.arrays = s.arrays
  /\ i.op = "const" => s2.known = Puts(i, s, i.value)
  /\ i.op = "other" => s2.known = s.known /\ s.known[i.dst] = Unknown
  /\ i.op \in {"if", "switch", "sparse", "invoke", "virtual", "filled", "put"} => s2.known = s.known
  /\ i.op = "move" => s2.known = Puts(i, s, s.known[i.src[1]])
  /\ i.op = "call" => s2.known = Empty

Creates(k, i, s, s2) ==
  LET size == s.known[i.src[1]] IN
  /\ s2.known = Puts(i, s, [kind |-> "array", value |-> k])
  /\ \E array : /\ s2.arrays = With(s.arrays, k, array)
                /\ ~array.heuristic => /\ IsInt(size) /\ size.value >= 0 /\ array.size = size.value
                                       /\ array.values = << >>

Fills(k, i, s, s2) ==
  \E array : /\ s2.arrays = With(s.arrays, k, array)
            /\ array.size = Len(i.src)
            /\ \A n \in DOMAIN array.values :
                 /\ n \in 0..(Len(i.src) - 1)
                 /\ IsObject(s.known[i.src[n + 1]]) /\ array.values[n] = s.known[i.src[n + 1]]

Stores(i, s, s2) ==
  LET value == s.known[i.src[1]]
      array == s.known[i.src[2]]
      index == s.known[i.src[3]]
  IN
  /\ array.kind = "array" /\ IsObject(value)
  /\ Fits(s.arrays[array.value], index) \/ Free(s.arrays[array.value]) # {}
  /\ s2.arrays = [s.arrays EXCEPT ![array.value] = Placed(s.arrays[array.value], index, value)]

Flows(k, s, s2) ==
  /\ Carries(program[k], s, s2)
  /\ program[k].op = "result" =>
       \E v : s2.known = Puts(program[k], s, v) /\ (v # Unknown => Unbranched(k) /\ v = Given(k - 1))
  /\ program[k].op = "new" => Creates(k, program[k], s, s2)
  /\ program[k].op = "filled" => Fills(k, program[k], s, s2)
  /\ program[k].op = "put" => Stores(program[k], s, s2)

\* What is reported of a call, from what is known there.
Found(f, s) ==
  LET i == program[f.at]
      ref == s.known[i.src[2]]
      array == s.arrays[ref.value]
  IN /\ i.op = "call"
     /\ f.info = s.known[i.src[1]] /\ f.info # Unknown
     /\ f.objects # <<>> =>
          /\ ref # Unknown /\ ref.kind = "array" /\ ~array.heuristic
          /\ array.size >= 0 => /\ f.objects = [n \in 1..array.size |-> array.values[n - 1]]
                                /\ \A n \in 0..(array.size - 1) : n \in DOMAIN array.values

Falls(k) == program[k].op \notin {"return", "goto"}

\* The scan so far: t is what was known at each instruction.
ScanShapes(t) ==
  /\ at \in 1..(Len(program) + 1)
  /\ RegisterFile(registers)
  /\ \A to \in DOMAIN branches : to \in Nat /\ RegisterFile(branches[to])
  /\ DOMAIN arrays \subseteq 1..(at - 1)
  /\ \A k \in 1..(at - 1) : RegisterFile(t[k].known) /\ DOMAIN t[k].arrays \subseteq 1..(k - 1)

\* From every instruction to the next one, and to the targets of a branch.
Traced(t) ==
  /\ \A k \in 1..(at - 1) : \A next :
       next = (IF k + 1 < at THEN t[k + 1] ELSE Snapshot(registers, arrays)) /\ Falls(k) => Flows(k, t[k], next)
  /\ \A k \in 1..(at - 1) : \A to \in Targets(k) :
       /\ to > k
       /\ to < at => Weaker(t[to], t[k])
       /\ to >= at => to \in DOMAIN branches /\ Weaker(Snapshot(branches[to], arrays), t[k])

ScanInv(t) ==
  /\ ScanShapes(t)
  /\ Traced(t)
  /\ at = 1 => registers = Empty /\ branches = << >>
  /\ at > 1 => t[1].known = Empty
  /\ \A f \in findings : f.at \in 1..(at - 1) /\ Found(f, t[f.at])

\* The method's own state agrees with what is known.
Holds(array, contents) ==
  ~array.heuristic =>
    /\ \E S : contents \in Seq(S)
    /\ Len(contents) = array.size
    /\ \A n \in DOMAIN array.values : n \in 0..(array.size - 1) /\ contents[n + 1] = array.values[n]

Agrees(v, w, arrs, hp) ==
  v # Unknown =>
    /\ v = w
    /\ v.kind = "array" => v.value \in DOMAIN arrs /\ v.value \in DOMAIN hp /\ Holds(arrs[v.value], hp[v.value])

AgreesAt(s, last) ==
  /\ \A r \in Registers : Agrees(s.known[r], held[r], s.arrays, heap)
  /\ last => Agrees(Given(pc - 1), result, s.arrays, heap)

RunInv(t) == pc \in DOMAIN program => AgreesAt(t[pc], Unbranched(pc))

LiteInv ==
  /\ Method(program) /\ pc \in Nat
  /\ held = [r \in Registers |-> held[r]]
  /\ pc = 0 => held = Empty
  /\ lost = {} => \E t : ScanInv(t) /\ (pc > 0 => at = Len(program) + 1 /\ RunInv(t))

-----------------------------------------------------------------------------
\* One step of the scan that loses nothing.
Advances ==
  /\ at \in DOMAIN program /\ at' = at + 1 /\ program' = program
  /\ RegisterFile(registers')
  /\ \A to \in DOMAIN branches' : to \in Nat /\ RegisterFile(branches'[to])
  /\ DOMAIN arrays' \subseteq 1..at
  /\ Falls(at) => Flows(at, Here, Snapshot(registers', arrays'))
  /\ \A to \in DOMAIN branches : to > at =>
       to \in DOMAIN branches' /\ Weaker(Snapshot(branches'[to], arrays'), Snapshot(branches[to], arrays))
  /\ \A to \in Targets(at) :
       to > at /\ to \in DOMAIN branches' /\ Weaker(Snapshot(branches'[to], arrays'), Here)
  /\ \A f \in findings' : f \in findings \/ (f.at = at /\ Found(f, Here))
  /\ FallsInto(at) => Known = registers

(* What is known less is known less still further on. *)
LEMMA WeakerStill ==
  ASSUME NEW s, NEW s2, NEW s3, Weaker(s2, s), Weaker(s3, s2) PROVE Weaker(s3, s)
BY DEF Weaker

(* The relations between places depend on nothing but the method. *)
LEMMA SameMethod ==
  ASSUME program' = program
  PROVE  /\ \A k, s, s2 : Flows(k, s, s2) <=> Flows(k, s, s2)'
         /\ \A f, s : Found(f, s) <=> Found(f, s)'
         /\ \A k : (Falls(k) <=> Falls(k)') /\ Targets(k)' = Targets(k) /\ Given(k)' = Given(k)
<1>1. \A k : (Falls(k) <=> Falls(k)') /\ Targets(k)' = Targets(k) /\ Given(k)' = Given(k)
  BY DEF Falls, Targets, Given
<1>2. \A f, s : Found(f, s) <=> Found(f, s)'
  BY DEF Found
<1>3. \A k : Unbranched(k) <=> Unbranched(k)'
  BY <1>1 DEF Unbranched
<1>4. ASSUME NEW k, NEW s, NEW s2 PROVE Flows(k, s, s2) <=> Flows(k, s, s2)'
  BY <1>1, <1>3 DEF Flows
<1>5. QED
  BY <1>1, <1>2, <1>4

(* A method is a sequence, and branches within it. *)
LEMMA MethodShape ==
  ASSUME Method(program)
  PROVE  /\ Len(program) \in Nat /\ DOMAIN program = 1..Len(program)
         /\ \A k \in DOMAIN program : Targets(k) \subseteq DOMAIN program /\ Targets(k) \subseteq Nat
<1>1. program \in Seq(ToSet(program))
  BY DEF Method
<1>2. Len(program) \in Nat /\ DOMAIN program = 1..Len(program)
  BY <1>1
<1>3. \A k \in DOMAIN program : ToSet(program[k].to) \subseteq DOMAIN program
  BY DEF Method
<1>4. \A k \in DOMAIN program : Targets(k) \subseteq DOMAIN program
  BY <1>3 DEF Targets
<1>5. QED
  BY <1>2, <1>4

(* What is known does not change with the method's run. *)
LEMMA SameScan ==
  ASSUME UNCHANGED <<program, at, registers, arrays, branches, findings>>, NEW t, ScanInv(t)
  PROVE  ScanInv(t)'
<1>1. ScanShapes(t)'
  BY DEF ScanInv, ScanShapes, RegisterFile
<1>2. \A k, s, s2 : (Flows(k, s, s2) <=> Flows(k, s, s2)') /\ (Weaker(s2, s) <=> Weaker(s2, s)')
  BY SameMethod DEF Weaker
<1>3. \A k : (Falls(k) <=> Falls(k)') /\ Targets(k)' = Targets(k)
  BY SameMethod
<1>4. Traced(t)'
  <2>1. \A k \in 1..(at' - 1) : \A next :
          next = (IF k + 1 < at' THEN t[k + 1] ELSE Snapshot(registers', arrays')) /\ Falls(k)' => Flows(k, t[k], next)'
    BY <1>2, <1>3 DEF ScanInv, Traced
  <2>2. \A k \in 1..(at' - 1) : \A to \in Targets(k)' :
          /\ to > k
          /\ to < at' => Weaker(t[to], t[k])'
          /\ to >= at' => to \in DOMAIN branches' /\ Weaker(Snapshot(branches'[to], arrays'), t[k])
    BY <1>2, <1>3 DEF ScanInv, Traced
  <2>3. QED
    BY <2>1, <2>2 DEF Traced, Snapshot, Weaker
<1>5. \A f \in findings' : f.at \in 1..(at' - 1) /\ Found(f, t[f.at])'
  BY SameMethod DEF ScanInv
<1>6. QED
  BY <1>1, <1>4, <1>5 DEF ScanInv, Empty

(* A step that loses nothing goes on with the trace. *)
LEMMA TraceGoesOn ==
  ASSUME NEW t, ScanInv(t), Advances, Method(program),
         NEW u, \A k \in 1..(at - 1) : u[k] = t[k], u[at] = Here
  PROVE  ScanInv(u)'
<1>1. /\ at \in Nat /\ at >= 1 /\ at <= Len(program) /\ Len(program) \in Nat /\ at' = at + 1 /\ program' = program
  BY DEF ScanInv, ScanShapes, Advances, Method
<1>2. (\A k \in 1..(at - 1) : u[k] = t[k]) /\ u[at] = Here
  OBVIOUS
<1>3. RegisterFile(Known)
  BY DEF Known, ScanInv, ScanShapes
<1>4. ScanShapes(u)'
  <2>1. \A k \in 1..at : RegisterFile(u[k].known) /\ DOMAIN u[k].arrays \subseteq 1..(k - 1)
    BY <1>1, <1>2, <1>3 DEF ScanInv, ScanShapes, Here, Snapshot
  <2>2. at' - 1 = at
    BY <1>1
  <2>3. at' \in 1..(Len(program') + 1) /\ DOMAIN arrays' \subseteq 1..(at' - 1)
    BY <1>1 DEF Advances
  <2>4. QED
    BY <2>1, <2>2, <2>3 DEF Advances, ScanShapes, RegisterFile
<1>5. ASSUME NEW k \in 1..at, Falls(k),
             NEW next, next = IF k + 1 < at' THEN u[k + 1] ELSE Snapshot(registers', arrays')
      PROVE  Flows(k, u[k], next)
  <2>1. CASE k + 1 < at
    <3>1. u[k] = t[k] /\ next = t[k + 1] /\ k \in 1..(at - 1)
      BY <1>1, <1>2, <1>5, <2>1
    <3>2. QED
      BY <1>5, <2>1, <3>1 DEF ScanInv, Traced
  <2>2. CASE k + 1 = at
    <3>1. k = at - 1 /\ k >= 1 /\ k \in 1..(at - 1)
      BY <1>1, <2>2
    <3>2. FallsInto(at)
      BY <1>1, <1>5, <3>1 DEF FallsInto, Falls
    <3>3. Here = Snapshot(registers, arrays)
      BY <3>2 DEF Advances, Here
    <3>4. u[k] = t[k] /\ next = Snapshot(registers, arrays)
      BY <1>1, <1>2, <1>5, <2>2, <3>1, <3>3
    <3>5. ~(k + 1 < at)
      BY <1>1, <2>2
    <3>6. QED
      BY <1>5, <3>1, <3>4, <3>5 DEF ScanInv, Traced
  <2>3. CASE k = at
    BY <1>1, <1>2, <1>5, <2>3 DEF Advances
  <2>4. QED
    BY <1>1, <1>5, <2>1, <2>2, <2>3
<1>6. ASSUME NEW k \in 1..at, NEW to \in Targets(k)
      PROVE  /\ to > k
             /\ to < at' => Weaker(u[to], u[k])
             /\ to >= at' => to \in DOMAIN branches' /\ Weaker(Snapshot(branches'[to], arrays'), u[k])
  <2>1. to \in Nat
    BY <1>1, MethodShape
  <2>2. CASE k < at
    <3>1. /\ u[k] = t[k] /\ to > k
          /\ to < at => Weaker(t[to], t[k])
          /\ to >= at => to \in DOMAIN branches /\ Weaker(Snapshot(branches[to], arrays), t[k])
      BY <1>1, <1>2, <2>2 DEF ScanInv, Traced
    <3>2. CASE to < at
      BY <1>1, <1>2, <2>1, <2>2, <3>1, <3>2
    <3>3. CASE to = at
      <4>1. u[to] = Snapshot(branches[to], arrays)
        BY <1>1, <1>2, <3>1, <3>3 DEF Here, Known
      <4>2. QED
        BY <1>1, <3>1, <3>3, <4>1
    <3>4. CASE to > at
      <4>1. to \in DOMAIN branches' /\ Weaker(Snapshot(branches'[to], arrays'), Snapshot(branches[to], arrays))
        BY <1>1, <2>1, <3>1, <3>4 DEF Advances
      <4>2. Weaker(Snapshot(branches'[to], arrays'), t[k])
        BY <1>1, <2>1, <3>1, <3>4, <4>1, WeakerStill
      <4>3. QED
        BY <1>1, <2>1, <3>1, <3>4, <4>1, <4>2
    <3>5. QED
      BY <1>1, <2>1, <3>2, <3>3, <3>4
  <2>3. CASE k = at
    <3>1. to > at /\ to \in DOMAIN branches' /\ Weaker(Snapshot(branches'[to], arrays'), Here)
      BY <2>3 DEF Advances
    <3>2. QED
      BY <1>1, <1>2, <2>1, <2>3, <3>1
  <2>4. QED
    BY <1>1, <2>2, <2>3
<1>7. Traced(u)'
  <2>1. at' - 1 = at
    BY <1>1
  <2>2. \A k, s, s2 : (Flows(k, s, s2) <=> Flows(k, s, s2)') /\ (Weaker(s2, s) <=> Weaker(s2, s)')
    BY <1>1, SameMethod DEF Weaker
  <2>3. \A k : (Falls(k) <=> Falls(k)') /\ Targets(k)' = Targets(k)
    BY <1>1, SameMethod
  <2>4. \A k \in 1..(at' - 1) : \A next :
          next = (IF k + 1 < at' THEN u[k + 1] ELSE Snapshot(registers', arrays')) /\ Falls(k)' => Flows(k, u[k], next)'
    BY <1>5, <2>1, <2>2, <2>3
  <2>5. \A k \in 1..(at' - 1) : \A to \in Targets(k)' :
          /\ to > k
          /\ to < at' => Weaker(u[to], u[k])'
          /\ to >= at' => to \in DOMAIN branches' /\ Weaker(Snapshot(branches'[to], arrays'), u[k])
    BY <1>6, <2>1, <2>2, <2>3
  <2>6. QED
    BY <2>4, <2>5 DEF Traced, Snapshot, Weaker
<1>8. u[1].known = Empty
  <2>1. CASE at = 1
    BY <1>2, <2>1 DEF ScanInv, Here, Snapshot, Known
  <2>2. CASE at > 1
    BY <1>1, <1>2, <2>2 DEF ScanInv
  <2>3. QED
    BY <1>1, <2>1, <2>2
<1>9. ASSUME NEW f \in findings' PROVE f.at \in 1..at /\ Found(f, u[f.at])
  BY <1>1, <1>2 DEF Advances, ScanInv
<1>10. \A f \in findings' : f.at \in 1..(at' - 1) /\ Found(f, u[f.at])'
  BY <1>1, <1>9, SameMethod
<1>11. QED
  BY <1>1, <1>4, <1>7, <1>8, <1>10 DEF ScanInv, Empty

(* One place of a map is set, the others stay. *)
LEMMA Overrides ==
  ASSUME NEW f, NEW k, NEW v
  PROVE  /\ DOMAIN With(f, k, v) = DOMAIN f \union {k}
         /\ With(f, k, v)[k] = v
         /\ \A l \in DOMAIN f : l # k => With(f, k, v)[l] = f[l]
BY DEF With

(* An array is referred to by the place that made it. *)
LEMMA Writes ==
  ASSUME NEW f, RegisterFile(f), NEW r \in Registers, NEW v,
         v.kind = "array" => v \in [kind : {"array"}, value : Nat], v.kind = "int" => v.value \in Int
  PROVE  RegisterFile([f EXCEPT ![r] = v])
<1> DEFINE g == [f EXCEPT ![r] = v]
<1>1. g = [q \in Registers |-> g[q]]
  BY DEF RegisterFile
<1>2. g[r] = v /\ \A q \in Registers : q # r => g[q] = f[q]
  BY DEF RegisterFile
<1> HIDE DEF g
<1>3. RegisterFile(g)
  BY <1>1, <1>2 DEF RegisterFile
<1>4. QED
  BY <1>3 DEF g

(* What holds where the scan is at an instruction it loses nothing by. *)
LEMMA AtInstruction ==
  ASSUME NEW t, ScanShapes(t), Method(program), at <= Len(program), FellInto(at) = {}
  PROVE  /\ at \in DOMAIN program /\ at \in Nat
         /\ RegisterFile(Known)
         /\ FallsInto(at) => Known = registers
<1>1. at \in DOMAIN program /\ at \in Nat
  BY DEF ScanShapes, Method
<1>2. RegisterFile(Known)
  BY DEF ScanShapes, Known
<1>3. FallsInto(at) => Known = registers
  BY DEF FellInto, Known
<1>4. QED
  BY <1>1, <1>2, <1>3

(* A step that touches neither arrays nor branches keeps what branches to  *)
(* come know.                                                              *)
LEMMA BranchesKept ==
  ASSUME UNCHANGED <<branches, arrays>>
  PROVE  \A to \in DOMAIN branches :
           to \in DOMAIN branches' /\ Weaker(Snapshot(branches'[to], arrays'), Snapshot(branches[to], arrays))
BY DEF Weaker, Snapshot

(* So does one that makes an array. *)
LEMMA BranchesKeptBy ==
  ASSUME NEW t, ScanShapes(t), NEW array, arrays' = With(arrays, at, array), branches' = branches
  PROVE  /\ \A to \in DOMAIN branches :
              to \in DOMAIN branches' /\ Weaker(Snapshot(branches'[to], arrays'), Snapshot(branches[to], arrays))
         /\ DOMAIN arrays' \subseteq 1..at
<1>1. at \in Nat /\ at >= 1 /\ DOMAIN arrays \subseteq 1..(at - 1)
  BY DEF ScanShapes, Method
<1>2. at \notin DOMAIN arrays
  BY <1>1
<1>3. DOMAIN arrays' = DOMAIN arrays \union {at} /\ \A k \in DOMAIN arrays : arrays'[k] = arrays[k]
  BY <1>2, Overrides
<1>4. DOMAIN arrays' \subseteq 1..at
  BY <1>1, <1>3
<1>5. QED
  BY <1>3, <1>4 DEF Weaker, Snapshot

(* const and its like, and what no case is for. *)
LEMMA ConstAdvances == ASSUME NEW t, ScanShapes(t), Method(program), Const, lost' = {} PROVE Advances
<1>1. /\ Instruction = program[at] /\ Instruction.op \in {"const", "other", "return", "virtual"} /\ at <= Len(program)
      /\ registers' = IF Instruction.op = "const" THEN [Known EXCEPT ![Instruction.dst] = Instruction.value] ELSE Known
      /\ at' = at + 1 /\ UNCHANGED <<program, arrays, branches, findings>>
  BY DEF Const, Scanning, Step, Instruction
<1>2. FellInto(at) = {} /\ (Instruction.op = "other" => Known[Instruction.dst] = Unknown)
  BY DEF Const
<1>3. /\ at \in DOMAIN program /\ at \in Nat /\ RegisterFile(Known)
      /\ FallsInto(at) => Known = registers
  BY <1>1, <1>2, AtInstruction
<1>4. /\ Instruction.op = "const" => Instruction.dst \in Registers
      /\ Instruction.value.kind # "array" /\ (Instruction.value.kind = "int" => Instruction.value.value \in Int)
  BY <1>1, <1>3 DEF Method
<1>5. RegisterFile(registers')
  BY <1>1, <1>3, <1>4, Writes
<1>6. Targets(at) = {}
  BY <1>1 DEF Targets
<1>7. Falls(at) => Flows(at, Here, Snapshot(registers', arrays'))
  BY <1>1, <1>2 DEF Falls, Flows, Carries, Puts, Here, Snapshot
<1>8. QED
  BY <1>1, <1>3, <1>5, <1>6, <1>7, BranchesKept DEF Advances, ScanShapes

(* move-object, and move-result-object where the result is the last one's. *)
LEMMA MoveAdvances == ASSUME NEW t, ScanInv(t), Method(program), Move, lost' = {} PROVE Advances
<1> DEFINE v == IF Instruction.op = "move" THEN Known[Instruction.src[1]] ELSE pendingResult
<1>1. /\ Instruction = program[at] /\ Instruction.op \in {"move", "result"} /\ at <= Len(program)
      /\ registers' = [Known EXCEPT ![Instruction.dst] = v]
      /\ at' = at + 1 /\ UNCHANGED <<program, arrays, branches, findings>>
  BY DEF Move, Scanning, Step, Instruction
<1>2. /\ FellInto(at) = {}
      /\ Instruction.op = "result" /\ pendingResult # Unknown =>
           at \notin DOMAIN branches /\ at # 1 /\ pendingResult = Given(at - 1)
  BY DEF Move
<1>3. /\ at \in DOMAIN program /\ at \in Nat /\ RegisterFile(Known)
      /\ FallsInto(at) => Known = registers
  BY <1>1, <1>2, AtInstruction DEF ScanInv
<1>4. Instruction.dst \in Registers /\ (Instruction.op = "move" => Instruction.src[1] \in Registers)
  <2>1. Instruction.op = "move" => Instruction.src \in Seq(Registers) /\ Len(Instruction.src) >= 1
    BY <1>1, <1>3 DEF Method
  <2>2. Instruction.op = "move" => Instruction.src[1] \in Registers
    BY <2>1
  <2>3. QED
    BY <1>1, <1>3, <2>2 DEF Method
<1>5. Instruction.op = "result" /\ pendingResult # Unknown => Unbranched(at)
  <2>1. SUFFICES ASSUME at \notin DOMAIN branches, at # 1, NEW j \in 1..(at - 1) PROVE at \notin Targets(j)
    BY <1>2, <1>3 DEF Unbranched, ScanInv, ScanShapes
  <2>2. QED
    BY <1>3, <2>1 DEF ScanInv, Traced
<1>6. /\ v.kind = "array" => v \in [kind : {"array"}, value : Nat]
      /\ v.kind = "int" => v.value \in Int
  <2>1. CASE Instruction.op = "move"
    BY <1>3, <1>4, <2>1 DEF RegisterFile
  <2>2. CASE pendingResult = Unknown /\ Instruction.op = "result"
    BY <2>2 DEF Unknown
  <2>3. CASE pendingResult = Given(at - 1) /\ Instruction.op = "result"
    <3>1. at - 1 \in Nat
      BY <1>3 DEF ScanInv, ScanShapes
    <3>2. QED
      BY <2>3, <3>1 DEF Given, Unknown
  <2>4. QED
    BY <1>1, <1>2, <2>1, <2>2, <2>3
<1> HIDE DEF v
<1>7. RegisterFile(registers')
  BY <1>1, <1>3, <1>4, <1>6, Writes
<1>8. Targets(at) = {}
  BY <1>1 DEF Targets
<1>9. Flows(at, Here, Snapshot(registers', arrays'))
  <2>1. CASE Instruction.op = "move"
    BY <1>1, <2>1 DEF Flows, Carries, Puts, Here, Snapshot, v
  <2>2. CASE Instruction.op = "result"
    <3>1. v = pendingResult
      BY <2>2 DEF v
    <3>2. v # Unknown => Unbranched(at) /\ v = Given(at - 1)
      BY <1>2, <1>5, <2>2, <3>1
    <3>3. QED
      BY <1>1, <2>2, <3>2 DEF Flows, Carries, Puts, Here, Snapshot
  <2>3. QED
    BY <1>1, <2>1, <2>2
<1>10. DOMAIN arrays' \subseteq 1..at /\ \A to \in DOMAIN branches' : to \in Nat /\ RegisterFile(branches'[to])
  BY <1>1, <1>3 DEF ScanInv, ScanShapes
<1>11. QED
  BY <1>1, <1>3, <1>7, <1>8, <1>9, <1>10, BranchesKept DEF Advances

(* if and goto: what two branches to one place agree on, both know. *)
LEMMA BranchAdvances == ASSUME NEW t, ScanShapes(t), Method(program), Branch, lost' = {} PROVE Advances
<1> DEFINE to == Instruction.to[1]
<1>1. /\ Instruction = program[at] /\ Instruction.op \in {"if", "goto"} /\ at <= Len(program)
      /\ registers' = Known
      /\ at' = at + 1 /\ UNCHANGED <<program, arrays, findings>>
      /\ branches' = With(branches, to, IF to \in DOMAIN branches THEN Merged(branches[to], Known) ELSE Known)
  BY DEF Branch, Scanning, Step, Instruction
<1>2. /\ FellInto(at) = {} /\ Backwards = {}
      /\ to \in DOMAIN branches => \A r \in Registers : Same(branches[to][r], Known[r]) => branches[to][r] = Known[r]
  BY DEF Branch
<1>3. /\ at \in DOMAIN program /\ at \in Nat /\ RegisterFile(Known)
      /\ FallsInto(at) => Known = registers
  BY <1>1, <1>2, AtInstruction
<1>4. Targets(at) = {to} /\ to \in Nat
  <2>1. Targets(at) = {to}
    BY <1>1, <1>3 DEF Method, Targets
  <2>2. QED
    BY <1>3, <2>1, MethodShape
<1>5. to > at
  BY <1>2, <1>3, <1>4 DEF Backwards
<1> HIDE DEF to
<1>6. /\ DOMAIN branches' = DOMAIN branches \union {to}
      /\ branches'[to] = IF to \in DOMAIN branches THEN Merged(branches[to], Known) ELSE Known
      /\ \A l \in DOMAIN branches : l # to => branches'[l] = branches[l]
  <2> DEFINE known == IF to \in DOMAIN branches THEN Merged(branches[to], Known) ELSE Known
  <2>1. branches' = With(branches, to, known)
    BY <1>1
  <2> HIDE DEF known
  <2>2. /\ DOMAIN branches' = DOMAIN branches \union {to} /\ branches'[to] = known
        /\ \A l \in DOMAIN branches : l # to => branches'[l] = branches[l]
    BY <2>1 DEF With
  <2>3. QED
    BY <2>2 DEF known
<1>7. ASSUME to \in DOMAIN branches
      PROVE  /\ RegisterFile(branches'[to])
             /\ \A r \in Registers : branches'[to][r] # Unknown => branches'[to][r] = branches[to][r] /\ branches'[to][r] = Known[r]
  <2>1. branches'[to] = Merged(branches[to], Known) /\ RegisterFile(branches[to])
    BY <1>6, <1>7 DEF ScanShapes
  <2>2. \A r \in Registers : branches'[to][r] = IF Same(branches[to][r], Known[r]) THEN branches[to][r] ELSE Unknown
    BY <2>1 DEF Merged
  <2>3. branches'[to] = [r \in Registers |-> branches'[to][r]]
    BY <2>1 DEF Merged
  <2>4. RegisterFile(branches'[to])
    BY <2>1, <2>2, <2>3 DEF RegisterFile, Unknown
  <2>5. QED
    BY <1>2, <1>7, <2>2, <2>4
<1>8. \A l \in DOMAIN branches' : l \in Nat /\ RegisterFile(branches'[l])
  BY <1>3, <1>4, <1>6, <1>7 DEF ScanShapes
<1>9. \A l \in DOMAIN branches :
        l \in DOMAIN branches' /\ Weaker(Snapshot(branches'[l], arrays'), Snapshot(branches[l], arrays))
  BY <1>1, <1>6, <1>7 DEF Weaker, Snapshot
<1>10. to \in DOMAIN branches' /\ Weaker(Snapshot(branches'[to], arrays'), Here)
  BY <1>1, <1>6, <1>7 DEF Weaker, Snapshot, Here
<1>11. Falls(at) => Flows(at, Here, Snapshot(registers', arrays'))
  BY <1>1 DEF Falls, Flows, Carries, Here, Snapshot
<1>12. DOMAIN arrays' \subseteq 1..at
  BY <1>1, <1>3 DEF ScanShapes
<1>13. QED
  BY <1>1, <1>3, <1>4, <1>5, <1>8, <1>9, <1>10, <1>11, <1>12 DEF Advances

(* packed-switch: a case that was not branched to before. *)
LEMMA SwitchAdvances == ASSUME NEW t, ScanShapes(t), Method(program), Switch, lost' = {} PROVE Advances
<1> DEFINE cases == IF Instruction.op = "switch" THEN Targets(at) ELSE {}
<1>1. /\ Instruction = program[at] /\ Instruction.op \in {"switch", "sparse"} /\ at <= Len(program)
      /\ registers' = Known
      /\ at' = at + 1 /\ UNCHANGED <<program, arrays, findings>>
      /\ branches' = [l \in cases \union DOMAIN branches |-> IF l \in cases THEN Known ELSE branches[l]]
  BY DEF Switch, Scanning, Step, Instruction
<1>2. /\ FellInto(at) = {} /\ Backwards = {} /\ cases = Targets(at)
      /\ \A l \in cases \intersect DOMAIN branches : branches[l] = Known
  BY DEF Switch
<1>3. /\ at \in DOMAIN program /\ at \in Nat /\ RegisterFile(Known)
      /\ FallsInto(at) => Known = registers
  BY <1>1, <1>2, AtInstruction
<1>4. Targets(at) \subseteq Nat
  BY <1>3, MethodShape
<1>5. \A l \in Targets(at) : l > at
  BY <1>2, <1>3, <1>4 DEF Backwards
<1> HIDE DEF cases
<1>6. /\ DOMAIN branches' = Targets(at) \union DOMAIN branches
      /\ \A l \in Targets(at) : branches'[l] = Known
      /\ \A l \in DOMAIN branches : branches'[l] = branches[l]
  BY <1>1, <1>2
<1>7. \A l \in DOMAIN branches' : l \in Nat /\ RegisterFile(branches'[l])
  BY <1>3, <1>4, <1>6 DEF ScanShapes
<1>8. \A l \in DOMAIN branches :
        l \in DOMAIN branches' /\ Weaker(Snapshot(branches'[l], arrays'), Snapshot(branches[l], arrays))
  BY <1>1, <1>6 DEF Weaker, Snapshot
<1>9. \A l \in Targets(at) : l \in DOMAIN branches' /\ Weaker(Snapshot(branches'[l], arrays'), Here)
  BY <1>1, <1>6 DEF Weaker, Snapshot, Here
<1>10. Flows(at, Here, Snapshot(registers', arrays'))
  BY <1>1 DEF Flows, Carries, Here, Snapshot
<1>11. DOMAIN arrays' \subseteq 1..at
  BY <1>1, <1>3 DEF ScanShapes
<1>12. QED
  BY <1>1, <1>3, <1>5, <1>7, <1>8, <1>9, <1>10, <1>11 DEF Advances

(* new-array *)
LEMMA NewArrayAdvances == ASSUME NEW t, ScanShapes(t), Method(program), NewArray, lost' = {} PROVE Advances
<1> DEFINE size == Known[Instruction.src[1]]
           array == [size |-> IF IsInt(size) /\ size.value >= 0 THEN size.value ELSE -1, values |-> << >>,
                     heuristic |-> ~(IsInt(size) /\ size.value >= 0)]
           ref == [kind |-> "array", value |-> at]
<1>1. /\ Instruction = program[at] /\ Instruction.op = "new" /\ at <= Len(program)
      /\ registers' = [Known EXCEPT ![Instruction.dst] = ref]
      /\ at' = at + 1 /\ UNCHANGED <<program, branches, findings>>
      /\ arrays' = With(arrays, at, array)
      /\ FellInto(at) = {}
  BY DEF NewArray, Scanning, Step, Instruction
<1>2. /\ at \in DOMAIN program /\ at \in Nat /\ RegisterFile(Known)
      /\ FallsInto(at) => Known = registers
  BY <1>1, AtInstruction
<1>3. RegisterFile(registers')
  <2>1. Instruction.dst \in Registers /\ ref \in [kind : {"array"}, value : Nat] /\ ref.kind # "int"
    BY <1>1, <1>2 DEF Method
  <2>2. QED
    BY <1>1, <1>2, <2>1, Writes
<1>4. ~array.heuristic => IsInt(size) /\ size.value >= 0 /\ array.size = size.value /\ array.values = << >>
  OBVIOUS
<1> HIDE DEF array
<1>5. Creates(at, program[at], Here, Snapshot(registers', arrays'))
  BY <1>1, <1>4 DEF Creates, Puts, Here, Snapshot
<1>6. Flows(at, Here, Snapshot(registers', arrays'))
  BY <1>1, <1>5 DEF Flows, Carries
<1>7. Targets(at) = {}
  BY <1>1 DEF Targets
<1>8. \A to \in DOMAIN branches' : to \in Nat /\ RegisterFile(branches'[to])
  BY <1>1 DEF ScanShapes
<1>9. QED
  BY <1>1, <1>2, <1>3, <1>6, <1>7, <1>8, BranchesKeptBy DEF Advances

(* filled-new-array *)
LEMMA FilledArrayAdvances == ASSUME NEW t, ScanShapes(t), Method(program), FilledArray, lost' = {} PROVE Advances
<1> DEFINE src == Instruction.src
           objects == {k \in 0..(Len(src) - 1) : IsObject(Known[src[k + 1]])}
           array == [size |-> Len(src), values |-> [k \in objects |-> Known[src[k + 1]]], heuristic |-> FALSE]
<1>1. /\ Instruction = program[at] /\ Instruction.op = "filled" /\ at <= Len(program)
      /\ registers' = Known
      /\ at' = at + 1 /\ UNCHANGED <<program, branches, findings>>
      /\ arrays' = With(arrays, at, array)
      /\ FellInto(at) = {}
  BY DEF FilledArray, Scanning, Step, Instruction
<1>2. /\ at \in DOMAIN program /\ at \in Nat /\ RegisterFile(Known)
      /\ FallsInto(at) => Known = registers
  BY <1>1, AtInstruction
<1>3. /\ array.size = Len(src)
      /\ \A n \in DOMAIN array.values :
           n \in 0..(Len(src) - 1) /\ IsObject(Known[src[n + 1]]) /\ array.values[n] = Known[src[n + 1]]
  OBVIOUS
<1> HIDE DEF array
<1>4. Fills(at, program[at], Here, Snapshot(registers', arrays'))
  BY <1>1, <1>3 DEF Fills, Here, Snapshot
<1>5. Flows(at, Here, Snapshot(registers', arrays'))
  BY <1>1, <1>4 DEF Flows, Carries, Here, Snapshot
<1>6. Targets(at) = {}
  BY <1>1 DEF Targets
<1>7. \A to \in DOMAIN branches' : to \in Nat /\ RegisterFile(branches'[to])
  BY <1>1 DEF ScanShapes
<1>8. QED
  BY <1>1, <1>2, <1>5, <1>6, <1>7, BranchesKeptBy DEF Advances

(* aput-object into an array that no branch to come knows. *)
LEMMA PutAdvances == ASSUME NEW t, ScanShapes(t), Method(program), Put, lost' = {} PROVE Advances
<1> DEFINE value == Known[Instruction.src[1]]
           array == Known[Instruction.src[2]]
           index == Known[Instruction.src[3]]
<1>1. /\ Instruction = program[at] /\ Instruction.op = "put" /\ at <= Len(program)
      /\ registers' = Known
      /\ at' = at + 1 /\ UNCHANGED <<program, branches, findings>>
      /\ FellInto(at) = {}
  BY DEF Put, Scanning, Step, Instruction
<1>2. /\ array.kind = "array" /\ IsObject(value)
      /\ Fits(arrays[array.value], index) \/ Free(arrays[array.value]) # {}
      /\ \A k \in DOMAIN branches : k > at => array \notin Range(branches[k])
      /\ arrays' = [arrays EXCEPT ![array.value] = Placed(arrays[array.value], index, value)]
  BY DEF Put
<1>3. /\ at \in DOMAIN program /\ at \in Nat /\ RegisterFile(Known)
      /\ FallsInto(at) => Known = registers
  BY <1>1, AtInstruction
<1>4. Instruction.src[2] \in Registers
  <2>1. Instruction.src \in Seq(Registers) /\ Len(Instruction.src) >= 3
    BY <1>1, <1>3 DEF Method
  <2>2. QED
    BY <2>1
<1>5. array \in [kind : {"array"}, value : Nat]
  BY <1>2, <1>3, <1>4 DEF RegisterFile
<1>6. ASSUME NEW to \in DOMAIN branches, to > at
      PROVE  Weaker(Snapshot(branches'[to], arrays'), Snapshot(branches[to], arrays))
  <2>1. RegisterFile(branches[to])
    BY <1>6 DEF ScanShapes
  <2>2. ASSUME NEW r \in Registers, branches[to][r].kind = "array" PROVE branches[to][r].value # array.value
    <3>1. branches[to][r] \in [kind : {"array"}, value : Nat]
      BY <2>1, <2>2 DEF RegisterFile
    <3>2. branches[to][r] # array
      BY <1>2, <1>6, <2>1 DEF RegisterFile, Range
    <3>3. QED
      BY <1>5, <3>1, <3>2
  <2>3. DOMAIN arrays' = DOMAIN arrays /\ \A k \in DOMAIN arrays : k # array.value => arrays'[k] = arrays[k]
    BY <1>2
  <2>4. QED
    BY <1>1, <2>2, <2>3 DEF Weaker, Snapshot
<1>7. Stores(program[at], Here, Snapshot(registers', arrays'))
  BY <1>1, <1>2 DEF Stores, Here, Snapshot
<1>8. Flows(at, Here, Snapshot(registers', arrays'))
  BY <1>1, <1>7 DEF Flows, Carries, Here, Snapshot
<1>9. Targets(at) = {}
  BY <1>1 DEF Targets
<1>10. DOMAIN arrays' \subseteq 1..at
  <2>1. DOMAIN arrays' = DOMAIN arrays
    BY <1>2
  <2>2. QED
    BY <1>3, <2>1 DEF ScanShapes
<1>11. \A to \in DOMAIN branches' : to \in Nat /\ RegisterFile(branches'[to])
  BY <1>1 DEF ScanShapes
<1> HIDE DEF value, array, index
<1>12. QED
  BY <1>1, <1>3, <1>6, <1>8, <1>9, <1>10, <1>11 DEF Advances

(* A call of newMessageInfo is reported as its registers are known. *)
LEMMA CallAdvances == ASSUME NEW t, ScanShapes(t), Method(program), Call, lost' = {} PROVE Advances
<1>1. /\ Instruction = program[at] /\ Instruction.op = "call" /\ at <= Len(program)
      /\ registers' = Empty
      /\ at' = at + 1 /\ UNCHANGED <<program, arrays, branches>>
      /\ findings' = findings \union Reported(Known)
      /\ FellInto(at) = {}
  BY DEF Call, Scanning, Step, Instruction
<1>2. /\ at \in DOMAIN program /\ at \in Nat /\ RegisterFile(Known)
      /\ FallsInto(at) => Known = registers
  BY <1>1, AtInstruction
<1>3. RegisterFile(Empty)
  BY DEF RegisterFile, Empty, Unknown
<1>4. ASSUME NEW f \in Reported(Known) PROVE f.at = at /\ Found(f, Here)
  <2> DEFINE info == Known[Instruction.src[1]]
             ref == Known[Instruction.src[2]]
             array == arrays[ref.value]
             size == IF array.size >= 0 THEN array.size ELSE Cardinality(DOMAIN array.values)
  <2>1. info.kind = "string"
    BY <1>4 DEF Reported
  <2>2. info # Unknown
    BY <2>1 DEF Unknown
  <2>3. CASE info.value.fields = 0
    <3>1. f = [at |-> at, info |-> info, objects |-> <<>>]
      BY <1>4, <2>1, <2>3 DEF Reported
    <3>2. f.at = at /\ f.info = info /\ f.objects = <<>>
      BY <3>1
    <3>3. QED
      BY <1>1, <2>2, <3>2 DEF Found, Here, Snapshot
  <2>4. CASE info.value.fields # 0
    <3>1. /\ f = [at |-> at, info |-> info, objects |-> [k \in 1..size |-> array.values[k - 1]]]
          /\ ref.kind = "array" /\ ~array.heuristic /\ \A k \in 0..(size - 1) : k \in DOMAIN array.values
      BY <1>4, <2>1, <2>4 DEF Reported
    <3> HIDE DEF ref
    <3>2. ref # Unknown
      BY <3>1 DEF Unknown
    <3> USE DEF ref
    <3>3. f.at = at /\ f.info = info /\ f.objects = [k \in 1..size |-> array.values[k - 1]]
      BY <3>1
    <3>4. array.size >= 0 => size = array.size
      OBVIOUS
    <3> HIDE DEF size
    <3>5. array.size >= 0 => f.objects = [n \in 1..array.size |-> array.values[n - 1]]
      BY <3>3, <3>4
    <3>6. array.size >= 0 => \A n \in 0..(array.size - 1) : n \in DOMAIN array.values
      BY <3>1, <3>4
    <3>7. QED
      BY <1>1, <2>2, <3>1, <3>2, <3>3, <3>5, <3>6 DEF Found, Here, Snapshot
  <2>5. QED
    BY <2>3, <2>4
<1>5. Flows(at, Here, Snapshot(registers', arrays'))
  BY <1>1 DEF Flows, Carries, Here, Snapshot
<1>6. Targets(at) = {}
  BY <1>1 DEF Targets
<1>7. /\ DOMAIN arrays' \subseteq 1..at
      /\ \A to \in DOMAIN branches' : to \in Nat /\ RegisterFile(branches'[to])
  BY <1>1, <1>2 DEF ScanShapes
<1>8. QED
  BY <1>1, <1>2, <1>3, <1>4, <1>5, <1>6, <1>7, BranchesKept DEF Advances

(* A call of another method. *)
LEMMA InvokeAdvances == ASSUME NEW t, ScanShapes(t), Method(program), Invoke, lost' = {} PROVE Advances
<1>1. /\ Instruction = program[at] /\ Instruction.op = "invoke" /\ at <= Len(program)
      /\ registers' = Known
      /\ at' = at + 1 /\ UNCHANGED <<program, arrays, branches, findings>>
      /\ FellInto(at) = {}
  BY DEF Invoke, Scanning, Step, Instruction
<1>2. /\ at \in DOMAIN program /\ at \in Nat /\ RegisterFile(Known)
      /\ FallsInto(at) => Known = registers
  BY <1>1, AtInstruction
<1>3. Flows(at, Here, Snapshot(registers', arrays'))
  BY <1>1 DEF Flows, Carries, Here, Snapshot
<1>4. Targets(at) = {}
  BY <1>1 DEF Targets
<1>5. /\ DOMAIN arrays' \subseteq 1..at
      /\ \A to \in DOMAIN branches' : to \in Nat /\ RegisterFile(branches'[to])
  BY <1>1, <1>2 DEF ScanShapes
<1>6. QED
  BY <1>1, <1>2, <1>3, <1>4, <1>5, BranchesKept DEF Advances

-----------------------------------------------------------------------------
(* What agrees before an instruction that leaves the arrays alone agrees   *)
(* behind it.                                                              *)
LEMMA RegisterAgrees ==
  ASSUME NEW s, NEW s2, NEW r \in Registers, NEW v, NEW w, RegisterFile(s.known),
         held = [q \in Registers |-> held[q]],
         \A q \in Registers : Agrees(s.known[q], held[q], s.arrays, heap),
         s2.arrays = s.arrays, heap' = heap,
         s2.known = [s.known EXCEPT ![r] = v], held' = [held EXCEPT ![r] = w],
         Agrees(v, w, s.arrays, heap)
  PROVE  \A q \in Registers : Agrees(s2.known[q], held'[q], s2.arrays, heap')
<1>1. s.known = [q \in Registers |-> s.known[q]]
  BY DEF RegisterFile
<1>2. ASSUME NEW q \in Registers PROVE Agrees(s2.known[q], held'[q], s.arrays, heap)
  <2>1. CASE q = r
    <3>1. s2.known[q] = v /\ held'[q] = w
      BY <1>1, <2>1
    <3>2. QED
      BY <3>1
  <2>2. CASE q # r
    <3>1. s2.known[q] = s.known[q] /\ held'[q] = held[q]
      BY <1>1, <2>2
    <3>2. QED
      BY <3>1
  <2>3. QED
    BY <2>1, <2>2
<1>3. QED
  BY <1>2

(* What an instruction of each kind does. *)
LEMMA RunEffects ==
  ASSUME Run, NEW i, i = program[pc]
  PROVE  /\ pc \in DOMAIN program /\ Legal(i) /\ program' = program
         /\ i.op \notin {"new", "filled", "put"} => heap' = heap
         /\ i.op \notin {"filled", "invoke", "call", "virtual"} => result' = result
         /\ i.op \in {"invoke", "call"} => result' = [kind |-> "call_result", value |-> 0]
         /\ i.op \notin {"const", "move", "result", "new", "other"} => held' = held
         /\ i.op = "const" => held' = [held EXCEPT ![i.dst] = i.value]
         /\ i.op = "move" => held' = [held EXCEPT ![i.dst] = held[i.src[1]]]
         /\ i.op = "result" => held' = [held EXCEPT ![i.dst] = result]
         /\ i.op = "other" => \E value : held' = [held EXCEPT ![i.dst] = value]
         /\ i.op = "new" =>
              /\ IsInt(held[i.src[1]])
              /\ held' = [held EXCEPT ![i.dst] = [kind |-> "array", value |-> pc]]
              /\ heap' = With(heap, pc, [k \in 1..held[i.src[1]].value |-> Unknown])
         /\ i.op = "filled" => /\ heap' = With(heap, pc, [k \in DOMAIN i.src |-> held[i.src[k]]])
                               /\ result' = [kind |-> "array", value |-> pc]
         /\ i.op = "put" =>
              heap' = [heap EXCEPT ![held[i.src[2]].value][held[i.src[3]].value + 1] = held[i.src[1]]]
<1>1. pc \in DOMAIN program /\ Legal(i) /\ program' = program
  BY DEF Run
<1>2. i.op \notin {"new", "filled", "put"} => heap' = heap
  BY DEF Run
<1>3. /\ i.op \notin {"filled", "invoke", "call", "virtual"} => result' = result
      /\ i.op \in {"invoke", "call"} => result' = [kind |-> "call_result", value |-> 0]
  BY DEF Run
<1>4. i.op \notin {"const", "move", "result", "new", "other"} => held' = held
  BY DEF Run
<1>5. i.op = "const" => held' = [held EXCEPT ![i.dst] = i.value]
  BY DEF Run
<1>6. i.op = "move" => held' = [held EXCEPT ![i.dst] = held[i.src[1]]]
  BY DEF Run
<1>7. i.op = "result" => held' = [held EXCEPT ![i.dst] = result]
  BY DEF Run
<1>8. i.op = "other" => \E value : held' = [held EXCEPT ![i.dst] = value]
  BY DEF Run
<1>9. i.op = "new" => IsInt(held[i.src[1]])
  BY DEF Run
<1>10. i.op = "new" => held' = [held EXCEPT ![i.dst] = [kind |-> "array", value |-> pc]]
  BY DEF Run
<1>11. i.op = "new" => heap' = With(heap, pc, [k \in 1..held[i.src[1]].value |-> Unknown])
  BY <1>9 DEF Run
<1>12. i.op = "filled" => heap' = With(heap, pc, [k \in DOMAIN i.src |-> held[i.src[k]]])
  BY DEF Run
<1>13. i.op = "filled" => result' = [kind |-> "array", value |-> pc]
  BY DEF Run
<1>14. i.op = "put" => heap' = [heap EXCEPT ![held[i.src[2]].value][held[i.src[3]].value + 1] = held[i.src[1]]]
  BY DEF Run
<1>15. QED
  BY <1>1, <1>2, <1>3, <1>4, <1>5, <1>6, <1>7, <1>8, <1>9, <1>10, <1>11, <1>12, <1>13, <1>14

(* Where a run goes: to a target of a branch, or to the next instruction.  *)
LEMMA RunGoes ==
  ASSUME Run, Method(program)
  PROVE  \/ pc' = Len(program) + 1
         \/ pc' \in Targets(pc) /\ program[pc].op \in {"if", "goto", "switch", "sparse"}
         \/ pc' = pc + 1 /\ Falls(pc)
<1>1. pc' \in IF Successors(program[pc]) = {} THEN {Len(program) + 1} ELSE Successors(program[pc])
  BY DEF Run
<1>2. \A to \in Successors(program[pc]) :
        \/ to \in Targets(pc) /\ program[pc].op \in {"if", "goto", "switch", "sparse"}
        \/ to = pc + 1 /\ Falls(pc)
  BY DEF Successors, Targets, Falls
<1>3. QED
  BY <1>1, <1>2

\* Before an instruction and behind it.
Before(s) ==
  /\ Method(program) /\ pc \in DOMAIN program
  /\ RegisterFile(s.known) /\ DOMAIN s.arrays \subseteq 1..(pc - 1)
  /\ held = [r \in Registers |-> held[r]]
  /\ AgreesAt(s, Unbranched(pc))

Behind(s2) ==
  /\ \A r \in Registers : Agrees(s2.known[r], held'[r], s2.arrays, heap')
  /\ Agrees(Given(pc), result', s2.arrays, heap')

(* Registers that are read. *)
LEMMA Reads ==
  ASSUME Method(program), NEW k \in DOMAIN program
  PROVE  LET i == program[k] IN
         /\ i.op \in {"const", "other", "move", "result", "new"} => i.dst \in Registers
         /\ i.op \in {"move", "new", "call", "put"} => i.src[1] \in Registers
         /\ i.op \in {"call", "put"} => i.src[2] \in Registers
         /\ i.op = "put" => i.src[3] \in Registers
         /\ DOMAIN i.src = 1..Len(i.src) /\ Len(i.src) \in Nat /\ \A n \in DOMAIN i.src : i.src[n] \in Registers
<1> DEFINE i == program[k]
<1>1. /\ i.op \in {"const", "other", "move", "result", "new"} => i.dst \in Registers
      /\ i.src \in Seq(Registers)
      /\ i.op \in {"move", "new"} => Len(i.src) >= 1
      /\ i.op = "call" => Len(i.src) >= 2
      /\ i.op = "put" => Len(i.src) >= 3
  BY DEF Method
<1>2. DOMAIN i.src = 1..Len(i.src) /\ Len(i.src) \in Nat /\ \A n \in DOMAIN i.src : i.src[n] \in Registers
  BY <1>1
<1> HIDE DEF i
<1>3. /\ i.op \in {"move", "new", "call", "put"} => 1 \in DOMAIN i.src
      /\ i.op \in {"call", "put"} => 2 \in DOMAIN i.src
      /\ i.op = "put" => 3 \in DOMAIN i.src
  BY <1>1, <1>2
<1>4. QED
  BY <1>1, <1>2, <1>3 DEF i

(* An instruction that makes and fills no array. *)
LEMMA PlainSound ==
  ASSUME NEW s, NEW s2, Before(s), Flows(pc, s, s2), Run, Falls(pc),
         program[pc].op \notin {"new", "filled", "put"}
  PROVE  Behind(s2)
<1> DEFINE i == program[pc]
<1>1. /\ RegisterFile(s.known) /\ held = [r \in Registers |-> held[r]] /\ Method(program) /\ pc \in DOMAIN program
      /\ \A r \in Registers : Agrees(s.known[r], held[r], s.arrays, heap)
  BY DEF Before, AgreesAt
<1>2. heap' = heap /\ s2.arrays = s.arrays
  BY RunEffects DEF Flows, Carries
<1>3. Carries(i, s, s2)
  BY DEF Flows
<1>4. Agrees(Given(pc), result', s2.arrays, heap')
  <2>1. CASE i.op \in {"invoke", "call"}
    <3>1. Given(pc) = [kind |-> "call_result", value |-> 0] /\ result' = [kind |-> "call_result", value |-> 0]
      BY <2>1, RunEffects DEF Given
    <3>2. QED
      BY <3>1 DEF Agrees
  <2>2. CASE i.op \notin {"invoke", "call"}
    BY <2>2 DEF Given, Agrees
  <2>3. QED
    BY <2>1, <2>2
<1>5. CASE i.op = "const"
  <2>1. i.dst \in Registers /\ Agrees(i.value, i.value, s.arrays, heap)
    BY <1>1, <1>5 DEF Method, Agrees
  <2>2. s2.known = [s.known EXCEPT ![i.dst] = i.value] /\ held' = [held EXCEPT ![i.dst] = i.value]
    BY <1>3, <1>5, RunEffects DEF Carries, Puts
  <2>3. \A r \in Registers : Agrees(s2.known[r], held'[r], s2.arrays, heap')
    BY <1>1, <1>2, <2>1, <2>2, RegisterAgrees
  <2>4. QED
    BY <1>4, <2>3 DEF Behind
<1>6. CASE i.op = "move"
  <2>1. i.dst \in Registers /\ i.src[1] \in Registers
    BY <1>1, <1>6, Reads
  <2>2. Agrees(s.known[i.src[1]], held[i.src[1]], s.arrays, heap)
    BY <1>1, <2>1
  <2>3. s2.known = [s.known EXCEPT ![i.dst] = s.known[i.src[1]]] /\ held' = [held EXCEPT ![i.dst] = held[i.src[1]]]
    BY <1>3, <1>6, RunEffects DEF Carries, Puts
  <2> DEFINE v == s.known[i.src[1]]
             w == held[i.src[1]]
  <2> HIDE DEF v, w
  <2>4. \A r \in Registers : Agrees(s2.known[r], held'[r], s2.arrays, heap')
    <3>1. /\ Agrees(v, w, s.arrays, heap)
          /\ s2.known = [s.known EXCEPT ![i.dst] = v] /\ held' = [held EXCEPT ![i.dst] = w]
      BY <2>2, <2>3 DEF v, w
    <3>2. QED
      BY <1>1, <1>2, <2>1, <3>1, RegisterAgrees
  <2>5. QED
    BY <1>4, <2>4 DEF Behind
<1>7. CASE i.op = "result"
  <2>1. PICK v : s2.known = Puts(i, s, v) /\ (v # Unknown => Unbranched(pc) /\ v = Given(pc - 1))
    BY <1>7 DEF Flows
  <2>2. Agrees(v, result, s.arrays, heap)
    <3>1. CASE v = Unknown
      BY <3>1 DEF Agrees
    <3>2. CASE v # Unknown
      <4>1. Unbranched(pc) /\ v = Given(pc - 1)
        BY <2>1, <3>2
      <4>2. QED
        BY <4>1 DEF Before, AgreesAt
    <3>3. QED
      BY <3>1, <3>2
  <2>3. i.dst \in Registers
    BY <1>1, <1>7, Reads
  <2>4. s2.known = [s.known EXCEPT ![i.dst] = v] /\ held' = [held EXCEPT ![i.dst] = result]
    BY <1>7, <2>1, RunEffects DEF Puts
  <2>5. \A r \in Registers : Agrees(s2.known[r], held'[r], s2.arrays, heap')
    BY <1>1, <1>2, <2>2, <2>3, <2>4, RegisterAgrees
  <2>6. QED
    BY <1>4, <2>5 DEF Behind
<1>8. CASE i.op = "other"
  <2>1. PICK w : held' = [held EXCEPT ![i.dst] = w]
    BY <1>8, RunEffects
  <2>2. i.dst \in Registers
    BY <1>1, <1>8, Reads
  <2>3. s2.known = s.known /\ s.known[i.dst] = Unknown
    BY <1>3, <1>8 DEF Carries
  <2>4. s2.known = [s.known EXCEPT ![i.dst] = Unknown]
    BY <1>1, <2>2, <2>3 DEF RegisterFile
  <2>5. Agrees(Unknown, w, s.arrays, heap)
    BY DEF Agrees
  <2>6. \A r \in Registers : Agrees(s2.known[r], held'[r], s2.arrays, heap')
    BY <1>1, <1>2, <2>1, <2>2, <2>4, <2>5, RegisterAgrees
  <2>7. QED
    BY <1>4, <2>6 DEF Behind
<1>9. CASE i.op = "call"
  <2>1. s2.known = Empty
    BY <1>3, <1>9 DEF Carries
  <2>2. \A r \in Registers : Agrees(s2.known[r], held'[r], s2.arrays, heap')
    BY <2>1 DEF Empty, Agrees
  <2>3. QED
    BY <1>4, <2>2 DEF Behind
<1>10. CASE i.op \in {"if", "switch", "sparse", "invoke", "virtual"}
  <2>1. s2.known = s.known /\ held' = held
    BY <1>3, <1>10, RunEffects DEF Carries
  <2>2. \A r \in Registers : Agrees(s2.known[r], held'[r], s2.arrays, heap')
    BY <1>1, <1>2, <2>1
  <2>3. QED
    BY <1>4, <2>2 DEF Behind
<1>11. i.op \in Operations
  BY <1>1 DEF Method
<1>12. QED
  BY <1>5, <1>6, <1>7, <1>8, <1>9, <1>10, <1>11 DEF Operations, Falls

(* An array made here is another than those already known. *)
LEMMA KeptBeside ==
  ASSUME NEW s, NEW arrs, NEW hp, NEW array, NEW contents, NEW v, NEW w, Before(s), Agrees(v, w, s.arrays, heap),
         arrs = With(s.arrays, pc, array), hp = With(heap, pc, contents)
  PROVE  Agrees(v, w, arrs, hp)
<1>1. pc \in Nat /\ pc \notin DOMAIN s.arrays
  BY DEF Before, Method
<1>2. \A k \in DOMAIN s.arrays : k \in DOMAIN arrs /\ arrs[k] = s.arrays[k]
  BY <1>1 DEF With
<1>3. \A k \in DOMAIN heap : k # pc => k \in DOMAIN hp /\ hp[k] = heap[k]
  BY <1>1 DEF With
<1>4. QED
  BY <1>1, <1>2, <1>3 DEF Agrees

(* new-array *)
LEMMA NewSound ==
  ASSUME NEW s, NEW s2, Before(s), Flows(pc, s, s2), Run, program[pc].op = "new"
  PROVE  Behind(s2)
<1> DEFINE i == program[pc]
           size == s.known[i.src[1]]
           contents == [k \in 1..held[i.src[1]].value |-> Unknown]
           ref == [kind |-> "array", value |-> pc]
<1>1. /\ RegisterFile(s.known) /\ held = [r \in Registers |-> held[r]] /\ Method(program) /\ pc \in DOMAIN program
      /\ \A r \in Registers : Agrees(s.known[r], held[r], s.arrays, heap)
  BY DEF Before, AgreesAt
<1>2. /\ held' = [held EXCEPT ![i.dst] = ref]
      /\ heap' = With(heap, pc, contents)
  BY RunEffects
<1>3. PICK array : /\ s2.arrays = With(s.arrays, pc, array)
                   /\ ~array.heuristic => /\ IsInt(size) /\ size.value >= 0 /\ array.size = size.value
                                          /\ array.values = << >>
  BY DEF Flows, Creates
<1>4. s2.known = [s.known EXCEPT ![i.dst] = ref]
  BY DEF Flows, Creates, Puts
<1>5. i.dst \in Registers /\ i.src[1] \in Registers
  BY <1>1, Reads
<1>6. Holds(array, contents)
  <2> SUFFICES ASSUME ~array.heuristic PROVE Holds(array, contents)
    BY DEF Holds
  <2>1. IsInt(size) /\ size.value >= 0 /\ array.size = size.value /\ array.values = << >>
    BY <1>3
  <2>2. size \in {s.known[r] : r \in Registers} /\ size.value \in Int
    BY <1>1, <1>5, <2>1 DEF RegisterFile, IsInt
  <2>3. size # Unknown
    BY <2>1 DEF IsInt, Unknown
  <2>4. held[i.src[1]] = size
    BY <1>1, <1>5, <2>3 DEF Agrees
  <2>5. contents = [k \in 1..size.value |-> Unknown] /\ size.value \in Nat
    BY <2>1, <2>2, <2>4
  <2> HIDE DEF contents, size
  <2>6. contents \in Seq({Unknown}) /\ Len(contents) = size.value
    BY <2>5
  <2>7. \A n \in DOMAIN array.values : n \in 0..(array.size - 1) /\ contents[n + 1] = array.values[n]
    BY <2>1
  <2>8. QED
    BY <2>1, <2>6, <2>7 DEF Holds
<1> HIDE DEF contents
<1>7. Agrees(ref, ref, s2.arrays, heap')
  <2>1. /\ pc \in DOMAIN s2.arrays /\ s2.arrays[pc] = array
        /\ pc \in DOMAIN heap' /\ heap'[pc] = contents
    BY <1>2, <1>3 DEF With
  <2>2. QED
    BY <1>6, <2>1 DEF Agrees
<1>8. ASSUME NEW r \in Registers PROVE Agrees(s2.known[r], held'[r], s2.arrays, heap')
  <2>1. CASE r = i.dst
    <3>1. s2.known[r] = ref /\ held'[r] = ref
      BY <1>1, <1>2, <1>4, <2>1 DEF RegisterFile
    <3>2. QED
      BY <1>7, <3>1
  <2>2. CASE r # i.dst
    <3>1. s2.known[r] = s.known[r] /\ held'[r] = held[r]
      BY <1>1, <1>2, <1>4, <2>2 DEF RegisterFile
    <3>2. QED
      BY <1>1, <1>2, <1>3, <3>1, KeptBeside
  <2>3. QED
    BY <2>1, <2>2
<1>9. Agrees(Given(pc), result', s2.arrays, heap')
  BY DEF Given, Agrees
<1>10. QED
  BY <1>8, <1>9 DEF Behind

(* filled-new-array *)
LEMMA FilledSound ==
  ASSUME NEW s, NEW s2, Before(s), Flows(pc, s, s2), Run, program[pc].op = "filled"
  PROVE  Behind(s2)
<1> DEFINE i == program[pc]
           contents == [k \in DOMAIN i.src |-> held[i.src[k]]]
           ref == [kind |-> "array", value |-> pc]
<1>1. /\ RegisterFile(s.known) /\ held = [r \in Registers |-> held[r]] /\ Method(program) /\ pc \in DOMAIN program
      /\ \A r \in Registers : Agrees(s.known[r], held[r], s.arrays, heap)
  BY DEF Before, AgreesAt
<1>2. held' = held /\ heap' = With(heap, pc, contents) /\ result' = ref
  BY RunEffects
<1>3. PICK array : /\ s2.arrays = With(s.arrays, pc, array)
                   /\ array.size = Len(i.src)
                   /\ \A n \in DOMAIN array.values :
                        /\ n \in 0..(Len(i.src) - 1)
                        /\ IsObject(s.known[i.src[n + 1]]) /\ array.values[n] = s.known[i.src[n + 1]]
  BY DEF Flows, Fills
<1>4. s2.known = s.known
  BY DEF Flows, Carries
<1>5. DOMAIN i.src = 1..Len(i.src) /\ Len(i.src) \in Nat /\ \A n \in DOMAIN i.src : i.src[n] \in Registers
  BY <1>1, Reads
<1>6. Holds(array, contents)
  <2>1. contents \in Seq({held[r] : r \in Registers}) /\ Len(contents) = Len(i.src)
    <3>1. contents = [k \in 1..Len(i.src) |-> held[i.src[k]]]
      BY <1>5
    <3>2. \A k \in 1..Len(i.src) : contents[k] \in {held[r] : r \in Registers}
      BY <1>5, <3>1
    <3> HIDE DEF contents
    <3>3. QED
      BY <1>5, <3>1, <3>2
  <2>2. ASSUME NEW n \in DOMAIN array.values PROVE n \in 0..(array.size - 1) /\ contents[n + 1] = array.values[n]
    <3>1. n \in 0..(Len(i.src) - 1) /\ IsObject(s.known[i.src[n + 1]]) /\ array.values[n] = s.known[i.src[n + 1]]
      BY <1>3
    <3>2. n + 1 \in DOMAIN i.src
      BY <1>5, <3>1
    <3>3. i.src[n + 1] \in Registers /\ contents[n + 1] = held[i.src[n + 1]]
      BY <1>5, <3>2
    <3>4. s.known[i.src[n + 1]] # Unknown
      BY <3>1 DEF IsObject, Unknown
    <3>5. held[i.src[n + 1]] = s.known[i.src[n + 1]]
      BY <1>1, <3>3, <3>4 DEF Agrees
    <3>6. QED
      BY <1>3, <3>1, <3>3, <3>5
  <2>3. QED
    BY <1>3, <2>1, <2>2 DEF Holds
<1> HIDE DEF contents
<1>7. Agrees(ref, ref, s2.arrays, heap')
  <2>1. /\ pc \in DOMAIN s2.arrays /\ s2.arrays[pc] = array
        /\ pc \in DOMAIN heap' /\ heap'[pc] = contents
    BY <1>2, <1>3 DEF With
  <2>2. QED
    BY <1>6, <2>1 DEF Agrees
<1>8. \A r \in Registers : Agrees(s2.known[r], held'[r], s2.arrays, heap')
  BY <1>1, <1>2, <1>3, <1>4, KeptBeside
<1>9. Agrees(Given(pc), result', s2.arrays, heap')
  BY <1>2, <1>7 DEF Given
<1>10. QED
  BY <1>8, <1>9 DEF Behind

(* aput-object at its index; a value placed by a guess marks the array as  *)
(* one that nothing is claimed of.                                         *)
LEMMA PlacedHolds ==
  ASSUME NEW array, NEW contents, NEW index, NEW value, NEW n \in Int,
         Holds(array, contents), Fits(array, index) \/ Free(array) # {},
         Fits(array, index) => index.value = n, n \in 0..(Len(contents) - 1)
  PROVE  Holds(Placed(array, index, value), [contents EXCEPT ![n + 1] = value])
<1>1. CASE ~Fits(array, index)
  <2>1. Placed(array, index, value).heuristic = TRUE
    BY <1>1 DEF Placed, Store
  <2>2. QED
    BY <2>1 DEF Holds
<1>2. CASE Fits(array, index)
  <2> DEFINE placed == Placed(array, index, value)
             after == [contents EXCEPT ![n + 1] = value]
  <2>1. placed = [size |-> array.size, values |-> With(array.values, n, value), heuristic |-> array.heuristic \/ FALSE]
    BY <1>2 DEF Placed, Store
  <2>2. placed.size = array.size /\ placed.values = With(array.values, n, value) /\ (~placed.heuristic => ~array.heuristic)
    <3> DEFINE values == With(array.values, n, value)
               guessed == array.heuristic \/ FALSE
    <3>1. ~guessed => ~array.heuristic
      OBVIOUS
    <3> HIDE DEF placed, values, guessed
    <3>2. placed = [size |-> array.size, values |-> values, heuristic |-> guessed]
      BY <2>1 DEF values, guessed
    <3>3. placed.size = array.size /\ placed.values = values /\ placed.heuristic = guessed
      BY <3>2
    <3>4. QED
      BY <3>1, <3>3 DEF values
  <2> HIDE DEF placed
  <2>3. CASE placed.heuristic
    BY <2>3 DEF Holds, placed
  <2>4. CASE ~placed.heuristic
    <3>1. /\ Len(contents) = array.size
          /\ \A l \in DOMAIN array.values : l \in 0..(array.size - 1) /\ contents[l + 1] = array.values[l]
      BY <2>2, <2>4 DEF Holds
    <3>2. PICK S : contents \in Seq(S)
      BY <2>2, <2>4 DEF Holds
    <3>3. after \in Seq(S \union {value}) /\ Len(after) = Len(contents)
      BY <3>2
    <3>4. ASSUME NEW l \in DOMAIN placed.values PROVE l \in 0..(placed.size - 1) /\ after[l + 1] = placed.values[l]
      <4>1. CASE l = n
        <5>1. placed.values[l] = value
          BY <2>2, <4>1 DEF With
        <5>2. n + 1 \in DOMAIN contents
          BY <3>2
        <5>3. QED
          BY <2>2, <3>1, <4>1, <5>1, <5>2
      <4>2. CASE l # n
        <5>1. l \in DOMAIN array.values /\ placed.values[l] = array.values[l]
          BY <2>2, <4>2 DEF With
        <5>2. l \in 0..(array.size - 1) /\ contents[l + 1] = array.values[l]
          BY <3>1, <5>1
        <5>3. after[l + 1] = contents[l + 1]
          <6>1. l + 1 # n + 1
            BY <4>2, <5>2
          <6>2. l + 1 \in DOMAIN contents
            BY <3>1, <3>2, <5>2
          <6>3. QED
            BY <6>1, <6>2
        <5>4. QED
          BY <2>2, <5>1, <5>2, <5>3
      <4>3. QED
        BY <4>1, <4>2
    <3>5. QED
      BY <2>2, <3>1, <3>3, <3>4 DEF Holds, placed
  <2>5. QED
    BY <2>3, <2>4
<1>3. QED
  BY <1>1, <1>2

(* aput-object *)
LEMMA PutSound ==
  ASSUME NEW s, NEW s2, Before(s), Flows(pc, s, s2), Run, program[pc].op = "put"
  PROVE  Behind(s2)
<1> DEFINE i == program[pc]
           value == s.known[i.src[1]]
           array == s.known[i.src[2]]
           index == s.known[i.src[3]]
<1>1. /\ RegisterFile(s.known) /\ held = [r \in Registers |-> held[r]] /\ Method(program) /\ pc \in DOMAIN program
      /\ \A r \in Registers : Agrees(s.known[r], held[r], s.arrays, heap)
  BY DEF Before, AgreesAt
<1>2. i.src[1] \in Registers /\ i.src[2] \in Registers /\ i.src[3] \in Registers
  BY <1>1, Reads
<1>3. /\ array.kind = "array" /\ IsObject(value)
      /\ Fits(s.arrays[array.value], index) \/ Free(s.arrays[array.value]) # {}
      /\ s2.arrays = [s.arrays EXCEPT ![array.value] = Placed(s.arrays[array.value], index, value)]
      /\ s2.known = s.known
  BY DEF Flows, Carries, Stores
<1>4. value = held[i.src[1]]
  <2>1. Agrees(value, held[i.src[1]], s.arrays, heap)
    BY <1>1, <1>2
  <2>2. IsObject(value)
    BY <1>3
  <2> HIDE DEF value
  <2>3. value # Unknown
    BY <2>2 DEF IsObject, Unknown
  <2>4. QED
    BY <2>1, <2>3 DEF Agrees
<1> DEFINE a == array.value
           n == held[i.src[3]].value
<1>5. /\ array = held[i.src[2]]
      /\ a \in DOMAIN s.arrays /\ a \in DOMAIN heap /\ Holds(s.arrays[a], heap[a])
  <2>1. Agrees(array, held[i.src[2]], s.arrays, heap)
    BY <1>1, <1>2
  <2> HIDE DEF array
  <2>2. array # Unknown
    BY <1>3 DEF Unknown
  <2>3. QED
    BY <1>3, <2>1, <2>2 DEF Agrees, array
<1>6. Fits(s.arrays[a], index) => index.value = n
  <2>1. Agrees(index, held[i.src[3]], s.arrays, heap)
    BY <1>1, <1>2
  <2> HIDE DEF index
  <2>2. CASE Fits(s.arrays[a], index)
    <3>1. index # Unknown
      BY <2>2 DEF Fits, IsInt, Unknown
    <3>2. QED
      BY <2>1, <3>1 DEF Agrees
  <2>3. QED
    BY <2>2
<1>7. /\ Legal(i) /\ held' = held /\ result' = result
      /\ heap' = [heap EXCEPT ![held[i.src[2]].value][held[i.src[3]].value + 1] = held[i.src[1]]]
  BY RunEffects
<1>8. n \in 0..(Len(heap[a]) - 1)
  BY <1>5, <1>7 DEF Legal
<1>9. heap' = [heap EXCEPT ![a] = [heap[a] EXCEPT ![n + 1] = value]]
  BY <1>4, <1>5, <1>7
<1> HIDE DEF a, n, index, value, array
<1>10. ASSUME NEW v, NEW w, Agrees(v, w, s.arrays, heap) PROVE Agrees(v, w, s2.arrays, heap')
  <2> SUFFICES ASSUME v # Unknown, v.kind = "array"
               PROVE  v.value \in DOMAIN s2.arrays /\ v.value \in DOMAIN heap' /\ Holds(s2.arrays[v.value], heap'[v.value])
    BY <1>10 DEF Agrees
  <2>1. v.value \in DOMAIN s.arrays /\ v.value \in DOMAIN heap /\ Holds(s.arrays[v.value], heap[v.value])
    BY <1>10 DEF Agrees
  <2>2. s2.arrays = [s.arrays EXCEPT ![a] = Placed(s.arrays[a], index, value)]
    BY <1>3 DEF a
  <2>3. CASE v.value # a
    <3>1. /\ v.value \in DOMAIN s2.arrays /\ s2.arrays[v.value] = s.arrays[v.value]
          /\ v.value \in DOMAIN heap' /\ heap'[v.value] = heap[v.value]
      BY <1>9, <2>1, <2>2, <2>3
    <3>2. QED
      BY <2>1, <3>1
  <2>4. CASE v.value = a
    <3>1. /\ a \in DOMAIN s2.arrays /\ s2.arrays[a] = Placed(s.arrays[a], index, value)
          /\ a \in DOMAIN heap' /\ heap'[a] = [heap[a] EXCEPT ![n + 1] = value]
      BY <1>9, <2>1, <2>2, <2>4
    <3>2. Holds(s.arrays[a], heap[a]) /\ (Fits(s.arrays[a], index) \/ Free(s.arrays[a]) # {})
      BY <1>3, <1>5 DEF a
    <3>3. n \in Int
      BY <1>8
    <3>4. Holds(Placed(s.arrays[a], index, value), [heap[a] EXCEPT ![n + 1] = value])
      BY <1>6, <1>8, <3>2, <3>3, PlacedHolds
    <3>5. QED
      BY <2>4, <3>1, <3>4
  <2>5. QED
    BY <2>3, <2>4
<1>11. \A r \in Registers : Agrees(s2.known[r], held'[r], s2.arrays, heap')
  BY <1>1, <1>3, <1>7, <1>10
<1>12. Agrees(Given(pc), result', s2.arrays, heap')
  BY DEF Given, Agrees
<1>13. QED
  BY <1>11, <1>12 DEF Behind

(* A branch taken: what is known at its target is known where it starts.   *)
LEMMA JumpSound ==
  ASSUME NEW s, NEW s2, Before(s), Weaker(s2, s), Run, program[pc].op \in {"if", "goto", "switch", "sparse"}
  PROVE  \A r \in Registers : Agrees(s2.known[r], held'[r], s2.arrays, heap')
<1>1. held' = held /\ heap' = heap
  BY RunEffects
<1>2. \A r \in Registers : Agrees(s.known[r], held[r], s.arrays, heap)
  BY DEF Before, AgreesAt
<1>3. ASSUME NEW r \in Registers, s2.known[r] # Unknown PROVE Agrees(s2.known[r], held[r], s2.arrays, heap)
  <2>1. /\ s2.known[r] = s.known[r]
        /\ s.known[r].kind = "array" /\ s.known[r].value \in DOMAIN s.arrays =>
             s.known[r].value \in DOMAIN s2.arrays /\ s2.arrays[s.known[r].value] = s.arrays[s.known[r].value]
    BY <1>3 DEF Weaker
  <2>2. QED
    BY <1>2, <1>3, <2>1 DEF Agrees
<1>4. QED
  BY <1>1, <1>3 DEF Agrees

(* What is to be shown of the place that the run gets to. *)
LEMMA RunGetsTo ==
  ASSUME NEW t, program' = program,
         pc' \in DOMAIN program =>
           /\ \A r \in Registers : Agrees(t[pc'].known[r], held'[r], t[pc'].arrays, heap')
           /\ Unbranched(pc') => Agrees(Given(pc' - 1), result', t[pc'].arrays, heap')
  PROVE  RunInv(t)'
<1>1. \A k : (Unbranched(k) <=> Unbranched(k)') /\ Given(k)' = Given(k)
  BY SameMethod DEF Unbranched
<1>2. \A v, w, arrs, hp : Agrees(v, w, arrs, hp) <=> Agrees(v, w, arrs, hp)'
  BY DEF Agrees, Holds
<1>3. QED
  BY <1>1, <1>2 DEF RunInv, AgreesAt, Agrees, Holds

(* The run goes from where the scan knew something to where it did.        *)
LEMMA RunKeeps ==
  ASSUME NEW t, ScanInv(t), at = Len(program) + 1, RunInv(t), Run, Method(program),
         held = [r \in Registers |-> held[r]], pc \in Nat
  PROVE  RunInv(t)'
<1>1. pc \in DOMAIN program /\ program' = program /\ at' = at
  BY RunEffects DEF Run
<1>2. /\ Len(program) \in Nat /\ pc \in 1..(at - 1) /\ DOMAIN program = 1..Len(program)
  BY <1>1 DEF Method
<1>3. Before(t[pc])
  BY <1>1, <1>2 DEF Before, RunInv, ScanInv, ScanShapes
<1> SUFFICES ASSUME pc' \in DOMAIN program
             PROVE  /\ \A r \in Registers : Agrees(t[pc'].known[r], held'[r], t[pc'].arrays, heap')
                    /\ Unbranched(pc') => Agrees(Given(pc' - 1), result', t[pc'].arrays, heap')
  BY <1>1, RunGetsTo
<1>4. CASE pc' \in Targets(pc) /\ program[pc].op \in {"if", "goto", "switch", "sparse"}
  <2>1. pc' > pc /\ pc' < at
    BY <1>2, <1>4 DEF ScanInv, Traced
  <2>2. Weaker(t[pc'], t[pc])
    BY <1>2, <1>4, <2>1 DEF ScanInv, Traced
  <2>3. ~Unbranched(pc')
    <3>1. pc \in 1..(pc' - 1)
      BY <1>2, <2>1
    <3>2. QED
      BY <1>4, <3>1 DEF Unbranched
  <2>4. QED
    BY <1>3, <1>4, <2>2, <2>3, JumpSound
<1>5. CASE pc' = pc + 1 /\ Falls(pc)
  <2> DEFINE next == t[pc + 1]
  <2>1. pc + 1 < at
    BY <1>2, <1>5
  <2>2. next = IF pc + 1 < at THEN t[pc + 1] ELSE Snapshot(registers, arrays)
    BY <2>1
  <2> HIDE DEF next
  <2>3. Flows(pc, t[pc], next)
    BY <1>2, <1>5, <2>2 DEF ScanInv, Traced
  <2>4. Behind(next)
    BY <1>3, <1>5, <2>3, PlainSound, NewSound, FilledSound, PutSound
  <2>5. pc' - 1 = pc
    BY <1>2, <1>5
  <2>6. QED
    BY <1>5, <2>4, <2>5 DEF Behind, next
<1>6. QED
  BY <1>2, <1>4, <1>5, RunGoes

-----------------------------------------------------------------------------
(* A run keeps its registers. *)
LEMMA RunHeld ==
  ASSUME Run, held = [r \in Registers |-> held[r]] PROVE held' = [r \in Registers |-> held'[r]]
<1>1. held' = held \/ \E q, value : held' = [held EXCEPT ![q] = value]
  <2> DEFINE i == program[pc]
  <2>1. /\ i.op \notin {"const", "move", "result", "new", "other"} => held' = held
        /\ i.op = "const" => held' = [held EXCEPT ![i.dst] = i.value]
        /\ i.op = "move" => held' = [held EXCEPT ![i.dst] = held[i.src[1]]]
        /\ i.op = "result" => held' = [held EXCEPT ![i.dst] = result]
        /\ i.op = "other" => \E value : held' = [held EXCEPT ![i.dst] = value]
        /\ i.op = "new" => held' = [held EXCEPT ![i.dst] = [kind |-> "array", value |-> pc]]
    BY RunEffects
  <2>2. QED
    BY <2>1
<1>2. CASE held' = held
  BY <1>2
<1>3. CASE \E q, value : held' = [held EXCEPT ![q] = value]
  BY <1>3
<1>4. QED
  BY <1>1, <1>2, <1>3

(* It goes on within the method, or ends. *)
LEMMA RunOn ==
  ASSUME Run, Method(program), pc \in Nat PROVE pc' \in Nat /\ pc' # 0
<1>1. Len(program) \in Nat /\ DOMAIN program = 1..Len(program) /\ pc \in DOMAIN program
  BY RunEffects, MethodShape
<1>2. Targets(pc) \subseteq DOMAIN program
  BY <1>1, MethodShape
<1>3. QED
  BY <1>1, <1>2, RunGoes

(* Whatever the scan knew of each instruction, it knew of it rightly.      *)
LEMMA LiteInvariant ==
  ASSUME NEW CONSTANT programs, \A p \in programs : Method(p)
  PROVE  ScanSpec(programs) => []LiteInv
<1>1. ASSUME ScanInit(programs) PROVE LiteInv
  <2>1. /\ Method(program) /\ pc = 0 /\ held = Empty /\ at = 1 /\ registers = Empty
        /\ arrays = << >> /\ branches = << >> /\ findings = {}
    BY <1>1 DEF ScanInit
  <2>2. RegisterFile(Empty)
    BY DEF RegisterFile, Empty, Unknown
  <2>3. Len(program) \in Nat
    BY <2>1 DEF Method
  <2>4. ScanInv(<< >>)
    BY <2>1, <2>2, <2>3 DEF ScanInv, ScanShapes, Traced
  <2>5. held = [r \in Registers |-> held[r]]
    BY <2>1 DEF Empty
  <2>6. QED
    BY <2>1, <2>4, <2>5 DEF LiteInv
<1>2. ASSUME LiteInv, [ScanNext]_scanVars PROVE LiteInv'
  <2> DEFINE Scans == Const \/ Move \/ Branch \/ Switch \/ NewArray \/ FilledArray \/ Put \/ Call \/ Invoke
  <2>1. CASE Scans
    <3>1. /\ pc = 0 /\ at <= Len(program) /\ UNCHANGED <<program, pc, held>> /\ lost \subseteq lost'
      BY <2>1 DEF Const, Move, Branch, Switch, NewArray, FilledArray, Put, Call, Invoke, Scanning, Step
    <3>2. ASSUME lost' = {} PROVE \E t : ScanInv(t)'
      <4>1. PICK t : ScanInv(t)
        BY <1>2, <3>1, <3>2 DEF LiteInv
      <4>2. Method(program) /\ ScanShapes(t)
        BY <1>2, <4>1 DEF LiteInv, ScanInv
      <4>3. Advances
        BY <2>1, <3>2, <4>1, <4>2, ConstAdvances, MoveAdvances, BranchAdvances, SwitchAdvances, NewArrayAdvances,
           FilledArrayAdvances, PutAdvances, CallAdvances, InvokeAdvances
      <4> DEFINE u == [k \in 1..at |-> IF k = at THEN Here ELSE t[k]]
      <4>4. at \in Nat /\ at >= 1
        BY <4>2 DEF ScanShapes
      <4>5. (\A k \in 1..(at - 1) : u[k] = t[k]) /\ u[at] = Here
        BY <4>4
      <4> HIDE DEF u
      <4>6. \A v : v = u => ScanInv(v)'
        BY <4>1, <4>2, <4>3, <4>5, TraceGoesOn
      <4>7. QED
        BY <4>6
    <3>3. Method(program)' /\ pc' \in Nat /\ held' = [r \in Registers |-> held'[r]] /\ pc' = 0 /\ held' = Empty
      <4>1. Method(program) /\ pc \in Nat /\ held = [r \in Registers |-> held[r]] /\ held = Empty
        BY <1>2, <3>1 DEF LiteInv
      <4>2. QED
        BY <3>1, <4>1 DEF Method
    <3>4. QED
      BY <3>2, <3>3 DEF LiteInv, Empty
  <2>2. CASE EndScan
    <3>1. /\ pc = 0 /\ at > Len(program) /\ pc' = 1
          /\ UNCHANGED <<program, at, registers, arrays, branches, findings, lost, held, heap, result>>
      BY <2>2 DEF EndScan
    <3>2. ASSUME lost = {} PROVE \E t : ScanInv(t)' /\ at' = Len(program') + 1 /\ RunInv(t)'
      <4>1. PICK t : ScanInv(t)
        BY <1>2, <3>2 DEF LiteInv
      <4>2. Len(program) \in Nat /\ DOMAIN program = 1..Len(program)
        BY <1>2, MethodShape DEF LiteInv
      <4>3. at = Len(program) + 1
        BY <3>1, <4>1, <4>2 DEF ScanInv, ScanShapes
      <4>4. ScanInv(t)'
        BY <3>1, <4>1, SameScan
      <4>5. RunInv(t)'
        <5>1. 1 \in DOMAIN program => t[1].known = Empty
          BY <4>1, <4>2, <4>3 DEF ScanInv
        <5>2. ~Unbranched(1)'
          BY DEF Unbranched
        <5>3. QED
          BY <3>1, <5>1, <5>2 DEF RunInv, AgreesAt, Agrees, Empty
      <4>6. QED
        BY <3>1, <4>3, <4>4, <4>5
    <3>3. QED
      BY <1>2, <3>1, <3>2 DEF LiteInv, Method
  <2>3. CASE Run
    <3>1. pc \in DOMAIN program /\ UNCHANGED <<program, at, registers, arrays, branches, findings, lost>>
      BY <2>3 DEF Run
    <3>2. Method(program) /\ pc \in Nat /\ pc # 0 /\ held = [r \in Registers |-> held[r]]
      <4>1. Method(program) /\ pc \in Nat /\ held = [r \in Registers |-> held[r]]
        BY <1>2 DEF LiteInv
      <4>2. QED
        BY <3>1, <4>1, MethodShape
    <3>3. ASSUME lost = {} PROVE \E t : ScanInv(t)' /\ at' = Len(program') + 1 /\ RunInv(t)'
      <4>1. PICK t : ScanInv(t) /\ at = Len(program) + 1 /\ RunInv(t)
        BY <1>2, <3>2, <3>3 DEF LiteInv
      <4>2. ScanInv(t)'
        BY <3>1, <4>1, SameScan
      <4>3. RunInv(t)'
        BY <2>3, <3>2, <4>1, RunKeeps
      <4>4. QED
        BY <3>1, <4>1, <4>2, <4>3
    <3>4. held' = [r \in Registers |-> held'[r]]
      BY <2>3, <3>2, RunHeld
    <3>5. pc' \in Nat /\ pc' # 0
      BY <2>3, <3>2, RunOn
    <3>6. QED
      BY <3>1, <3>2, <3>3, <3>4, <3>5 DEF LiteInv, Method
  <2>4. CASE UNCHANGED scanVars
    <3>1. UNCHANGED <<program, at, registers, arrays, branches, findings, lost, pc, held, heap, result>>
      BY <2>4 DEF scanVars
    <3>2. \A t : (ScanInv(t) => ScanInv(t)') /\ (RunInv(t) => RunInv(t)')
      <4>1. \A t : ScanInv(t) => ScanInv(t)'
        BY <3>1, SameScan
      <4>2. \A t : RunInv(t) => RunInv(t)'
        <5>1. \A t : RunInv(t) /\ pc \in DOMAIN program =>
                /\ \A r \in Registers : Agrees(t[pc].known[r], held[r], t[pc].arrays, heap)
                /\ Unbranched(pc) => Agrees(Given(pc - 1), result, t[pc].arrays, heap)
          BY DEF RunInv, AgreesAt
        <5>2. QED
          BY <3>1, <5>1, RunGetsTo
      <4>3. QED
        BY <4>1, <4>2
    <3>3. QED
      BY <1>2, <3>1, <3>2 DEF LiteInv, Method
  <2>5. QED
    BY <1>2, <2>1, <2>2, <2>3, <2>4 DEF ScanNext
<1>3. QED
  BY <1>1, <1>2, PTL DEF ScanSpec

(* What the scan reports of a call is what the method passes to it, for    *)
(* every method and on every path through it, unless the method has one of *)
(* the things that the scan does not follow.                               *)
THEOREM ScanReportsTruth ==
  ASSUME NEW CONSTANT programs, \A p \in programs : Method(p)
  PROVE  ScanSpec(programs) => []ScanSound
<1>1. ASSUME LiteInv PROVE ScanSound
  <2> SUFFICES ASSUME pc > 0, lost = {}, NEW f \in findings, pc = f.at
               PROVE  /\ held[program[pc].src[1]] = f.info
                      /\ f.objects # <<>> => /\ held[program[pc].src[2]].kind = "array"
                                             /\ heap[held[program[pc].src[2]].value] = f.objects
    BY DEF ScanSound
  <2>1. PICK t : ScanInv(t) /\ at = Len(program) + 1 /\ RunInv(t)
    BY <1>1 DEF LiteInv
  <2>2. Method(program) /\ Len(program) \in Nat /\ DOMAIN program = 1..Len(program)
    BY <1>1, MethodShape DEF LiteInv
  <2>3. pc \in DOMAIN program /\ Found(f, t[pc])
    BY <2>1, <2>2 DEF ScanInv
  <2> DEFINE i == program[pc]
             s == t[pc]
             ref == s.known[i.src[2]]
             array == s.arrays[ref.value]
  <2>4. /\ \A r \in Registers : Agrees(s.known[r], held[r], s.arrays, heap)
    BY <2>1, <2>3 DEF RunInv, AgreesAt
  <2>5. i.op = "call" /\ i.src[1] \in Registers /\ i.src[2] \in Registers
    BY <2>2, <2>3, Reads DEF Found
  <2>6. held[i.src[1]] = f.info
    <3>1. f.info = s.known[i.src[1]] /\ f.info # Unknown
      BY <2>3 DEF Found
    <3>2. QED
      BY <2>4, <2>5, <3>1 DEF Agrees
  <2>7. ASSUME f.objects # <<>> PROVE held[i.src[2]].kind = "array" /\ heap[held[i.src[2]].value] = f.objects
    <3>1. /\ ref # Unknown /\ ref.kind = "array" /\ ~array.heuristic
          /\ array.size >= 0 => /\ f.objects = [n \in 1..array.size |-> array.values[n - 1]]
                                /\ \A n \in 0..(array.size - 1) : n \in DOMAIN array.values
      BY <2>3, <2>7 DEF Found
    <3>2. held[i.src[2]] = ref /\ Holds(array, heap[ref.value])
      BY <2>4, <2>5, <3>1 DEF Agrees
    <3> DEFINE contents == heap[ref.value]
    <3> HIDE DEF ref, array
    <3>3. PICK S : contents \in Seq(S)
      BY <3>1, <3>2 DEF Holds
    <3>4. /\ Len(contents) = array.size
          /\ \A n \in DOMAIN array.values : n \in 0..(array.size - 1) /\ contents[n + 1] = array.values[n]
      BY <3>1, <3>2 DEF Holds
    <3> HIDE DEF contents
    <3>5. Len(contents) \in Nat /\ contents = [n \in 1..Len(contents) |-> contents[n]]
      BY <3>3
    <3>6. ASSUME NEW n \in 1..array.size PROVE contents[n] = array.values[n - 1]
      <4>1. n - 1 \in DOMAIN array.values /\ (n - 1) + 1 = n
        BY <3>1, <3>4, <3>5
      <4>2. QED
        BY <3>4, <4>1
    <3>7. contents = f.objects
      BY <3>1, <3>4, <3>5, <3>6
    <3>8. QED
      BY <3>1, <3>2, <3>7 DEF contents
  <2>8. QED
    BY <2>6, <2>7
<1>2. QED
  BY <1>1, LiteInvariant, PTL

-----------------------------------------------------------------------------
(* ProtoNames.                                                             *)

\* Names of any words and forms.
Spelled(W, F) == [words : W, form : F, numbers : Seq(Nat)]

(* What is done to a name gives a name; different suffixes give different  *)
(* ones, which do not fold together either.                                *)
LEMMA Spelling ==
  ASSUME NEW W, NEW F, "plain" \in F, NEW name \in Spelled(W, F)
  PROVE  /\ Clean(name) \in Spelled(W, F)
         /\ \A n \in Nat : Suffixed(name, n) \in Spelled(W, F)
         /\ \A m, n \in Nat : Suffixed(name, m) = Suffixed(name, n) => m = n
         /\ \A m, n \in Nat : FoldKey(Suffixed(name, m)) = FoldKey(Suffixed(name, n)) => m = n
<1>1. Clean(name) \in Spelled(W, F)
  BY DEF Clean, Spelled
<1>2. name.numbers \in Seq(Nat) /\ \A n \in Nat : Append(name.numbers, n) \in Seq(Nat)
  BY DEF Spelled
<1>3. \A n \in Nat : Suffixed(name, n) \in Spelled(W, F) /\ Suffixed(name, n).numbers = Append(name.numbers, n)
  BY <1>2 DEF Suffixed, Spelled
<1>4. \A n \in Nat : FoldKey(Suffixed(name, n)).numbers = Append(name.numbers, n)
  BY <1>3 DEF FoldKey, Spelled
<1>5. ASSUME NEW m \in Nat, NEW n \in Nat, Append(name.numbers, m) = Append(name.numbers, n) PROVE m = n
  <2>1. Append(name.numbers, m)[Len(name.numbers) + 1] = m /\ Append(name.numbers, n)[Len(name.numbers) + 1] = n
    BY <1>2
  <2>2. QED
    BY <1>5, <2>1
<1>6. QED
  BY <1>1, <1>3, <1>4, <1>5

(* A suffix is found: as many are tried as names could be in the way, and  *)
(* one more.                                                               *)
LEMMA FirstFreeIs ==
  ASSUME NEW W, NEW F, "plain" \in F, NEW name \in Spelled(W, F),
         NEW used, IsFiniteSet(used), NEW folds, IsFiniteSet(folds)
  PROVE  /\ FirstFree(name, used, folds) \in {Suffixed(name, n) : n \in Nat \ {0, 1}}
         /\ FirstFree(name, used, folds) \notin used
         /\ FoldKey(FirstFree(name, used, folds)) \notin folds
<1> DEFINE Unused(n) == Suffixed(name, n) \notin used /\ FoldKey(Suffixed(name, n)) \notin folds
           N == Cardinality(used) + Cardinality(folds) + 2
           Least(n) == Unused(n) /\ \A m \in 2..(n - 1) : ~Unused(m)
<1>1. Cardinality(used) \in Nat /\ Cardinality(folds) \in Nat /\ N \in Nat
  BY FS_CardinalityType
<1>2. \E n \in 2..N : Unused(n)
  <2>1. SUFFICES ASSUME \A n \in 2..N : ~Unused(n) PROVE FALSE
    OBVIOUS
  <2> DEFINE A == {n \in 2..N : Suffixed(name, n) \in used}
             B == {n \in 2..N : FoldKey(Suffixed(name, n)) \in folds}
             f == [n \in A |-> Suffixed(name, n)]
             g == [n \in B |-> FoldKey(Suffixed(name, n))]
  <2>2. A \cup B = 2..N
    BY <2>1
  <2>3. f \in Injection(A, used)
    BY <1>1, Spelling DEF Injection, IsInjective
  <2>4. g \in Injection(B, folds)
    BY <1>1, Spelling DEF Injection, IsInjective
  <2>5. IsFiniteSet(A) /\ Cardinality(A) <= Cardinality(used)
    <3> HIDE DEF A, f
    <3>1. QED
      BY <2>3, FS_Injection
  <2>6. IsFiniteSet(B) /\ Cardinality(B) <= Cardinality(folds)
    <3> HIDE DEF B, g
    <3>1. QED
      BY <2>4, FS_Injection
  <2>7. Cardinality(A \cup B) = Cardinality(A) + Cardinality(B) - Cardinality(A \cap B)
    <3> HIDE DEF A, B
    <3>1. QED
      BY <2>5, <2>6, FS_Union
  <2>8. Cardinality(2..N) = N - 1
    BY <1>1, FS_Interval
  <2>9. Cardinality(A) \in Nat /\ Cardinality(B) \in Nat /\ Cardinality(A \cap B) \in Nat
    <3>1. IsFiniteSet(A \cap B)
      <4> HIDE DEF A, B
      <4>1. A \cap B \in SUBSET A
        OBVIOUS
      <4>2. QED
        BY <2>5, <4>1, FS_Subset
    <3> HIDE DEF A, B
    <3>2. QED
      BY <2>5, <2>6, <3>1, FS_CardinalityType
  <2>10. Cardinality(A \cup B) = Cardinality(used) + Cardinality(folds) + 1
    <3>1. Cardinality(A \cup B) = N - 1
      BY <2>2, <2>8
    <3> HIDE DEF A, B
    <3>2. QED
      BY <1>1, <3>1
  <2> HIDE DEF A, B, N
  <2>11. QED
    BY <1>1, <2>5, <2>6, <2>7, <2>9, <2>10
<1>3. \E n \in 2..N : Least(n)
  <2> DEFINE S == {n \in 2..N : Unused(n)}
  <2>1. S \in SUBSET Nat /\ S # {}
    BY <1>1, <1>2
  <2>2. PICK n \in S : \A m \in S : n <= m
    <3> HIDE DEF S
    <3>1. QED
      BY <2>1, LeastNumber
  <2>3. \A m \in 2..(n - 1) : m \in 2..N /\ ~(n <= m)
    BY <1>1, <2>2
  <2>4. QED
    BY <2>2, <2>3
<1>4. PICK n \in 2..N : Least(n) /\ FirstFree(name, used, folds) = Suffixed(name, n)
  <2> DEFINE n == CHOOSE n \in 2..N : Least(n)
  <2>1. n \in 2..N /\ Least(n)
    BY <1>3
  <2>2. FirstFree(name, used, folds) = Suffixed(name, n)
    BY DEF FirstFree
  <2> HIDE DEF n
  <2>3. QED
    BY <2>1, <2>2
<1>5. n \in Nat \ {0, 1}
  BY <1>1
<1>6. QED
  BY <1>4, <1>5

(* The names of a sequence are finitely many, also with those reserved.    *)
LEMMA FiniteNames ==
  ASSUME NEW X, NEW s \in Seq(X)
  PROVE  /\ IsFiniteSet(ToSet(s)) /\ ToSet(s) \subseteq X
         /\ \A reserved : IsFiniteSet(reserved) => IsFiniteSet(reserved \union ToSet(s))
<1>1. s \in Surjection(1..Len(s), ToSet(s)) /\ Len(s) \in Nat /\ ToSet(s) \subseteq X
  BY DEF Surjection, ToSet
<1>2. IsFiniteSet(1..Len(s))
  BY <1>1, FS_Interval
<1>3. IsFiniteSet(ToSet(s))
  BY <1>1, <1>2, FS_Surjection
<1>4. QED
  BY <1>1, <1>3, FS_Union

(* What a sequence has that is put together from two. *)
LEMMA Joining ==
  ASSUME NEW V, NEW first \in Seq(V), NEW rest \in Seq(V)
  PROVE  /\ first \o rest \in Seq(V) /\ Len(first \o rest) = Len(first) + Len(rest)
         /\ DOMAIN (first \o rest) = 1..(Len(first) + Len(rest))
         /\ \A k \in 1..Len(first) : k \in DOMAIN (first \o rest) /\ (first \o rest)[k] = first[k]
         /\ \A k \in 1..Len(rest) :
              Len(first) + k \in DOMAIN (first \o rest) /\ (first \o rest)[Len(first) + k] = rest[k]
         /\ \A k \in DOMAIN (first \o rest) : k \in 1..Len(first) \/ \E j \in 1..Len(rest) : k = Len(first) + j
<1> DEFINE both == first \o rest
<1>1. /\ both \in Seq(V) /\ Len(both) = Len(first) + Len(rest)
      /\ \A k \in 1..(Len(first) + Len(rest)) : both[k] = IF k <= Len(first) THEN first[k] ELSE rest[k - Len(first)]
  BY ConcatProperties
<1>2. Len(first) \in Nat /\ Len(rest) \in Nat
  BY LenProperties
<1> HIDE DEF both
<1>3. DOMAIN both = 1..(Len(first) + Len(rest))
  BY <1>1, LenProperties
<1>4. ASSUME NEW k \in 1..Len(first) PROVE k \in DOMAIN both /\ both[k] = first[k]
  <2>1. k \in 1..(Len(first) + Len(rest)) /\ k <= Len(first)
    BY <1>2
  <2>2. QED
    BY <1>1, <1>3, <2>1
<1>5. ASSUME NEW k \in 1..Len(rest) PROVE Len(first) + k \in DOMAIN both /\ both[Len(first) + k] = rest[k]
  <2>1. /\ Len(first) + k \in 1..(Len(first) + Len(rest)) /\ ~(Len(first) + k <= Len(first))
        /\ Len(first) + k - Len(first) = k
    BY <1>2
  <2>2. QED
    BY <1>1, <1>3, <2>1
<1>6. ASSUME NEW k \in DOMAIN both PROVE k \in 1..Len(first) \/ \E j \in 1..Len(rest) : k = Len(first) + j
  <2>1. CASE k <= Len(first)
    BY <1>2, <1>3, <2>1
  <2>2. CASE ~(k <= Len(first))
    <3>1. k - Len(first) \in 1..Len(rest) /\ k = Len(first) + (k - Len(first))
      BY <1>2, <1>3, <2>2
    <3>2. QED
      BY <3>1
  <2>3. QED
    BY <2>1, <2>2
<1>7. QED
  BY <1>1, <1>3, <1>4, <1>5, <1>6 DEF both

(* One more name: the value's own, if it is not used, or one with a        *)
(* suffix.                                                                 *)
LEMMA NamedIs ==
  ASSUME NEW W, NEW F, "plain" \in F, NEW value \in Spelled(W, F), NEW used, IsFiniteSet(used)
  PROVE  /\ Named(value, used) \in Spelled(W, F) \ used
         /\ \/ Named(value, used) = Clean(value)
            \/ Clean(value) \in used /\ Named(value, used) \in {Suffixed(Clean(value), n) : n \in Nat \ {0, 1}}
<1>1. Clean(value) \in Spelled(W, F)
  BY Spelling
<1>2. CASE Clean(value) \notin used
  BY <1>1, <1>2 DEF Named
<1>3. CASE Clean(value) \in used
  <2>1. Named(value, used) = FirstFree(Clean(value), used, {})
    BY <1>3 DEF Named
  <2>2. /\ FirstFree(Clean(value), used, {}) \in {Suffixed(Clean(value), n) : n \in Nat \ {0, 1}}
        /\ FirstFree(Clean(value), used, {}) \notin used
    BY <1>1, FirstFreeIs, FS_EmptySet
  <2>3. {Suffixed(Clean(value), n) : n \in Nat \ {0, 1}} \subseteq Spelled(W, F)
    BY <1>1, Spelling
  <2>4. QED
    BY <1>3, <2>1, <2>2, <2>3
<1>4. QED
  BY <1>2, <1>3

(* The loop of _unique_names runs, a value at a time. *)
LEMMA UniqueLoop ==
  ASSUME NEW W, NEW F, "plain" \in F, NEW values \in Seq(Spelled(W, F)), NEW reserved, IsFiniteSet(reserved)
  PROVE  \E f : /\ f \in [0..Len(values) -> Seq(Spelled(W, F))]
                /\ f[0] = <<>>
                /\ \A n \in 1..Len(values) :
                     f[n] = Append(f[n - 1], Named(values[n], reserved \union ToSet(f[n - 1])))
                /\ UniqueNames(values, reserved) = f[Len(values)]
<1> DEFINE N == Len(values)
           X == Seq(Spelled(W, F))
           After(x, n) == Append(x, Named(values[n], reserved \union ToSet(x)))
           step == [n \in 1..N |-> [x \in X |-> After(x, n)]]
           Runs(f) == f = [n \in 0..N |-> IF n = 0 THEN <<>> ELSE After(f[n - 1], n)]
<1>1. N \in Nat /\ <<>> \in X
  OBVIOUS
<1>2. \A n \in 1..N : \A x \in X : After(x, n) \in X
  <2>1. SUFFICES ASSUME NEW n \in 1..N, NEW x \in X PROVE After(x, n) \in X
    OBVIOUS
  <2>2. Named(values[n], reserved \union ToSet(x)) \in Spelled(W, F)
    BY NamedIs, FiniteNames
  <2>3. QED
    BY <2>2
<1>3. PICK f : LoopRun(f, N, X, <<>>, step)
  <2>1. \A n \in 1..N : \A x \in X : step[n][x] \in X
    BY <1>2
  <2> HIDE DEF step, N, X
  <2>2. QED
    BY <1>1, <2>1, LoopRuns
<1>4. f \in [0..N -> X] /\ f[0] = <<>> /\ \A n \in 1..N : f[n] = After(f[n - 1], n)
  <2>1. ASSUME NEW n \in 1..N PROVE f[n] = After(f[n - 1], n)
    <3>1. n - 1 \in 0..N
      BY <1>1
    <3>2. f[n - 1] \in X
      BY <1>3, <3>1 DEF LoopRun
    <3> HIDE DEF X, After
    <3>3. QED
      BY <1>3, <3>2 DEF LoopRun
  <2>2. QED
    BY <1>3, <2>1 DEF LoopRun
<1>5. Runs(f)
  <2>1. \A n \in 0..N : n = 0 \/ n \in 1..N
    BY <1>1
  <2> HIDE DEF N, X, After
  <2>2. QED
    BY <1>4, <2>1
<1>6. Runs(CHOOSE g : Runs(g))
  <2> HIDE DEF Runs
  <2>1. QED
    BY <1>5
<1>7. f = CHOOSE g : Runs(g)
  <2> DEFINE g == CHOOSE g : Runs(g)
             S == {n \in 0..N : f[n] = g[n]}
  <2>1. ASSUME NEW h, Runs(h)
        PROVE  /\ h = [n \in 0..N |-> h[n]] /\ h[0] = <<>>
               /\ \A n \in 1..N : h[n] = After(h[n - 1], n)
    <3>1. 0 \in 0..N /\ \A n \in 1..N : n \in 0..N /\ n # 0
      BY <1>1
    <3> HIDE DEF After, N
    <3>2. h = [n \in 0..N |-> h[n]]
      BY <2>1, Zenon
    <3>3. QED
      BY <2>1, <3>1, <3>2
  <2> HIDE DEF Runs, g, After, N
  <2>2. Runs(g)
    BY <1>6 DEF g
  <2>3. 0 \in S /\ \A n \in 1..N : n - 1 \in S => n \in S
    BY <1>1, <1>5, <2>1, <2>2
  <2>4. \A n \in 0..N : n \in S
    <3> HIDE DEF S
    <3>1. QED
      BY <1>1, <2>3, Induction
  <2>5. f = g
    <3>1. f = [n \in 0..N |-> f[n]] /\ g = [n \in 0..N |-> g[n]]
      BY <1>5, <2>1, <2>2
    <3>2. [n \in 0..N |-> f[n]] = [n \in 0..N |-> g[n]]
      BY <2>4
    <3> HIDE DEF S
    <3>3. QED
      BY <3>1, <3>2
  <2>6. QED
    BY <2>5 DEF g
<1>8. UniqueNames(values, reserved) = f[N]
  BY <1>7 DEF UniqueNames
<1>9. QED
  BY <1>4, <1>8

\* The first k names are each other's, and none is reserved; a value has its
\* own name, unless that was reserved or given before.
UniqueTo(names, values, reserved, k) ==
  /\ Len(names) = k
  /\ \A i, j \in 1..k : names[i] = names[j] => i = j
  /\ \A j \in 1..k :
       /\ names[j] \notin reserved
       /\ \/ names[j] = Clean(values[j])
          \/ /\ Clean(values[j]) \in reserved \union {names[i] : i \in 1..(j - 1)}
             /\ names[j] \in {Suffixed(Clean(values[j]), n) : n \in Nat \ {0, 1}}

(* One more name keeps them so. *)
LEMMA UniqueStep ==
  ASSUME NEW X, NEW names \in Seq(X), NEW values, NEW reserved, NEW n \in Nat \ {0}, NEW x \in X,
         UniqueTo(names, values, reserved, n - 1),
         x \notin reserved \union ToSet(names),
         \/ x = Clean(values[n])
         \/ /\ Clean(values[n]) \in reserved \union ToSet(names)
            /\ x \in {Suffixed(Clean(values[n]), m) : m \in Nat \ {0, 1}}
  PROVE  UniqueTo(Append(names, x), values, reserved, n)
<1> DEFINE more == Append(names, x)
<1>1. /\ Len(names) = n - 1 /\ Len(more) = n /\ more[n] = x
      /\ \A j \in 1..(n - 1) : more[j] = names[j]
      /\ 1..n = (1..(n - 1)) \union {n} /\ n \notin 1..(n - 1)
  BY DEF UniqueTo
<1>2. ToSet(names) = {names[i] : i \in 1..(n - 1)} /\ ToSet(names) = {more[i] : i \in 1..(n - 1)}
  BY <1>1 DEF ToSet
<1>3. \A i \in 1..(n - 1) : more[i] # x
  BY <1>1, <1>2
<1>4. \A i, j \in 1..n : more[i] = more[j] => i = j
  <2> HIDE DEF more
  <2>1. QED
    BY <1>1, <1>3 DEF UniqueTo
<1>5. ASSUME NEW j \in 1..(n - 1)
      PROVE  {more[i] : i \in 1..(j - 1)} = {names[i] : i \in 1..(j - 1)}
  <2>1. \A i \in 1..(j - 1) : more[i] = names[i]
    BY <1>1
  <2> HIDE DEF more
  <2>2. QED
    BY <2>1
<1>6. ASSUME NEW j \in 1..n
      PROVE  /\ more[j] \notin reserved
             /\ \/ more[j] = Clean(values[j])
                \/ /\ Clean(values[j]) \in reserved \union {more[i] : i \in 1..(j - 1)}
                   /\ more[j] \in {Suffixed(Clean(values[j]), m) : m \in Nat \ {0, 1}}
  <2>1. CASE j = n
    <3> HIDE DEF more
    <3>1. QED
      BY <1>1, <1>2, <2>1
  <2>2. CASE j \in 1..(n - 1)
    <3>1. more[j] = names[j]
      BY <1>1, <2>2
    <3> HIDE DEF more
    <3>2. QED
      BY <1>5, <2>2, <3>1 DEF UniqueTo
  <2>3. QED
    BY <1>1, <2>1, <2>2
<1> HIDE DEF more
<1>7. UniqueTo(more, values, reserved, n)
  BY <1>1, <1>4, <1>6 DEF UniqueTo
<1>8. QED
  BY <1>7 DEF more

(* What _unique_names is asked for it gives: as many names as values, all  *)
(* different and none of them reserved, whatever the values are cleaned to *)
(* and whichever suffixes others have already; and a value keeps its name  *)
(* if it can (_unique_names).                                              *)
THEOREM UniqueNamesDiffer ==
  ASSUME NEW W, NEW F, "plain" \in F, NEW values \in Seq(Spelled(W, F)), NEW reserved, IsFiniteSet(reserved)
  PROVE  LET names == UniqueNames(values, reserved) IN
         /\ names \in Seq(Spelled(W, F)) /\ Len(names) = Len(values)
         /\ IsInjective(names)
         /\ ToSet(names) \intersect reserved = {}
         /\ \A k \in DOMAIN values :
              \/ names[k] = Clean(values[k])
              \/ /\ Clean(values[k]) \in reserved \union {names[i] : i \in 1..(k - 1)}
                 /\ names[k] \in {Suffixed(Clean(values[k]), n) : n \in Nat \ {0, 1}}
<1> DEFINE N == Len(values)
           X == Seq(Spelled(W, F))
<1>1. PICK f : /\ f \in [0..N -> X]
               /\ f[0] = <<>>
               /\ \A n \in 1..N : f[n] = Append(f[n - 1], Named(values[n], reserved \union ToSet(f[n - 1])))
               /\ UniqueNames(values, reserved) = f[N]
  BY UniqueLoop
<1>2. N \in Nat /\ \A n \in 1..N : n - 1 \in 0..N /\ n \in Nat \ {0} /\ values[n] \in Spelled(W, F)
  OBVIOUS
<1> DEFINE S == {n \in 0..N : UniqueTo(f[n], values, reserved, n)}
<1>3. 0 \in S
  BY <1>1, <1>2 DEF UniqueTo
<1>4. ASSUME NEW n \in 1..N, n - 1 \in S PROVE n \in S
  <2> DEFINE used == reserved \union ToSet(f[n - 1])
             x == Named(values[n], used)
  <2>1. f[n - 1] \in X /\ UniqueTo(f[n - 1], values, reserved, n - 1) /\ f[n] = Append(f[n - 1], x)
    BY <1>1, <1>2, <1>4
  <2>2. IsFiniteSet(used)
    BY <2>1, FiniteNames
  <2>3. /\ x \in Spelled(W, F) /\ x \notin used
        /\ \/ x = Clean(values[n])
           \/ /\ Clean(values[n]) \in used
              /\ x \in {Suffixed(Clean(values[n]), m) : m \in Nat \ {0, 1}}
    <3> HIDE DEF used
    <3>1. QED
      BY <1>2, <2>2, NamedIs
  <2> HIDE DEF x
  <2>4. UniqueTo(f[n], values, reserved, n)
    BY <1>2, <2>1, <2>3, UniqueStep
  <2>5. QED
    BY <2>4
<1>5. N \in S
  <2> HIDE DEF S
  <2>1. \A n \in 0..N : n \in S
    BY <1>2, <1>3, <1>4, Induction
  <2>2. QED
    BY <1>2, <2>1
<1>6. f[N] \in X /\ UniqueTo(f[N], values, reserved, N)
  BY <1>1, <1>2, <1>5
<1>7. DOMAIN f[N] = 1..N /\ DOMAIN values = 1..N
  BY <1>2, <1>6 DEF UniqueTo
<1>8. IsInjective(f[N])
  BY <1>6, <1>7 DEF UniqueTo, IsInjective
<1>9. ToSet(f[N]) \intersect reserved = {}
  BY <1>6, <1>7 DEF UniqueTo, ToSet
<1>10. Len(f[N]) = N
  BY <1>6 DEF UniqueTo
<1>11. ASSUME NEW k \in 1..N
       PROVE  \/ f[N][k] = Clean(values[k])
              \/ /\ Clean(values[k]) \in reserved \union {f[N][i] : i \in 1..(k - 1)}
                 /\ f[N][k] \in {Suffixed(Clean(values[k]), n) : n \in Nat \ {0, 1}}
  BY <1>6 DEF UniqueTo
<1>12. QED
  BY <1>1, <1>6, <1>7, <1>8, <1>9, <1>10, <1>11

(* The types of a scope, messages and enums, have one name each            *)
(* (_declaration_names).                                                   *)
THEOREM DeclarationsDiffer ==
  ASSUME NEW W, NEW F, "plain" \in F, NEW messages, NEW enums,
         NamesOf(messages) \in Seq(Spelled(W, F)), NamesOf(enums) \in Seq(Spelled(W, F)),
         Len(NamesOf(messages)) = Len(messages), Len(NamesOf(enums)) = Len(enums)
  PROVE  LET names == DeclarationNames(messages, enums) IN
         /\ Len(names.messages) = Len(messages) /\ Len(names.enums) = Len(enums)
         /\ IsInjective(names.messages \o names.enums)
<1> DEFINE values == NamesOf(messages) \o NamesOf(enums)
           all == UniqueNames(values, {})
           first == SubSeq(all, 1, Len(messages))
           second == SubSeq(all, Len(messages) + 1, Len(all))
<1>1. values \in Seq(Spelled(W, F)) /\ Len(values) = Len(messages) + Len(enums)
      /\ Len(messages) \in Nat /\ Len(enums) \in Nat
  BY LenProperties
<1>2. all \in Seq(Spelled(W, F)) /\ Len(all) = Len(messages) + Len(enums) /\ IsInjective(all)
  <2> HIDE DEF values
  <2>1. QED
    BY <1>1, UniqueNamesDiffer, FS_EmptySet
<1> HIDE DEF all
<1>3. /\ first \in Seq(Spelled(W, F)) /\ second \in Seq(Spelled(W, F))
      /\ Len(first) = Len(messages) /\ Len(second) = Len(enums)
      /\ \A k \in 1..Len(messages) : first[k] = all[k]
      /\ \A k \in 1..Len(enums) : second[k] = all[Len(messages) + k]
  BY <1>1, <1>2
<1> HIDE DEF first, second
<1>4. first \o second = all
  <2>1. first \o second = SubSeq(all, 1, Len(all))
    <3>1. 1 \in 1..(Len(all) + 1) /\ Len(messages) \in (1 - 1)..Len(all) /\ Len(all) \in Len(messages)..Len(all)
      BY <1>1, <1>2
    <3>2. SubSeq(all, 1, Len(messages)) \o SubSeq(all, Len(messages) + 1, Len(all)) = SubSeq(all, 1, Len(all))
      BY <1>2, <3>1, ConcatAdjacentSubSeq
    <3>3. QED
      BY <3>2 DEF first, second
  <2>2. SubSeq(all, 1, Len(all)) = all
    BY <1>2
  <2>3. QED
    BY <2>1, <2>2
<1>5. DeclarationNames(messages, enums) = [messages |-> first, enums |-> second]
  BY DEF DeclarationNames, all, first, second
<1>6. /\ DeclarationNames(messages, enums).messages = first
      /\ DeclarationNames(messages, enums).enums = second
  BY <1>5
<1>7. IsInjective(first \o second)
  BY <1>2, <1>4
<1>8. QED
  BY <1>3, <1>6, <1>7

(* The fields and the oneofs of a message have one name each               *)
(* (_message_body).                                                        *)
THEOREM MembersDiffer ==
  ASSUME NEW W, NEW F, "plain" \in F, NEW fields \in Seq(Spelled(W, F)), NEW oneofs \in Seq(Spelled(W, F))
  PROVE  /\ Len(MemberNames(fields, oneofs)) = Len(fields) + Len(oneofs)
         /\ IsInjective(MemberNames(fields, oneofs))
<1> DEFINE names == UniqueNames(fields, {})
           others == UniqueNames(oneofs, ToSet(names))
<1>1. names \in Seq(Spelled(W, F)) /\ Len(names) = Len(fields) /\ IsInjective(names)
  BY UniqueNamesDiffer, FS_EmptySet
<1>2. IsFiniteSet(ToSet(names))
  BY <1>1, FiniteNames
<1>3. /\ others \in Seq(Spelled(W, F)) /\ Len(others) = Len(oneofs) /\ IsInjective(others)
      /\ ToSet(others) \intersect ToSet(names) = {}
  BY <1>2, UniqueNamesDiffer
<1>4. MemberNames(fields, oneofs) = names \o others
  BY DEF MemberNames
<1> HIDE DEF names, others
<1> DEFINE both == names \o others
<1>5. /\ Len(both) = Len(names) + Len(others)
      /\ \A k \in 1..Len(names) : both[k] = names[k]
      /\ \A k \in 1..Len(others) : both[Len(names) + k] = others[k]
      /\ \A k \in DOMAIN both : k \in 1..Len(names) \/ \E j \in 1..Len(others) : k = Len(names) + j
  <2>1. names \in Seq(Spelled(W, F)) /\ others \in Seq(Spelled(W, F))
    BY <1>1, <1>3
  <2>2. /\ both \in Seq(Spelled(W, F)) /\ Len(both) = Len(names) + Len(others)
        /\ DOMAIN both = 1..(Len(names) + Len(others))
        /\ \A k \in 1..Len(names) : k \in DOMAIN both /\ both[k] = names[k]
        /\ \A k \in 1..Len(others) : Len(names) + k \in DOMAIN both /\ both[Len(names) + k] = others[k]
        /\ \A k \in DOMAIN both : k \in 1..Len(names) \/ \E j \in 1..Len(others) : k = Len(names) + j
    BY <2>1, Joining
  <2> HIDE DEF both
  <2>3. QED
    BY <2>2
<1> HIDE DEF both
<1>6. DOMAIN names = 1..Len(names) /\ DOMAIN others = 1..Len(others)
  BY <1>1, <1>3
<1>7. ASSUME NEW i \in 1..Len(names), NEW j \in 1..Len(others) PROVE names[i] # others[j]
  BY <1>1, <1>3 DEF ToSet
<1>8. IsInjective(both)
  <2>1. SUFFICES ASSUME NEW k \in DOMAIN both, NEW l \in DOMAIN both, both[k] = both[l] PROVE k = l
    BY DEF IsInjective
  <2>2. CASE k \in 1..Len(names) /\ l \in 1..Len(names)
    BY <1>1, <1>5, <1>6, <2>1, <2>2 DEF IsInjective
  <2>3. CASE k \in 1..Len(names) /\ \E j \in 1..Len(others) : l = Len(names) + j
    BY <1>5, <1>7, <2>1, <2>3
  <2>4. CASE l \in 1..Len(names) /\ \E j \in 1..Len(others) : k = Len(names) + j
    BY <1>5, <1>7, <2>1, <2>4
  <2>5. CASE (\E i \in 1..Len(others) : k = Len(names) + i) /\ (\E j \in 1..Len(others) : l = Len(names) + j)
    <3>1. PICK i \in 1..Len(others), j \in 1..Len(others) : k = Len(names) + i /\ l = Len(names) + j
      BY <2>5
    <3>2. others[i] = others[j]
      BY <1>5, <2>1, <3>1
    <3>3. i = j
      BY <1>3, <1>6, <3>2 DEF IsInjective
    <3>4. QED
      BY <3>1, <3>3
  <2>6. QED
    BY <1>5, <2>2, <2>3, <2>4, <2>5
<1>9. QED
  BY <1>1, <1>3, <1>4, <1>5, <1>8 DEF both

(* One more value: under its own name, if those that fold to the same have *)
(* its number, or with a suffix that makes it fold to none of them.        *)
LEMMA UnfoldedIs ==
  ASSUME NEW W, NEW F, "plain" \in F, NEW names \in Seq(Spelled(W, F)), NEW numbers,
         NEW name \in Spelled(W, F), NEW number, NEW reserved, IsFiniteSet(reserved)
  PROVE  LET x == Unfolded(names, numbers, name, number, reserved) IN
         /\ x \in Spelled(W, F)
         /\ x = name \/ x \in {Suffixed(name, n) : n \in Nat \ {0, 1}} \ reserved
         /\ \A k \in DOMAIN names : FoldKey(names[k]) = FoldKey(x) => numbers[k] = number
<1> DEFINE folds == {FoldKey(names[k]) : k \in DOMAIN names}
           x == Unfolded(names, numbers, name, number, reserved)
<1>1. IsFiniteSet(folds)
  <2> DEFINE f == [k \in 1..Len(names) |-> FoldKey(names[k])]
  <2>1. f \in Surjection(1..Len(names), folds)
    BY DEF Surjection
  <2>2. IsFiniteSet(1..Len(names))
    BY FS_Interval, Len(names) \in Nat
  <2> HIDE DEF f, folds
  <2>3. QED
    BY <2>1, <2>2, FS_Surjection
<1>2. CASE \A k \in Alike(names, name) : numbers[k] = number
  <2>1. x = name
    BY <1>2 DEF Unfolded
  <2>2. QED
    BY <1>2, <2>1 DEF Alike
<1>3. CASE ~(\A k \in Alike(names, name) : numbers[k] = number)
  <2>1. x = FirstFree(name, reserved, folds)
    BY <1>3 DEF Unfolded
  <2>2. x \in {Suffixed(name, n) : n \in Nat \ {0, 1}} /\ x \notin reserved /\ FoldKey(x) \notin folds
    <3> HIDE DEF folds, x
    <3>1. QED
      BY <1>1, <2>1, FirstFreeIs
  <2>3. {Suffixed(name, n) : n \in Nat \ {0, 1}} \subseteq Spelled(W, F)
    <3>1. \A n \in Nat : Suffixed(name, n) \in Spelled(W, F)
      BY Spelling
    <3> HIDE DEF folds, x
    <3>2. QED
      BY <3>1
  <2>4. QED
    BY <2>2, <2>3
<1>4. QED
  BY <1>2, <1>3

DefoldRun(f, X, given, numbers, reserved) ==
  /\ f \in [0..Len(given) -> X]
  /\ f[0] = <<>>
  /\ \A n \in 1..Len(given) :
       f[n] = Append(f[n - 1], Unfolded(f[n - 1], numbers, given[n], numbers[n], reserved))
  /\ Defold(given, numbers, reserved) = f[Len(given)]

(* The loop of _defold_enum_values runs, a value at a time. *)
LEMMA DefoldLoop ==
  ASSUME NEW W, NEW F, "plain" \in F, NEW given \in Seq(Spelled(W, F)), NEW numbers, NEW reserved, IsFiniteSet(reserved)
  PROVE  \E f : DefoldRun(f, Seq(Spelled(W, F)), given, numbers, reserved)
<1> DEFINE N == Len(given)
           X == Seq(Spelled(W, F))
           After(x, n) == Append(x, Unfolded(x, numbers, given[n], numbers[n], reserved))
           step == [n \in 1..N |-> [x \in X |-> After(x, n)]]
           Runs(f) == f = [n \in 0..N |-> IF n = 0 THEN <<>> ELSE After(f[n - 1], n)]
<1>1. N \in Nat /\ <<>> \in X
  OBVIOUS
<1>2. \A n \in 1..N : \A x \in X : After(x, n) \in X
  <2>1. SUFFICES ASSUME NEW n \in 1..N, NEW x \in X PROVE After(x, n) \in X
    OBVIOUS
  <2>2. Unfolded(x, numbers, given[n], numbers[n], reserved) \in Spelled(W, F)
    BY UnfoldedIs
  <2>3. QED
    BY <2>2
<1>3. PICK f : LoopRun(f, N, X, <<>>, step)
  <2>1. \A n \in 1..N : \A x \in X : step[n][x] \in X
    BY <1>2
  <2> HIDE DEF step, N, X
  <2>2. QED
    BY <1>1, <2>1, LoopRuns
<1>4. f \in [0..N -> X] /\ f[0] = <<>> /\ \A n \in 1..N : f[n] = After(f[n - 1], n)
  <2>1. ASSUME NEW n \in 1..N PROVE f[n] = After(f[n - 1], n)
    <3>1. n - 1 \in 0..N
      BY <1>1
    <3>2. f[n - 1] \in X
      BY <1>3, <3>1 DEF LoopRun
    <3> HIDE DEF X, After
    <3>3. QED
      BY <1>3, <3>2 DEF LoopRun
  <2>2. QED
    BY <1>3, <2>1 DEF LoopRun
<1>5. Runs(f)
  <2>1. \A n \in 0..N : n = 0 \/ n \in 1..N
    BY <1>1
  <2> HIDE DEF N, X, After
  <2>2. QED
    BY <1>4, <2>1
<1>6. Runs(CHOOSE g : Runs(g))
  <2> HIDE DEF Runs
  <2>1. QED
    BY <1>5
<1>7. f = CHOOSE g : Runs(g)
  <2> DEFINE g == CHOOSE g : Runs(g)
             S == {n \in 0..N : f[n] = g[n]}
  <2>1. ASSUME NEW h, Runs(h)
        PROVE  /\ h = [n \in 0..N |-> h[n]] /\ h[0] = <<>>
               /\ \A n \in 1..N : h[n] = After(h[n - 1], n)
    <3>1. 0 \in 0..N /\ \A n \in 1..N : n \in 0..N /\ n # 0
      BY <1>1
    <3> HIDE DEF After, N
    <3>2. h = [n \in 0..N |-> h[n]]
      BY <2>1, Zenon
    <3>3. QED
      BY <2>1, <3>1, <3>2
  <2> HIDE DEF Runs, g, After, N
  <2>2. Runs(g)
    BY <1>6 DEF g
  <2>3. 0 \in S /\ \A n \in 1..N : n - 1 \in S => n \in S
    BY <1>1, <1>5, <2>1, <2>2
  <2>4. \A n \in 0..N : n \in S
    <3> HIDE DEF S
    <3>1. QED
      BY <1>1, <2>3, Induction
  <2>5. f = g
    <3>1. f = [n \in 0..N |-> f[n]] /\ g = [n \in 0..N |-> g[n]]
      BY <1>5, <2>1, <2>2
    <3>2. [n \in 0..N |-> f[n]] = [n \in 0..N |-> g[n]]
      BY <2>4
    <3> HIDE DEF S
    <3>3. QED
      BY <3>1, <3>2
  <2>6. QED
    BY <2>5 DEF g
<1>8. Defold(given, numbers, reserved) = f[N]
  BY <1>7 DEF Defold
<1>9. DefoldRun(f, X, given, numbers, reserved)
  BY <1>4, <1>8 DEF DefoldRun
<1>10. QED
  BY <1>9

\* Of the first k names none is reserved, and those that fold together have
\* one number.
FoldedTo(names, given, numbers, reserved, k) ==
  /\ Len(names) = k
  /\ \A i, j \in 1..k : FoldKey(names[i]) = FoldKey(names[j]) => numbers[i] = numbers[j]
  /\ \A j \in 1..k :
       /\ names[j] \notin reserved
       /\ names[j] = given[j] \/ names[j] \in {Suffixed(given[j], n) : n \in Nat \ {0, 1}}

(* One more name keeps them so. *)
LEMMA FoldedStep ==
  ASSUME NEW X, NEW names \in Seq(X), NEW given, NEW numbers, NEW reserved, NEW n \in Nat \ {0}, NEW x \in X,
         FoldedTo(names, given, numbers, reserved, n - 1),
         x \notin reserved,
         x = given[n] \/ x \in {Suffixed(given[n], m) : m \in Nat \ {0, 1}},
         \A k \in DOMAIN names : FoldKey(names[k]) = FoldKey(x) => numbers[k] = numbers[n]
  PROVE  FoldedTo(Append(names, x), given, numbers, reserved, n)
<1> DEFINE more == Append(names, x)
<1>1. /\ Len(names) = n - 1 /\ Len(more) = n /\ more[n] = x /\ DOMAIN names = 1..(n - 1)
      /\ \A j \in 1..(n - 1) : more[j] = names[j]
      /\ 1..n = (1..(n - 1)) \union {n}
  BY DEF FoldedTo
<1> HIDE DEF more
<1>2. ASSUME NEW i \in 1..n, NEW j \in 1..n, FoldKey(more[i]) = FoldKey(more[j])
      PROVE  numbers[i] = numbers[j]
  <2>1. CASE i \in 1..(n - 1) /\ j \in 1..(n - 1)
    BY <1>1, <1>2, <2>1 DEF FoldedTo
  <2>2. CASE i \in 1..(n - 1) /\ j = n
    BY <1>1, <1>2, <2>2
  <2>3. CASE i = n /\ j \in 1..(n - 1)
    BY <1>1, <1>2, <2>3
  <2>4. QED
    BY <1>1, <2>1, <2>2, <2>3
<1>3. ASSUME NEW j \in 1..n
      PROVE  /\ more[j] \notin reserved
             /\ more[j] = given[j] \/ more[j] \in {Suffixed(given[j], m) : m \in Nat \ {0, 1}}
  <2>1. CASE j = n
    BY <1>1, <2>1
  <2>2. CASE j \in 1..(n - 1)
    BY <1>1, <2>2 DEF FoldedTo
  <2>3. QED
    BY <1>1, <2>1, <2>2
<1>4. FoldedTo(more, given, numbers, reserved, n)
  BY <1>1, <1>2, <1>3 DEF FoldedTo
<1>5. QED
  BY <1>4 DEF more

(* After the loop values that fold together have one number. *)
LEMMA DefoldIs ==
  ASSUME NEW W, NEW F, "plain" \in F, NEW given \in Seq(Spelled(W, F)), NEW numbers, NEW reserved, IsFiniteSet(reserved),
         \A k \in 1..Len(given) : given[k] \notin reserved
  PROVE  LET names == Defold(given, numbers, reserved) IN
         names \in Seq(Spelled(W, F)) /\ FoldedTo(names, given, numbers, reserved, Len(given))
<1> DEFINE N == Len(given)
           X == Seq(Spelled(W, F))
<1>1. PICK f : DefoldRun(f, X, given, numbers, reserved)
  BY DefoldLoop
<1>2. /\ f \in [0..N -> X]
      /\ f[0] = <<>>
      /\ \A n \in 1..N : f[n] = Append(f[n - 1], Unfolded(f[n - 1], numbers, given[n], numbers[n], reserved))
      /\ Defold(given, numbers, reserved) = f[N]
  BY <1>1 DEF DefoldRun
<1>3. N \in Nat /\ \A n \in 1..N : n - 1 \in 0..N /\ n \in Nat \ {0} /\ given[n] \in Spelled(W, F)
  OBVIOUS
<1> DEFINE S == {n \in 0..N : FoldedTo(f[n], given, numbers, reserved, n)}
<1>4. 0 \in S
  BY <1>2, <1>3 DEF FoldedTo
<1>5. ASSUME NEW n \in 1..N, n - 1 \in S PROVE n \in S
  <2> DEFINE x == Unfolded(f[n - 1], numbers, given[n], numbers[n], reserved)
  <2>1. f[n - 1] \in X /\ FoldedTo(f[n - 1], given, numbers, reserved, n - 1) /\ f[n] = Append(f[n - 1], x)
    BY <1>2, <1>3, <1>5
  <2>2. /\ x \in Spelled(W, F)
        /\ x = given[n] \/ x \in {Suffixed(given[n], m) : m \in Nat \ {0, 1}} \ reserved
        /\ \A k \in DOMAIN f[n - 1] : FoldKey(f[n - 1][k]) = FoldKey(x) => numbers[k] = numbers[n]
    BY <1>3, <2>1, UnfoldedIs
  <2>3. x \notin reserved
    BY <2>2
  <2> HIDE DEF x
  <2>4. FoldedTo(f[n], given, numbers, reserved, n)
    BY <1>3, <2>1, <2>2, <2>3, FoldedStep
  <2>5. QED
    BY <2>4
<1>6. N \in S
  <2> HIDE DEF S
  <2>1. \A n \in 0..N : n \in S
    BY <1>3, <1>4, <1>5, Induction
  <2>2. QED
    BY <1>3, <2>1
<1>7. QED
  BY <1>2, <1>3, <1>6

(* A suffix, and cleaning, leave the form; and two of the form             *)
(* "unspecified" fold together only if they are the same.                  *)
LEMMA Forms ==
  ASSUME NEW W, NEW F, "plain" \in F, NEW name \in Spelled(W, F)
  PROVE  /\ Clean(name).form = IF name.form = "odd" THEN "plain" ELSE name.form
         /\ \A n \in Nat : Suffixed(name, n).form = name.form
         /\ FoldKey(name).form = IF name.form \in {"unspecified", "lowered"} THEN "unspecified" ELSE "plain"
         /\ name.form = "unspecified" => FoldKey(name) = name
<1>1. Clean(name).form = IF name.form = "odd" THEN "plain" ELSE name.form
  BY DEF Clean, Spelled
<1>2. \A n \in Nat : Suffixed(name, n).form = name.form
  BY DEF Suffixed, Spelled
<1>3. FoldKey(name).form = IF name.form \in {"unspecified", "lowered"} THEN "unspecified" ELSE "plain"
  BY DEF FoldKey, Spelled
<1>4. name.form = "unspecified" => FoldKey(name) = name
  BY DEF FoldKey, Spelled
<1>5. QED
  BY <1>1, <1>2, <1>3, <1>4

(* The zero that is put first: one name of the form "unspecified" that     *)
(* nothing of the scope has.                                               *)
LEMMA ZeroName ==
  ASSUME NEW W, NEW F, "plain" \in F, "unspecified" \in F, NEW name \in Spelled(W, F),
         NEW reserved, IsFiniteSet(reserved)
  PROVE  LET zero == UniqueNames(<<[name EXCEPT !.form = "unspecified"]>>, reserved) IN
         /\ zero \in Seq(Spelled(W, F)) /\ Len(zero) = 1
         /\ zero[1] \in Spelled(W, F) \ reserved /\ zero[1].form = "unspecified"
<1> DEFINE bare == [name EXCEPT !.form = "unspecified"]
           alone == <<bare>>
           zero == UniqueNames(alone, reserved)
<1>1. bare \in Spelled(W, F) /\ bare.form = "unspecified"
  BY DEF Spelled
<1> HIDE DEF bare
<1>2. alone \in Seq(Spelled(W, F)) /\ Len(alone) = 1 /\ 1 \in DOMAIN alone /\ alone[1] = bare
  BY <1>1
<1> HIDE DEF alone
<1>3. /\ zero \in Seq(Spelled(W, F)) /\ Len(zero) = 1
      /\ ToSet(zero) \intersect reserved = {}
      /\ zero[1] = Clean(bare) \/ zero[1] \in {Suffixed(Clean(bare), n) : n \in Nat \ {0, 1}}
  <2>1. /\ zero \in Seq(Spelled(W, F)) /\ Len(zero) = Len(alone)
        /\ ToSet(zero) \intersect reserved = {}
        /\ \A k \in DOMAIN alone :
             zero[k] = Clean(alone[k]) \/ zero[k] \in {Suffixed(Clean(alone[k]), n) : n \in Nat \ {0, 1}}
    BY <1>2, UniqueNamesDiffer
  <2> HIDE DEF zero
  <2>2. QED
    BY <1>2, <2>1
<1>4. Clean(bare) \in Spelled(W, F) /\ Clean(bare).form = "unspecified"
  BY <1>1, Forms, Spelling
<1>5. zero[1].form = "unspecified"
  BY <1>3, <1>4, Forms
<1>6. zero[1] \in ToSet(zero)
  BY <1>3 DEF ToSet
<1> HIDE DEF zero
<1>7. zero[1] \in Spelled(W, F) \ reserved
  BY <1>3, <1>6
<1>8. QED
  BY <1>3, <1>5, <1>7 DEF zero, alone, bare

(* The names of an enum's values, after both passes: none is reserved, and *)
(* those that fold together have one number; only a value that was written *)
(* in small letters is so afterwards.                                      *)
LEMMA ValueNames ==
  ASSUME NEW W, NEW F, "plain" \in F, NEW given \in Seq(Spelled(W, F)), NEW numbers, NEW reserved, IsFiniteSet(reserved)
  PROVE  LET names == Defold(UniqueNames(given, reserved), numbers, reserved) IN
         /\ names \in Seq(Spelled(W, F)) /\ Len(names) = Len(given)
         /\ \A i, j \in 1..Len(given) : FoldKey(names[i]) = FoldKey(names[j]) => numbers[i] = numbers[j]
         /\ \A k \in 1..Len(given) :
              names[k] \notin reserved /\ (names[k].form = "lowered" => given[k].form = "lowered")
<1> DEFINE unique == UniqueNames(given, reserved)
           names == Defold(unique, numbers, reserved)
           N == Len(given)
<1>1. /\ unique \in Seq(Spelled(W, F)) /\ Len(unique) = N
      /\ ToSet(unique) \intersect reserved = {}
      /\ \A k \in DOMAIN given : unique[k] = Clean(given[k]) \/ unique[k] \in {Suffixed(Clean(given[k]), n) : n \in Nat \ {0, 1}}
  BY UniqueNamesDiffer
<1> HIDE DEF unique
<1>2. \A k \in 1..N : unique[k] \notin reserved
  BY <1>1 DEF ToSet
<1>3. names \in Seq(Spelled(W, F)) /\ FoldedTo(names, unique, numbers, reserved, N)
  BY <1>1, <1>2, DefoldIs
<1> HIDE DEF names
<1>4. ASSUME NEW k \in 1..N PROVE names[k].form = "lowered" => given[k].form = "lowered"
  <2>1. given[k] \in Spelled(W, F) /\ unique[k] \in Spelled(W, F) /\ k \in DOMAIN given
    BY <1>1
  <2>2. Clean(given[k]) \in Spelled(W, F) /\ (Clean(given[k]).form = "lowered" => given[k].form = "lowered")
    <3>1. Clean(given[k]) \in Spelled(W, F)
      BY <2>1, Spelling
    <3>2. Clean(given[k]).form = IF given[k].form = "odd" THEN "plain" ELSE given[k].form
      BY <2>1, Forms
    <3>3. QED
      BY <3>1, <3>2
  <2>3. unique[k].form = Clean(given[k]).form
    BY <1>1, <2>1, <2>2, Forms
  <2>4. names[k] = unique[k] \/ names[k] \in {Suffixed(unique[k], n) : n \in Nat \ {0, 1}}
    BY <1>3 DEF FoldedTo
  <2>5. names[k].form = unique[k].form
    BY <2>1, <2>4, Forms
  <2>6. QED
    BY <2>2, <2>3, <2>5
<1>5. QED
  BY <1>3, <1>4 DEF FoldedTo, names, unique

(* The values of an enum are what protoc demands: there is one, the first  *)
(* of a proto3 enum is zero, all keep their numbers, none has the name of  *)
(* the enum or another of the scope, and those that fold together have one *)
(* number, unless the zero that was put first is folded to (_enum,         *)
(* _defold_enum_values).                                                   *)
THEOREM EnumsCompile ==
  ASSUME NEW W, NEW F, "plain" \in F, "unspecified" \in F,
         NEW enum, enum.values \in Seq([name : Spelled(W, F), number : Int]),
         NEW name \in Spelled(W, F), NEW scope, IsFiniteSet(scope), NEW proto3 \in BOOLEAN
  PROVE  LET values == EnumValues(enum, name, scope, proto3)
             zeros == IF NeedsZero(enum, proto3) THEN 1 ELSE 0
         IN /\ values # <<>> /\ Len(values) = zeros + Len(enum.values)
            /\ proto3 => values[1].number = 0
            /\ \A k \in DOMAIN enum.values : values[zeros + k].number = enum.values[k].number
            /\ \A k \in DOMAIN values : values[k].name \notin scope \union {name}
            /\ ZeroApart(enum, proto3) => FoldOne(values)
<1> DEFINE N == Len(enum.values)
           numbers == [k \in DOMAIN enum.values |-> enum.values[k].number]
           given == NamesOf(enum.values)
           occupied == scope \union {name}
           V == [name : Spelled(W, F), number : Int]
<1>1. N \in Nat /\ DOMAIN enum.values = 1..N
  BY LenProperties
<1>2. \A k \in 1..N : enum.values[k].name \in Spelled(W, F) /\ enum.values[k].number \in Int
  <2> HIDE DEF V
  <2>1. enum.values \in [1..N -> V]
    BY LenProperties DEF V
  <2>2. \A k \in 1..N : enum.values[k] \in V
    BY <2>1
  <2>3. \A v \in V : v.name \in Spelled(W, F) /\ v.number \in Int
    BY DEF V
  <2>4. QED
    BY <2>2, <2>3
<1>3. \A k \in 1..N : numbers[k] = enum.values[k].number /\ numbers[k] \in Int
  BY <1>1, <1>2
<1>4. given = [k \in 1..N |-> enum.values[k].name]
  BY <1>1 DEF NamesOf
<1> HIDE DEF N, numbers, given
<1>5. given \in Seq(Spelled(W, F)) /\ Len(given) = N
  BY <1>1, <1>2, <1>4
<1>6. IsFiniteSet(occupied)
  BY FS_AddElement
<1> HIDE DEF occupied
<1> DEFINE unspecified == UniqueNames(<<[name EXCEPT !.form = "unspecified"]>>, occupied)
<1>7. /\ unspecified \in Seq(Spelled(W, F)) /\ Len(unspecified) = 1
      /\ unspecified[1] \in Spelled(W, F) \ occupied /\ unspecified[1].form = "unspecified"
  BY <1>6, ZeroName
<1> HIDE DEF unspecified
<1> DEFINE synthetic == IF NeedsZero(enum, proto3) THEN unspecified ELSE <<>>
           zeros == IF NeedsZero(enum, proto3) THEN 1 ELSE 0
<1>8. synthetic \in Seq(Spelled(W, F)) /\ Len(synthetic) = zeros /\ zeros \in {0, 1}
  <2>1. CASE NeedsZero(enum, proto3)
    BY <1>7, <2>1
  <2>2. CASE ~NeedsZero(enum, proto3)
    <3>1. synthetic = <<>> /\ zeros = 0
      BY <2>2
    <3> HIDE DEF synthetic, zeros
    <3>2. QED
      BY <3>1
  <2>3. QED
    BY <2>1, <2>2
<1>9. \A k \in 1..zeros : k = 1 /\ NeedsZero(enum, proto3) /\ synthetic[k] = unspecified[1]
  BY <1>7
<1>10. zeros = 0 => ~NeedsZero(enum, proto3)
  OBVIOUS
<1> HIDE DEF synthetic, zeros
<1> DEFINE reserved == occupied \union ToSet(synthetic)
<1>11. IsFiniteSet(reserved) /\ occupied \subseteq reserved
  BY <1>6, <1>8, FiniteNames
<1>12. \A k \in 1..zeros : unspecified[1] \in reserved
  BY <1>8, <1>9 DEF ToSet
<1> HIDE DEF reserved
<1> DEFINE names == Defold(UniqueNames(given, reserved), numbers, reserved)
<1>13. /\ names \in Seq(Spelled(W, F)) /\ Len(names) = N
       /\ \A i, j \in 1..N : FoldKey(names[i]) = FoldKey(names[j]) => numbers[i] = numbers[j]
       /\ \A k \in 1..N : names[k] \notin reserved /\ (names[k].form = "lowered" => given[k].form = "lowered")
  <2>1. /\ names \in Seq(Spelled(W, F)) /\ Len(names) = Len(given)
        /\ \A i, j \in 1..Len(given) : FoldKey(names[i]) = FoldKey(names[j]) => numbers[i] = numbers[j]
        /\ \A k \in 1..Len(given) : names[k] \notin reserved /\ (names[k].form = "lowered" => given[k].form = "lowered")
    BY <1>5, <1>11, ValueNames
  <2> HIDE DEF names
  <2>2. QED
    BY <1>5, <2>1
<1> HIDE DEF names
<1> DEFINE first == [k \in DOMAIN synthetic |-> [name |-> synthetic[k], number |-> 0]]
           rest == [k \in DOMAIN names |-> [name |-> names[k], number |-> numbers[k]]]
<1>14. /\ first \in Seq(V) /\ Len(first) = zeros
       /\ \A k \in 1..zeros : first[k].name = unspecified[1] /\ first[k].number = 0
  <2>1. first = [k \in 1..zeros |-> [name |-> synthetic[k], number |-> 0]]
    BY <1>8
  <2>2. \A k \in 1..zeros : [name |-> synthetic[k], number |-> 0] \in V
    BY <1>7, <1>9
  <2> HIDE DEF first, V
  <2>3. first \in Seq(V) /\ Len(first) = zeros
    BY <1>8, <2>1, <2>2
  <2>4. QED
    BY <1>9, <2>1, <2>3
<1>15. /\ rest \in Seq(V) /\ Len(rest) = N
       /\ \A k \in 1..N : rest[k].name = names[k] /\ rest[k].number = numbers[k]
  <2>1. rest = [k \in 1..N |-> [name |-> names[k], number |-> numbers[k]]]
    BY <1>13
  <2>2. \A k \in 1..N : [name |-> names[k], number |-> numbers[k]] \in V
    BY <1>3, <1>13
  <2> HIDE DEF rest, V
  <2>3. rest \in Seq(V) /\ Len(rest) = N
    BY <1>1, <2>1, <2>2
  <2>4. QED
    BY <2>1, <2>3
<1>16. EnumValues(enum, name, scope, proto3) = first \o rest
  BY DEF EnumValues, names, reserved, synthetic, unspecified, occupied, given, numbers
<1> HIDE DEF first, rest, V
<1> DEFINE values == first \o rest
<1>17. /\ Len(values) = zeros + N /\ DOMAIN values = 1..(zeros + N)
       /\ \A k \in 1..zeros : values[k].name = unspecified[1] /\ values[k].number = 0
       /\ \A k \in 1..N : values[zeros + k].name = names[k] /\ values[zeros + k].number = numbers[k]
       /\ \A k \in DOMAIN values : k \in 1..zeros \/ \E j \in 1..N : k = zeros + j
  <2>1. /\ values \in Seq(V) /\ Len(values) = Len(first) + Len(rest) /\ DOMAIN values = 1..(Len(first) + Len(rest))
        /\ \A k \in 1..Len(first) : k \in DOMAIN values /\ values[k] = first[k]
        /\ \A k \in 1..Len(rest) : Len(first) + k \in DOMAIN values /\ values[Len(first) + k] = rest[k]
        /\ \A k \in DOMAIN values : k \in 1..Len(first) \/ \E j \in 1..Len(rest) : k = Len(first) + j
    <3>1. first \in Seq(V) /\ rest \in Seq(V)
      BY <1>14, <1>15
    <3>2. QED
      BY <3>1, Joining
  <2> HIDE DEF values
  <2>2. QED
    BY <1>14, <1>15, <2>1
<1> HIDE DEF values
<1>18. values # <<>> /\ (proto3 => values[1].number = 0)
  <2>1. CASE zeros = 1
    <3>1. Len(values) # 0 /\ 1 \in 1..zeros
      BY <1>1, <1>17, <2>1
    <3>2. QED
      BY <1>17, <3>1
  <2>2. CASE zeros = 0
    <3>1. enum.values # <<>> /\ (proto3 => enum.values[1].number = 0)
      BY <1>10, <2>2 DEF NeedsZero
    <3>2. 1 \in 1..N
      BY <1>1, <3>1 DEF N
    <3>3. zeros + 1 = 1 /\ zeros + N # 0
      BY <1>1, <2>2, <3>2
    <3>4. QED
      BY <1>3, <1>17, <3>1, <3>2, <3>3
  <2>3. QED
    BY <1>8, <2>1, <2>2
<1>19. \A k \in 1..N : values[zeros + k].number = enum.values[k].number
  BY <1>3, <1>17
<1>20. ASSUME NEW k \in DOMAIN values PROVE values[k].name \notin occupied
  <2>1. CASE k \in 1..zeros
    BY <1>7, <1>17, <2>1
  <2>2. ASSUME NEW j \in 1..N, k = zeros + j PROVE values[k].name \notin occupied
    BY <1>11, <1>13, <1>17, <2>2
  <2>3. QED
    BY <1>17, <2>1, <2>2
<1>21. ASSUME ZeroApart(enum, proto3), NEW i \in 1..zeros, NEW k \in 1..N
       PROVE  FoldKey(names[k]) # FoldKey(unspecified[1])
  <2>1. given[k].form # "lowered"
    BY <1>1, <1>4, <1>9, <1>21 DEF ZeroApart
  <2>2. names[k] \in Spelled(W, F) /\ names[k].form # "lowered" /\ names[k] # unspecified[1]
    BY <1>12, <1>13, <2>1
  <2>3. FoldKey(unspecified[1]) = unspecified[1]
    BY <1>7, Forms
  <2>4. CASE names[k].form = "unspecified"
    BY <2>2, <2>3, <2>4, Forms
  <2>5. CASE names[k].form # "unspecified"
    <3>1. FoldKey(names[k]).form = "plain"
      BY <2>2, <2>5, Forms
    <3>2. QED
      BY <1>7, <2>3, <3>1
  <2>6. QED
    BY <2>4, <2>5
<1>22. ASSUME ZeroApart(enum, proto3) PROVE FoldOne(values)
  <2>1. SUFFICES ASSUME NEW v \in DOMAIN values, NEW w \in DOMAIN values, FoldKey(values[v].name) = FoldKey(values[w].name)
                 PROVE  values[v].number = values[w].number
    BY DEF FoldOne
  <2>2. CASE v \in 1..zeros /\ w \in 1..zeros
    BY <1>17, <2>2
  <2>3. CASE v \in 1..zeros /\ \E j \in 1..N : w = zeros + j
    BY <1>17, <1>21, <1>22, <2>1, <2>3
  <2>4. CASE w \in 1..zeros /\ \E j \in 1..N : v = zeros + j
    BY <1>17, <1>21, <1>22, <2>1, <2>4
  <2>5. CASE (\E i \in 1..N : v = zeros + i) /\ (\E j \in 1..N : w = zeros + j)
    <3>1. PICK i \in 1..N, j \in 1..N : v = zeros + i /\ w = zeros + j
      BY <2>5
    <3>2. FoldKey(names[i]) = FoldKey(names[j])
      BY <1>17, <2>1, <3>1
    <3>3. QED
      BY <1>13, <1>17, <3>1, <3>2
  <2>6. QED
    BY <1>17, <2>2, <2>3, <2>4, <2>5
<1>23. QED
  BY <1>1, <1>16, <1>17, <1>18, <1>19, <1>20, <1>22 DEF zeros, occupied, N, values
=============================================================================
