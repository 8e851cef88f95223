---------------------------- MODULE LogTailProofs ----------------------------
(***************************************************************************)
(* Proofs about LogTail for all logs, all writers and all thresholds. That *)
(* the count is exact rests on a fact about the matches of two pieces of a *)
(* file, which is proved first: they add up when the first piece ends with *)
(* a newline. Without it (a half written line) they do not.                *)
(***************************************************************************)
EXTENDS LogTail, SequenceTheorems, FunctionTheorems, FiniteSetTheorems, TLAPS

(* Numbers keep their number when all of them are raised by the same.      *)
LEMMA RaisedSet ==
  ASSUME NEW S \in SUBSET Int, IsFiniteSet(S), NEW k \in Int
  PROVE  IsFiniteSet({k + r : r \in S}) /\ Cardinality({k + r : r \in S}) = Cardinality(S)
<1> DEFINE T == {k + r : r \in S}
           f == [r \in S |-> k + r]
<1>1. f \in [S -> T] /\ \A t \in T : \E r \in S : f[r] = t
  OBVIOUS
<1>0. \A a, b \in S : f[a] = f[b] => a = b
  <2> SUFFICES ASSUME NEW a \in S, NEW b \in S, k + a = k + b PROVE a = b
    BY Zenon
  <2> QED
    OBVIOUS
<1>2. f \in Bijection(S, T)
  BY <1>0, <1>1, Fun_IsBij
<1>3. ExistsBijection(S, T)
  BY <1>2 DEF ExistsBijection
<1> QED
  BY <1>3, FS_Bijection

LEMMA DisjointSum ==
  ASSUME NEW S, NEW T, IsFiniteSet(S), IsFiniteSet(T), S \cap T = {}
  PROVE  Cardinality(S \cup T) = Cardinality(S) + Cardinality(T)
<1>1. Cardinality(S \cup T) = Cardinality(S) + Cardinality(T) - Cardinality(S \cap T)
  BY FS_Union
<1>2. Cardinality(S \cap T) = 0
  BY FS_EmptySet
<1>3. Cardinality(S) \in Nat /\ Cardinality(T) \in Nat
  BY FS_CardinalityType
<1> QED
  BY <1>1, <1>2, <1>3

-----------------------------------------------------------------------------
(* Lines. How many newlines are before byte i, and the lines with matches. *)
Before(data, i) == {j \in Newlines(data) : j < i}
Row(data, i) == Cardinality(Before(data, i))
Rows(data) == {Row(data, i) : i \in Hits(data)}

LEMMA MatchesAreRows == ASSUME NEW data PROVE Matches(data) = Cardinality(Rows(data))
  BY DEF Matches, Rows, Row, Before

LEMMA NewlineIs ==
  ASSUME NEW data \in Seq(Bytes), NEW j
  PROVE  j \in Newlines(data) <=> j \in 1..Len(data) /\ data[j] = "n"
  BY DEF Newlines

LEMMA HitIs ==
  ASSUME NEW data \in Seq(Bytes), NEW i
  PROVE  i \in Hits(data) <=> i \in 1..Len(data) - 1 /\ data[i] = "a" /\ data[i + 1] = "b"
  BY DEF Hits

LEMMA FewNewlines ==
  ASSUME NEW data \in Seq(Bytes)
  PROVE  /\ Newlines(data) \subseteq 1..Len(data) /\ IsFiniteSet(Newlines(data))
         /\ \A i : IsFiniteSet(Before(data, i)) /\ Row(data, i) \in Nat
                 /\ Row(data, i) <= Cardinality(Newlines(data))
<1>1. Newlines(data) \subseteq 1..Len(data)
  BY DEF Newlines
<1>2. IsFiniteSet(1..Len(data))
  BY FS_Interval
<1>3. IsFiniteSet(Newlines(data))
  BY <1>1, <1>2, FS_Subset
<1>4. \A i : Before(data, i) \in SUBSET Newlines(data)
  BY DEF Before
<1> QED
  BY <1>1, <1>3, <1>4, FS_Subset, FS_CardinalityType DEF Row

LEMMA FewRows ==
  ASSUME NEW data \in Seq(Bytes)
  PROVE  Rows(data) \in SUBSET Nat /\ IsFiniteSet(Rows(data))
<1>1. Rows(data) \in SUBSET Nat /\ Cardinality(Newlines(data)) \in Nat
  BY FewNewlines, FS_CardinalityType DEF Rows
<1>2. \A r \in Rows(data) : r <= Cardinality(Newlines(data))
  BY FewNewlines DEF Rows
<1> QED
  BY <1>1, <1>2, FS_BoundedSetOfNaturals

(* Two pieces of a file, the first of which ends with a newline.           *)
LEMMA RowsOfPieces ==
  ASSUME NEW u \in Seq(Bytes), NEW v \in Seq(Bytes), NEW s \in Seq(Bytes),
         Len(s) = Len(u) + Len(v),
         \A i \in 1..Len(u) : s[i] = u[i],
         \A i \in 1..Len(v) : s[Len(u) + i] = v[i],
         u = <<>> \/ u[Len(u)] = "n"
  PROVE  LET k == Cardinality(Newlines(u))
         IN  /\ Rows(s) = Rows(u) \cup {k + r : r \in Rows(v)}
             /\ \A r \in Rows(u) : r < k
<1> DEFINE k == Cardinality(Newlines(u))
           m == Len(u)
<1>1. /\ m \in Nat /\ Len(v) \in Nat /\ k \in Nat
      /\ Newlines(u) \subseteq 1..m /\ IsFiniteSet(Newlines(u))
      /\ Newlines(v) \subseteq 1..Len(v)
  BY FewNewlines, FS_CardinalityType
<1>2. \A j : j \in Newlines(s) <=> (j \in Newlines(u) \/ j \in {m + h : h \in Newlines(v)})
  <2>1. \A j \in 1..Len(s) : j \in 1..m \/ (j - m \in 1..Len(v) /\ j = m + (j - m))
    BY <1>1
  <2>2. \A h \in 1..Len(v) : m + h \in 1..Len(s)
    BY <1>1
  <2>3. \A j \in 1..m : j \in 1..Len(s)
    BY <1>1
  <2>4. ASSUME NEW j \in Newlines(s)
        PROVE  j \in Newlines(u) \/ j \in {m + h : h \in Newlines(v)}
    <3>1. j \in 1..Len(s) /\ s[j] = "n"
      BY <2>4, NewlineIs
    <3>2. CASE j \in 1..m
      BY <3>1, <3>2, NewlineIs
    <3>3. CASE j - m \in 1..Len(v) /\ j = m + (j - m)
      <4>1. v[j - m] = "n"
        BY <3>1, <3>3
      <4>2. j - m \in Newlines(v)
        BY <3>3, <4>1, NewlineIs
      <4> QED
        BY <3>3, <4>2
    <3> QED
      BY <2>1, <3>1, <3>2, <3>3
  <2>5. ASSUME NEW j \in Newlines(u) PROVE j \in Newlines(s)
    BY <2>3, <2>5, NewlineIs
  <2>6. ASSUME NEW h \in Newlines(v) PROVE m + h \in Newlines(s)
    BY <2>2, <2>6, NewlineIs
  <2> QED
    BY <2>4, <2>5, <2>6
<1>3. \A i \in Hits(s) : i \in Hits(u) \/ (i - m \in Hits(v) /\ i = m + (i - m))
  <2> SUFFICES ASSUME NEW i \in Hits(s)
               PROVE  i \in Hits(u) \/ (i - m \in Hits(v) /\ i = m + (i - m))
    OBVIOUS
  <2>1. i \in 1..Len(s) - 1 /\ s[i] = "a" /\ s[i + 1] = "b"
    BY HitIs
  <2>2. CASE i < m
    <3>1. i \in 1..m - 1 /\ i \in 1..m /\ i + 1 \in 1..m
      BY <1>1, <2>1, <2>2
    <3> QED
      BY <2>1, <3>1, HitIs
  <2>3. CASE i > m
    <3>1. /\ i - m \in 1..Len(v) - 1 /\ i - m \in 1..Len(v) /\ (i - m) + 1 \in 1..Len(v)
          /\ i = m + (i - m) /\ i + 1 = m + ((i - m) + 1)
      BY <1>1, <2>1, <2>3
    <3>2. v[i - m] = "a" /\ v[(i - m) + 1] = "b"
      BY <2>1, <3>1
    <3> QED
      BY <3>1, <3>2, HitIs
  <2>4. CASE i = m
    <3>1. m \in 1..m /\ u # <<>>
      BY <1>1, <2>1, <2>4
    <3> QED
      BY <2>1, <2>4, <3>1
  <2> QED
    BY <1>1, <2>1, <2>2, <2>3, <2>4
<1>4. \A i \in Hits(u) : i \in Hits(s)
  <2> SUFFICES ASSUME NEW i \in Hits(u) PROVE i \in Hits(s)
    OBVIOUS
  <2>1. i \in 1..m - 1 /\ u[i] = "a" /\ u[i + 1] = "b"
    BY HitIs
  <2>2. i \in 1..m /\ i + 1 \in 1..m /\ i \in 1..Len(s) - 1
    BY <1>1, <2>1
  <2> QED
    BY <2>1, <2>2, HitIs
<1>5. \A i \in Hits(v) : m + i \in Hits(s)
  <2> SUFFICES ASSUME NEW i \in Hits(v) PROVE m + i \in Hits(s)
    OBVIOUS
  <2>1. i \in 1..Len(v) - 1 /\ v[i] = "a" /\ v[i + 1] = "b"
    BY HitIs
  <2>2. /\ i \in 1..Len(v) /\ i + 1 \in 1..Len(v) /\ m + i \in 1..Len(s) - 1
        /\ (m + i) + 1 = m + (i + 1)
    BY <1>1, <2>1
  <2> QED
    BY <2>1, <2>2, HitIs
<1>6. ASSUME NEW i \in Hits(u)
      PROVE  Row(s, i) = Row(u, i) /\ Row(u, i) < k
  <2>1. i \in 1..m - 1
    BY HitIs
  <2>2. \A j \in {m + h : h \in Newlines(v)} : ~ (j < i)
    BY <1>1, <2>1
  <2>3. Before(s, i) = Before(u, i)
    BY <1>2, <2>2 DEF Before
  <2>4. m \in Newlines(u) /\ m \notin Before(u, i)
    <3>1. u # <<>> /\ m \in 1..m
      BY <1>1, <2>1
    <3>2. m \in Newlines(u)
      BY <3>1, NewlineIs
    <3> QED
      BY <1>1, <2>1, <3>2 DEF Before
  <2>5. Before(u, i) \in SUBSET Newlines(u)
    BY DEF Before
  <2>6. Row(u, i) <= k /\ Row(u, i) # k /\ Row(u, i) \in Nat
    BY <1>1, <2>4, <2>5, FS_Subset, FewNewlines DEF Row
  <2> QED
    BY <1>1, <2>3, <2>6 DEF Row
<1>7. ASSUME NEW i \in Hits(v)
      PROVE  Row(s, m + i) = k + Row(v, i)
  <2> DEFINE raised == {m + h : h \in Before(v, i)}
  <2>1. i \in Nat /\ i > 0
    BY HitIs
  <2>2. \A j \in Newlines(u) : j < m + i /\ j \notin raised
    <3>1. \A h \in Before(v, i) : h > 0 /\ h \in Int
      BY <1>1 DEF Before
    <3> QED
      BY <1>1, <2>1, <3>1
  <2>3. \A h \in Newlines(v) : m + h < m + i <=> h < i
    BY <1>1, <2>1
  <2>4. Before(s, m + i) = Newlines(u) \cup raised
    BY <1>2, <2>2, <2>3 DEF Before
  <2>5. /\ IsFiniteSet(raised) /\ Cardinality(raised) = Row(v, i)
    <3>1. Before(v, i) \in SUBSET Int /\ m \in Int
      BY <1>1 DEF Before
    <3>2. IsFiniteSet(Before(v, i))
      BY FewNewlines
    <3> QED
      BY <3>1, <3>2, RaisedSet DEF Row
  <2>6. Newlines(u) \cap raised = {}
    BY <2>2
  <2> HIDE DEF raised
  <2>7. Cardinality(Newlines(u) \cup raised) = k + Cardinality(raised)
    BY <1>1, <2>5, <2>6, DisjointSum
  <2>8. Row(s, m + i) = Cardinality(Before(s, m + i))
    BY DEF Row
  <2> QED
    BY <2>4, <2>5, <2>7, <2>8
<1>8. Rows(s) = Rows(u) \cup {k + r : r \in Rows(v)}
  <2>1. ASSUME NEW r \in Rows(s) PROVE r \in Rows(u) \cup {k + q : q \in Rows(v)}
    <3>1. PICK i \in Hits(s) : r = Row(s, i)
      BY DEF Rows
    <3>2. CASE i \in Hits(u)
      BY <1>6, <3>1, <3>2 DEF Rows
    <3>3. CASE i - m \in Hits(v) /\ i = m + (i - m)
      <4>1. r = k + Row(v, i - m)
        BY <1>7, <3>1, <3>3
      <4>2. Row(v, i - m) \in Rows(v)
        BY <3>3 DEF Rows
      <4> QED
        BY <4>1, <4>2
    <3> QED
      BY <1>3, <3>2, <3>3
  <2>2. ASSUME NEW r \in Rows(u) PROVE r \in Rows(s)
    <3>1. PICK i \in Hits(u) : r = Row(u, i)
      BY DEF Rows
    <3> QED
      BY <1>4, <1>6, <3>1 DEF Rows
  <2>3. ASSUME NEW q \in Rows(v) PROVE k + q \in Rows(s)
    <3>1. PICK i \in Hits(v) : q = Row(v, i)
      BY DEF Rows
    <3> QED
      BY <1>5, <1>7, <3>1 DEF Rows
  <2> QED
    BY <2>1, <2>2, <2>3
<1>9. \A r \in Rows(u) : r < k
  BY <1>6 DEF Rows
<1> QED
  BY <1>8, <1>9

(* Matches of two pieces add up.                                           *)
LEMMA MatchesAddUp ==
  ASSUME NEW data \in Seq(Bytes), NEW from \in Nat, NEW mid \in Nat, NEW to \in Nat,
         from <= mid, mid <= to, to <= Len(data), mid = from \/ data[mid] = "n"
  PROVE  Matches(SubSeq(data, from + 1, mid)) + Matches(SubSeq(data, mid + 1, to))
           = Matches(SubSeq(data, from + 1, to))
<1> DEFINE u == SubSeq(data, from + 1, mid)
           v == SubSeq(data, mid + 1, to)
           s == SubSeq(data, from + 1, to)
           k == Cardinality(Newlines(u))
           raised == {k + r : r \in Rows(v)}
<1>1. /\ u \in Seq(Bytes) /\ v \in Seq(Bytes) /\ s \in Seq(Bytes)
      /\ Len(u) = mid - from /\ Len(v) = to - mid /\ Len(s) = to - from
  OBVIOUS
<1>2. /\ \A i \in 1..Len(u) : u[i] = data[from + i] /\ s[i] = data[from + i]
      /\ \A i \in 1..Len(v) : v[i] = data[mid + i] /\ s[Len(u) + i] = data[mid + i]
  OBVIOUS
<1>3. u = <<>> \/ u[Len(u)] = "n"
  <2>1. CASE mid = from
    BY <1>1, <2>1
  <2>2. CASE mid # from
    <3>1. Len(u) \in 1..Len(u) /\ from + Len(u) = mid
      BY <1>1, <2>2
    <3> QED
      BY <1>2, <2>2, <3>1
  <2> QED
    BY <2>1, <2>2
<1> HIDE DEF u, v, s
<1>4. Rows(s) = Rows(u) \cup raised /\ \A r \in Rows(u) : r < k
  <2>1. /\ \A i \in 1..Len(u) : s[i] = u[i]
        /\ \A i \in 1..Len(v) : s[Len(u) + i] = v[i]
        /\ Len(s) = Len(u) + Len(v)
    BY <1>1, <1>2
  <2> QED
    BY <1>1, <1>3, <2>1, RowsOfPieces
<1>5. /\ Rows(u) \in SUBSET Nat /\ IsFiniteSet(Rows(u))
      /\ Rows(v) \in SUBSET Nat /\ IsFiniteSet(Rows(v)) /\ k \in Nat
      /\ Cardinality(Rows(u)) \in Nat /\ Cardinality(Rows(v)) \in Nat
  BY <1>1, FewRows, FewNewlines, FS_CardinalityType
<1>6. IsFiniteSet(raised) /\ Cardinality(raised) = Cardinality(Rows(v))
  <2>1. Rows(v) \in SUBSET Int /\ k \in Int
    BY <1>5
  <2> HIDE DEF k
  <2> QED
    BY <1>5, <2>1, RaisedSet
<1>7. Rows(u) \cap raised = {}
  <2>1. \A r \in Rows(v) : k + r >= k
    BY <1>5
  <2> QED
    BY <1>4, <1>5, <2>1
<1> HIDE DEF raised
<1>8. Cardinality(Rows(s)) = Cardinality(Rows(u)) + Cardinality(Rows(v))
  BY <1>4, <1>5, <1>6, <1>7, DisjointSum
<1> QED
  BY <1>5, <1>8, MatchesAreRows DEF u, v, s

LEMMA MatchesType ==
  ASSUME NEW data \in Seq(Bytes)
  PROVE  Matches(data) \in Nat
  BY MatchesAreRows, FewRows, FS_CardinalityType

LEMMA NoMatches == Matches(<<>>) = 0
<1>1. <<>> \in Seq(Bytes) /\ Rows(<<>>) = {}
  BY DEF Rows, Hits
<1> QED
  BY <1>1, MatchesAreRows, FS_EmptySet

-----------------------------------------------------------------------------
(* Offsets. What is behind one, and where the tail of a file begins.       *)
LEMMA BehindOffset ==
  ASSUME NEW data \in Seq(Bytes), NEW k \in Nat
  PROVE  /\ From(data, k) \in Seq(Bytes)
         /\ k <= Len(data) => Len(From(data, k)) = Len(data) - k
         /\ k > Len(data) => Len(From(data, k)) = 0
  BY DEF From

LEMMA TailStartInRange ==
  ASSUME NEW data \in Seq(Bytes), NEW first \in Nat, NEW n
  PROVE  FindTailStart(data, first, n) \in first..(first + Len(data))
<1> DEFINE ends == Newlines(data) \ {Len(data)}
           cuts == {p \in ends : Cardinality({q \in ends : q >= p}) = n}
<1>1. cuts \subseteq 1..Len(data)
  BY DEF Newlines
<1>2. FindTailStart(data, first, n) = IF cuts = {} THEN first ELSE first + (CHOOSE p \in cuts : TRUE)
  BY DEF FindTailStart
<1> HIDE DEF cuts
<1>3. CASE cuts = {}
  BY <1>2, <1>3
<1>4. CASE cuts # {}
  <2>1. PICK p \in cuts : FindTailStart(data, first, n) = first + p
    BY <1>2, <1>4
  <2> QED
    BY <1>1, <2>1
<1> QED
  BY <1>3, <1>4

LEMMA TailOffsetInRange ==
  ASSUME NEW data \in Seq(Bytes), NEW size \in Nat
  PROVE  ComputeTailOffset(data, size) \in 0..Len(data)
<1> DEFINE end == IF Len(data) < size THEN Len(data) ELSE size
           readFrom == IF end > MaxTailScan THEN end - MaxTailScan ELSE 0
           readTo == IF readFrom + MaxTailScan < Len(data) THEN readFrom + MaxTailScan ELSE Len(data)
           seen == SubSeq(data, readFrom + 1, readTo)
<1>1. /\ readFrom \in Nat /\ readTo \in Nat /\ readFrom <= readTo /\ readTo <= Len(data)
  BY LogAssumption DEF LogAssumption
<1>2. ComputeTailOffset(data, size) = FindTailStart(seen, readFrom, TailLines)
  BY DEF ComputeTailOffset
<1> HIDE DEF readFrom, readTo
<1>3. seen \in Seq(Bytes) /\ Len(seen) = readTo - readFrom
  BY <1>1
<1> HIDE DEF seen
<1>4. FindTailStart(seen, readFrom, TailLines) \in readFrom..(readFrom + Len(seen))
  BY <1>1, <1>3, TailStartInRange
<1> QED
  BY <1>1, <1>2, <1>3, <1>4

-----------------------------------------------------------------------------
(* What a log condition remembers between the steps of its checks.         *)
StageInv ==
  /\ missingInit => ~ initialized /\ phase = "idle"
  /\ ~ initialized => prevInfo = NoFile /\ matchCount = 0 /\ phase \in {"idle", "tail"}
  /\ initialized => prevInfo # NoFile /\ phase # "tail"
  /\ phase # "idle" => info # NoFile
  /\ phase = "read" => handle # NoFile

(* The present file is the one the condition follows.                      *)
Tracked == initialized /\ seenGen = gen /\ ~ blind

(* A file that took the place of another is read from its start; the tail  *)
(* is looked for in a file that has not been looked at before.             *)
HistoryInv ==
  /\ seenGen <= gen
  /\ initialized /\ ~ Tracked => base = 0
  /\ phase = "tail" => /\ blind => seenGen # gen
                       /\ seenGen = gen => path # NoFile /\ info.ino = path

TrackInv ==
  Tracked =>
    /\ path # NoFile /\ prevInfo.ino = path
    /\ phase = "read" => handle = path
    /\ base <= offset /\ offset <= Len(files[path])

IInv == TypeOK /\ StageInv /\ HistoryInv /\ TrackInv

LEMMA Bounds == MaxSize \in Nat /\ MaxOps \in Nat /\ 0 \in 0..MaxSize /\ 0 \in 0..MaxOps
  BY LogAssumption DEF LogAssumption

LEMMA InitIInv == Init => IInv
<1> SUFFICES ASSUME Init PROVE IInv
  OBVIOUS
<1>1. \A i \in Inodes : files[i] \in Seq(Bytes) /\ Len(files[i]) <= MaxSize
  <2> SUFFICES ASSUME NEW i \in Inodes PROVE files[i] \in Seq(Bytes) /\ Len(files[i]) <= MaxSize
    OBVIOUS
  <2>1. files[i] \in InitialData
    BY DEF Init
  <2> QED
    BY <2>1, LogAssumption DEF LogAssumption
<1>2. files \in [Inodes -> Seq(Bytes)]
  BY <1>1 DEF Init
<1>3. result \in [status : {"none", "satisfied", "unsatisfied"}, complete : BOOLEAN]
  BY Zenon DEF Init
<1>4. TypeOK
  <2>1. /\ path \in Inodes \cup {NoFile} /\ ops \in 0..MaxOps /\ start \in Starts
        /\ phase \in {"idle", "tail", "open", "read"}
    BY Bounds DEF Init
  <2>2. /\ info \in [ino : Inodes, size : 0..MaxSize] \cup {NoFile}
        /\ handle \in Inodes \cup {NoFile}
    BY DEF Init
  <2>3. prevInfo \in [ino : Inodes, size : 0..MaxSize] \cup {NoFile}
    BY DEF Init
  <2>4. offset \in 0..MaxSize /\ base \in 0..MaxSize
    BY Bounds DEF Init
  <2>5. initialized \in BOOLEAN /\ missingInit \in BOOLEAN /\ blind \in BOOLEAN /\ missed \in BOOLEAN
    BY DEF Init
  <2>6. matchCount \in Nat /\ gen \in Nat /\ seenGen \in Nat
    BY DEF Init
  <2> QED
    BY <1>1, <1>2, <1>3, <2>1, <2>2, <2>3, <2>4, <2>5, <2>6 DEF TypeOK
<1> QED
  BY <1>4 DEF Init, IInv, StageInv, HistoryInv, TrackInv, Tracked

(* What a step of the other processes does.                                *)
LEMMA OutsideStep ==
  ASSUME IInv, UNCHANGED <<start, check, state, result, missed>>, ops < MaxOps, ops' = ops + 1,
         files' \in [Inodes -> Seq(Bytes)], \A i \in Inodes : Len(files'[i]) <= MaxSize,
         path' \in Inodes \cup {NoFile}, Replaced
  PROVE  IInv'
<1>1. /\ gen' = gen + 1 /\ base' = 0 /\ seenGen' = seenGen
      /\ blind' \in BOOLEAN /\ seenGen' # gen' /\ seenGen' <= gen'
  BY DEF Replaced, IInv, TypeOK, HistoryInv
<1>2. TypeOK'
  BY <1>1, Bounds DEF IInv, TypeOK, check, state
<1>3. StageInv'
  BY DEF IInv, StageInv, check, state
<1>4. HistoryInv' /\ TrackInv'
  BY <1>1 DEF HistoryInv, TrackInv, Tracked
<1> QED
  BY <1>2, <1>3, <1>4 DEF IInv

Now == [ino |-> path, size |-> Len(files[path])]

(* The four ways in which a check takes up the file that it finds.         *)
LEMMA StatFileEffect ==
  ASSUME StageInv, TypeOK, StatFile
  PROVE  /\ phase = "idle" /\ path # NoFile
         /\ UNCHANGED <<disk, ops, start, handle, result, missed>>
         /\ info' = Now /\ seenGen' = gen /\ missingInit' = FALSE
         /\ \/ /\ initialized /\ Rotated(Now)
               /\ initialized' = TRUE /\ phase' = "open" /\ prevInfo' = Now
               /\ offset' = 0 /\ matchCount' = 0 /\ base' = base /\ blind' = FALSE
            \/ /\ initialized /\ ~ Rotated(Now)
               /\ initialized' = TRUE /\ phase' = "open" /\ prevInfo' = Now
               /\ UNCHANGED <<offset, matchCount, base>>
               /\ blind' \in BOOLEAN /\ (blind' <=> (blind \/ gen # seenGen))
            \/ /\ ~ initialized /\ initialized' = TRUE /\ phase' = "open" /\ prevInfo' = Now
               /\ offset' \in {0, Now.size} /\ base' = offset' /\ blind' = FALSE
               /\ missingInit => offset' = 0
               /\ matchCount' = matchCount
            \/ /\ ~ initialized /\ ~ missingInit /\ initialized' = FALSE /\ phase' = "tail"
               /\ UNCHANGED <<offset, matchCount, prevInfo>> /\ base' = offset /\ blind' = FALSE
<1> DEFINE first == ~ initialized /\ ~ Rotated(Now)
           tail == first /\ ~ ReadsAll /\ start = "tail" /\ Now.size > 0
<1>1. /\ phase = "idle" /\ path # NoFile /\ info' = Now /\ seenGen' = gen /\ missingInit' = FALSE
      /\ UNCHANGED <<disk, ops, start, handle, result, missed>>
      /\ offset' = IF Rotated(Now) \/ (first /\ ReadsAll) THEN 0
                   ELSE IF first /\ ~ tail THEN Now.size ELSE offset
      /\ matchCount' = IF Rotated(Now) THEN 0 ELSE matchCount
      /\ initialized' = ~ tail
      /\ prevInfo' = IF tail THEN prevInfo ELSE Now
      /\ phase' = IF tail THEN "tail" ELSE "open"
      /\ base' = IF first THEN offset' ELSE base
      /\ blind' = (LooksUnchanged(Now) /\ (blind \/ gen # seenGen))
  BY DEF StatFile, Now
<1>2. (prevInfo = NoFile => ~ Rotated(Now) /\ ~ LooksUnchanged(Now))
      /\ (prevInfo # NoFile => (LooksUnchanged(Now) <=> ~ Rotated(Now)))
  <2>1. Now.size \in Nat /\ offset \in Nat
    BY <1>1 DEF Now, TypeOK
  <2> QED
    BY <2>1 DEF Rotated, LooksUnchanged
<1>3. /\ initialized \in BOOLEAN /\ missingInit => ~ initialized
      /\ ~ initialized => prevInfo = NoFile
      /\ initialized => prevInfo # NoFile
  BY DEF StageInv, TypeOK
<1> HIDE DEF Now
<1>4. CASE initialized /\ Rotated(Now)
  BY <1>1, <1>2, <1>3, <1>4
<1>5. CASE initialized /\ ~ Rotated(Now)
  BY <1>1, <1>2, <1>3, <1>5
<1>6. CASE ~ initialized /\ ~ tail
  BY <1>1, <1>2, <1>3, <1>6 DEF ReadsAll
<1>7. CASE ~ initialized /\ tail
  BY <1>1, <1>2, <1>3, <1>7 DEF ReadsAll
<1> QED
  BY <1>3, <1>4, <1>5, <1>6, <1>7

LEMMA NowType ==
  ASSUME TypeOK, path # NoFile
  PROVE  /\ Now \in [ino : Inodes, size : 0..MaxSize] /\ Now # NoFile
         /\ Now.ino = path /\ Now.size = Len(files[path])
         /\ Len(files[path]) \in 0..MaxSize /\ files[path] \in Seq(Bytes)
<1>1. Len(files[path]) \in 0..MaxSize /\ files[path] \in Seq(Bytes) /\ path \in Inodes
  BY DEF TypeOK
<1>2. Now \in [ino : Inodes, size : 0..MaxSize] /\ Now.ino = path /\ Now.size = Len(files[path])
  BY <1>1 DEF Now
<1> QED
  BY <1>1, <1>2, LogAssumption DEF LogAssumption

LEMMA ReturnEffect ==
  ASSUME NEW s \in {"satisfied", "unsatisfied"}, NEW c \in BOOLEAN, Return(s, c)
  PROVE  /\ phase' = "idle" /\ info' = NoFile /\ handle' = NoFile
         /\ result' \in [status : {"none", "satisfied", "unsatisfied"}, complete : BOOLEAN]
<1>1. [status |-> s, complete |-> c] \in [status : {"none", "satisfied", "unsatisfied"}, complete : BOOLEAN]
  BY Zenon
<1> QED
  BY <1>1 DEF Return

LEMMA StatFileStep ==
  ASSUME IInv, StatFile
  PROVE  IInv'
<1>1. TypeOK /\ StageInv /\ HistoryInv /\ TrackInv
  BY DEF IInv
<1>2. /\ phase = "idle" /\ path # NoFile
      /\ UNCHANGED <<disk, ops, start, handle, result, missed>>
      /\ info' = Now /\ seenGen' = gen /\ missingInit' = FALSE
  BY <1>1, StatFileEffect
<1>3. /\ Now \in [ino : Inodes, size : 0..MaxSize] /\ Now # NoFile
      /\ Now.ino = path /\ Now.size = Len(files[path])
      /\ Len(files[path]) \in 0..MaxSize /\ files[path] \in Seq(Bytes)
  BY <1>1, <1>2, NowType
<1>4. UNCHANGED <<files, path, gen>>
  BY <1>2 DEF disk
<1> HIDE DEF Now
<1>5. CASE /\ initialized /\ Rotated(Now)
           /\ initialized' = TRUE /\ phase' = "open" /\ prevInfo' = Now
           /\ offset' = 0 /\ matchCount' = 0 /\ base' = base /\ blind' = FALSE
  <2>1. TypeOK'
    BY <1>1, <1>2, <1>3, <1>4, <1>5, Bounds DEF TypeOK
  <2>2. StageInv'
    BY <1>1, <1>2, <1>3, <1>5 DEF StageInv
  <2>3. base = 0
    <3>1. ~ Tracked
      BY <1>1, <1>3, <1>5 DEF Rotated, TrackInv, TypeOK
    <3> QED
      BY <1>1, <1>5, <3>1 DEF HistoryInv
  <2>4. HistoryInv' /\ TrackInv'
    BY <1>1, <1>2, <1>3, <1>4, <1>5, <2>3 DEF HistoryInv, TrackInv, Tracked, TypeOK
  <2> QED
    BY <2>1, <2>2, <2>4 DEF IInv
<1>6. CASE /\ initialized /\ ~ Rotated(Now)
           /\ initialized' = TRUE /\ phase' = "open" /\ prevInfo' = Now
           /\ UNCHANGED <<offset, matchCount, base>>
           /\ blind' \in BOOLEAN /\ (blind' <=> (blind \/ gen # seenGen))
  <2>1. TypeOK'
    BY <1>1, <1>2, <1>3, <1>4, <1>6 DEF TypeOK
  <2>2. StageInv'
    BY <1>1, <1>2, <1>3, <1>6 DEF StageInv
  <2>3. Tracked' <=> Tracked
    BY <1>2, <1>4, <1>6 DEF Tracked
  <2>4. HistoryInv' /\ TrackInv'
    BY <1>1, <1>2, <1>3, <1>4, <1>6, <2>3 DEF HistoryInv, TrackInv, TypeOK
  <2> QED
    BY <2>1, <2>2, <2>4 DEF IInv
<1>7. CASE /\ ~ initialized /\ initialized' = TRUE /\ phase' = "open" /\ prevInfo' = Now
           /\ offset' \in {0, Now.size} /\ base' = offset' /\ blind' = FALSE
           /\ matchCount' = matchCount
  <2>1. TypeOK'
    BY <1>1, <1>2, <1>3, <1>4, <1>7, Bounds DEF TypeOK
  <2>2. StageInv'
    BY <1>1, <1>2, <1>3, <1>7 DEF StageInv
  <2>3. HistoryInv' /\ TrackInv'
    BY <1>1, <1>2, <1>3, <1>4, <1>7 DEF HistoryInv, TrackInv, Tracked, TypeOK
  <2> QED
    BY <2>1, <2>2, <2>3 DEF IInv
<1>8. CASE /\ ~ initialized /\ ~ missingInit /\ initialized' = FALSE /\ phase' = "tail"
           /\ UNCHANGED <<offset, matchCount, prevInfo>> /\ base' = offset /\ blind' = FALSE
  <2>1. TypeOK'
    BY <1>1, <1>2, <1>3, <1>4, <1>8 DEF TypeOK
  <2>2. StageInv'
    BY <1>1, <1>2, <1>3, <1>8 DEF StageInv
  <2>3. HistoryInv' /\ TrackInv'
    BY <1>1, <1>2, <1>3, <1>4, <1>8 DEF HistoryInv, TrackInv, Tracked, TypeOK
  <2> QED
    BY <2>1, <2>2, <2>3 DEF IInv
<1> QED
  BY <1>1, <1>5, <1>6, <1>7, <1>8, StatFileEffect

(* The check ends without having read anything.                            *)
LEMMA FruitlessStep ==
  ASSUME IInv, UNCHANGED <<disk, start, offset, prevInfo, initialized, matchCount, history>>,
         Return("unsatisfied", FALSE), ops' \in 0..MaxOps, missingInit' \in BOOLEAN,
         missingInit' => ~ initialized, missed' \in BOOLEAN
  PROVE  IInv'
<1>1. /\ phase' = "idle" /\ info' = NoFile /\ handle' = NoFile
      /\ result' \in [status : {"none", "satisfied", "unsatisfied"}, complete : BOOLEAN]
  BY ReturnEffect
<1>2. TypeOK'
  BY <1>1 DEF IInv, TypeOK, disk, history
<1>3. StageInv'
  BY <1>1 DEF IInv, StageInv
<1>4. HistoryInv' /\ TrackInv'
  BY <1>1 DEF IInv, HistoryInv, TrackInv, Tracked, disk, history
<1> QED
  BY <1>2, <1>3, <1>4 DEF IInv

LEMMA InitTailStep ==
  ASSUME IInv, InitTail
  PROVE  IInv'
<1>1. TypeOK /\ StageInv /\ HistoryInv /\ TrackInv /\ phase = "tail"
      /\ UNCHANGED <<disk, ops, start, missed>>
  BY DEF IInv, InitTail
<1>2. CASE path = NoFile
  BY <1>1, <1>2, FruitlessStep DEF InitTail, state, StageInv, TypeOK
<1>3. CASE path # NoFile
  <2>1. /\ offset' = ComputeTailOffset(files[path], info.size)
        /\ initialized' = TRUE /\ prevInfo' = info /\ phase' = "open"
        /\ base' = IF seenGen = gen THEN offset' ELSE 0
        /\ UNCHANGED <<info, handle, missingInit, matchCount, result, seenGen, blind>>
    BY <1>3 DEF InitTail
  <2>2. /\ info \in [ino : Inodes, size : 0..MaxSize] /\ info # NoFile /\ info.size \in Nat
        /\ files[path] \in Seq(Bytes) /\ Len(files[path]) \in 0..MaxSize
    BY <1>1, <1>3 DEF TypeOK, StageInv
  <2>3. offset' \in 0..Len(files[path])
    BY <2>1, <2>2, TailOffsetInRange
  <2>4. TypeOK'
    BY <1>1, <2>1, <2>2, <2>3, Bounds DEF TypeOK, disk
  <2>5. StageInv'
    BY <1>1, <2>1, <2>2 DEF StageInv
  <2>6. HistoryInv' /\ TrackInv'
    BY <1>1, <1>3, <2>1, <2>2, <2>3 DEF HistoryInv, TrackInv, Tracked, disk, TypeOK
  <2> QED
    BY <2>4, <2>5, <2>6 DEF IInv
<1> QED
  BY <1>2, <1>3

LEMMA OpenFileStep ==
  ASSUME IInv, OpenFile
  PROVE  IInv'
<1>1. TypeOK /\ StageInv /\ HistoryInv /\ TrackInv /\ phase = "open"
      /\ UNCHANGED <<disk, ops, start, prevInfo, initialized, missingInit, matchCount, history, missed>>
  BY DEF IInv, OpenFile
<1>2. CASE path = NoFile
  BY <1>1, <1>2, FruitlessStep DEF OpenFile, StageInv, TypeOK
<1>3. CASE path # NoFile
  <2>1. /\ phase' = "read" /\ handle' = path /\ UNCHANGED <<info, result>>
        /\ \/ Len(files[path]) < offset /\ offset' = 0
           \/ ~ (Len(files[path]) < offset) /\ offset' = offset
    BY <1>3 DEF OpenFile
  <2>2. TypeOK'
    BY <1>1, <1>3, <2>1, Bounds DEF TypeOK, disk, history
  <2>3. StageInv'
    BY <1>1, <1>3, <2>1 DEF StageInv
  <2>4. HistoryInv' /\ TrackInv'
    BY <1>1, <1>3, <2>1 DEF HistoryInv, TrackInv, Tracked, disk, history, TypeOK
  <2> QED
    BY <2>2, <2>3, <2>4 DEF IInv
<1> QED
  BY <1>2, <1>3

(* A scan commits all that is behind the offset, or nothing.               *)
LEMMA ScanFileEffect ==
  ASSUME TypeOK, StageInv, ScanFile
  PROVE  /\ phase = "read" /\ handle \in Inodes
         /\ UNCHANGED <<disk, ops, start, prevInfo, initialized, missingInit, history>>
         /\ phase' = "idle" /\ info' = NoFile /\ handle' = NoFile
         /\ result' \in [status : {"none", "satisfied", "unsatisfied"}, complete : BOOLEAN]
         /\ \/ UNCHANGED <<offset, matchCount, missed>>
            \/ /\ missed' = FALSE
               /\ matchCount' = matchCount + Matches(From(files[handle], offset))
               /\ offset' = IF offset <= Len(files[handle]) THEN Len(files[handle]) ELSE offset
<1>1. /\ phase = "read" /\ handle \in Inodes
      /\ UNCHANGED <<disk, ops, start, prevInfo, initialized, missingInit, history>>
  BY DEF ScanFile, TypeOK, StageInv
<1>2. /\ Len(files[handle]) \in Nat /\ files[handle] \in Seq(Bytes) /\ offset \in Nat
      /\ Len(Chunk) = IF offset <= Len(files[handle]) THEN Len(files[handle]) - offset ELSE 0
  <2>1. Len(files[handle]) \in Nat /\ files[handle] \in Seq(Bytes) /\ offset \in Nat
    BY <1>1 DEF TypeOK
  <2> QED
    BY <2>1, BehindOffset DEF Chunk
<1>3. CASE Len(Chunk) > MaxScan
  <2>1. Return("unsatisfied", FALSE) /\ UNCHANGED <<offset, matchCount, missed>>
    BY <1>3 DEF ScanFile
  <2>2. /\ phase' = "idle" /\ info' = NoFile /\ handle' = NoFile
        /\ result' \in [status : {"none", "satisfied", "unsatisfied"}, complete : BOOLEAN]
    BY <2>1, ReturnEffect
  <2> QED
    BY <1>1, <2>1, <2>2
<1>4. CASE ~ (Len(Chunk) > MaxScan)
  <2>1. /\ Return(Satisfies(matchCount'), TRUE) /\ matchCount' = matchCount + Matches(Chunk)
        /\ offset' = offset + Len(Chunk) /\ missed' = FALSE
    BY <1>4 DEF ScanFile
  <2>2. Satisfies(matchCount') \in {"satisfied", "unsatisfied"}
    BY DEF Satisfies
  <2>3. /\ phase' = "idle" /\ info' = NoFile /\ handle' = NoFile
        /\ result' \in [status : {"none", "satisfied", "unsatisfied"}, complete : BOOLEAN]
    BY <2>1, <2>2, ReturnEffect
  <2>4. offset' = IF offset <= Len(files[handle]) THEN Len(files[handle]) ELSE offset
    BY <1>2, <2>1
  <2>5. matchCount' = matchCount + Matches(From(files[handle], offset))
    BY <2>1 DEF Chunk
  <2> QED
    BY <1>1, <2>1, <2>3, <2>4, <2>5
<1> QED
  BY <1>3, <1>4

LEMMA ScanFileStep ==
  ASSUME IInv, ScanFile
  PROVE  IInv'
<1>1. /\ TypeOK /\ StageInv /\ HistoryInv /\ TrackInv /\ phase = "read" /\ handle \in Inodes
      /\ UNCHANGED <<disk, ops, start, prevInfo, initialized, missingInit, history>>
      /\ phase' = "idle" /\ info' = NoFile /\ handle' = NoFile
      /\ result' \in [status : {"none", "satisfied", "unsatisfied"}, complete : BOOLEAN]
  BY ScanFileEffect DEF IInv
<1>2. /\ files[handle] \in Seq(Bytes) /\ Len(files[handle]) \in 0..MaxSize
      /\ offset \in 0..MaxSize /\ matchCount \in Nat
  BY <1>1 DEF TypeOK
<1>3. Matches(From(files[handle], offset)) \in Nat
  <2>1. offset \in Nat
    BY <1>2
  <2>2. From(files[handle], offset) \in Seq(Bytes)
    BY <1>2, <2>1, BehindOffset
  <2> QED
    BY <2>2, MatchesType
<1>4. /\ matchCount' \in Nat /\ offset' \in 0..MaxSize /\ offset <= offset'
      /\ offset <= Len(files[handle]) => offset' <= Len(files[handle])
  <2>1. \/ offset' = offset /\ matchCount' = matchCount
        \/ /\ matchCount' = matchCount + Matches(From(files[handle], offset))
           /\ offset' = IF offset <= Len(files[handle]) THEN Len(files[handle]) ELSE offset
    BY <1>1, ScanFileEffect
  <2> QED
    BY <1>2, <1>3, <2>1
<1>5. TypeOK'
  <2>1. missed' \in BOOLEAN
    BY <1>1, ScanFileEffect DEF TypeOK
  <2> QED
    BY <1>1, <1>4, <2>1 DEF TypeOK, disk, history
<1>6. StageInv'
  BY <1>1 DEF StageInv
<1>7. HistoryInv' /\ TrackInv'
  BY <1>1, <1>2, <1>4 DEF HistoryInv, TrackInv, Tracked, TypeOK, disk, history
<1> QED
  BY <1>5, <1>6, <1>7 DEF IInv

LEMMA WriteLogStep ==
  ASSUME IInv, NEW data \in Writes, WriteLog(data)
  PROVE  IInv'
<1>1. /\ TypeOK /\ StageInv /\ HistoryInv /\ TrackInv
      /\ path \in Inodes /\ files[path] \in Seq(Bytes) /\ data \in Seq(Bytes)
      /\ Len(files[path]) + Len(data) <= MaxSize
      /\ files' = [files EXCEPT ![path] = files[path] \o data]
      /\ UNCHANGED <<path, gen, history, start, check, state, result, missed>>
      /\ ops' = ops + 1 /\ ops < MaxOps
  BY LogAssumption DEF WriteLog, MayAct, IInv, TypeOK, LogAssumption
<1>2. /\ files[path] \o data \in Seq(Bytes)
      /\ Len(files[path] \o data) = Len(files[path]) + Len(data)
      /\ Len(files[path]) \in Nat /\ Len(data) \in Nat
  BY <1>1
<1>3. /\ files' \in [Inodes -> Seq(Bytes)] /\ \A i \in Inodes : Len(files'[i]) <= MaxSize
      /\ files'[path] = files[path] \o data
  BY <1>1, <1>2 DEF TypeOK
<1>4. TypeOK'
  BY <1>1, <1>3, Bounds DEF TypeOK, check, state, history
<1>5. StageInv'
  BY <1>1 DEF StageInv, check, state
<1>6. HistoryInv' /\ TrackInv'
  <2>1. HistoryInv'
    BY <1>1 DEF HistoryInv, Tracked, check, state, history
  <2>2. Len(files'[path]) >= Len(files[path])
    BY <1>2, <1>3
  <2>3. offset \in Nat /\ base \in Nat /\ Len(files'[path]) \in Nat
    BY <1>1, <1>2, <1>3 DEF TypeOK
  <2>4. TrackInv'
    BY <1>1, <1>2, <2>2, <2>3 DEF TrackInv, Tracked, check, state, history
  <2> QED
    BY <2>1, <2>4
<1> QED
  BY <1>4, <1>5, <1>6 DEF IInv

LEMMA StepIInv ==
  ASSUME IInv, [Next]_vars
  PROVE  IInv'
<1>1. TypeOK /\ StageInv /\ HistoryInv /\ TrackInv
  BY DEF IInv
<1>2. ASSUME NEW data \in Writes, WriteLog(data)
      PROVE  IInv'
  BY <1>2, WriteLogStep
<1>3. CASE TruncateLog
  <2>1. /\ files' \in [Inodes -> Seq(Bytes)] /\ \A i \in Inodes : Len(files'[i]) <= MaxSize
        /\ path' \in Inodes \cup {NoFile}
    BY <1>1, <1>3, Bounds DEF TruncateLog, TypeOK
  <2> QED
    BY <1>3, <2>1, OutsideStep DEF TruncateLog, MayAct
<1>4. CASE RemoveLog
  <2>1. /\ files' \in [Inodes -> Seq(Bytes)] /\ \A i \in Inodes : Len(files'[i]) <= MaxSize
        /\ path' \in Inodes \cup {NoFile}
    BY <1>1, <1>4 DEF RemoveLog, TypeOK
  <2> QED
    BY <1>4, <2>1, OutsideStep DEF RemoveLog, MayAct
<1>5. ASSUME NEW i \in Inodes, CreateLog(i)
      PROVE  IInv'
  <2>1. /\ files' \in [Inodes -> Seq(Bytes)] /\ \A j \in Inodes : Len(files'[j]) <= MaxSize
        /\ path' \in Inodes \cup {NoFile}
    BY <1>1, <1>5, Bounds DEF CreateLog, TypeOK
  <2> QED
    BY <1>5, <2>1, OutsideStep DEF CreateLog, MayAct
<1>6. CASE StatMissing
  <2>1. /\ ops' \in 0..MaxOps /\ missingInit' \in BOOLEAN
        /\ missingInit' => ~ initialized
        /\ missed' \in BOOLEAN
        /\ Return("unsatisfied", FALSE)
        /\ UNCHANGED <<disk, start, offset, prevInfo, initialized, matchCount, history>>
    BY <1>1, <1>6 DEF StatMissing, TypeOK, StageInv
  <2> QED
    BY <2>1, FruitlessStep
<1>7. CASE ScanCancelled
  <2>1. /\ Return("unsatisfied", FALSE) /\ ops' = ops + 1 /\ ops < MaxOps
        /\ UNCHANGED <<disk, start, state, history, missed>>
    BY <1>7 DEF ScanCancelled
  <2>2. ops' \in 0..MaxOps
    BY <1>1, <2>1, Bounds DEF TypeOK
  <2>3. /\ missingInit' \in BOOLEAN
        /\ missingInit' => ~ initialized
        /\ missed' \in BOOLEAN
        /\ UNCHANGED <<disk, start, offset, prevInfo, initialized, matchCount, history>>
    BY <1>1, <2>1 DEF TypeOK, StageInv, state
  <2> QED
    BY <2>1, <2>2, <2>3, FruitlessStep
<1>8. CASE StatFile \/ InitTail \/ OpenFile \/ ScanFile
  BY <1>8, StatFileStep, InitTailStep, OpenFileStep, ScanFileStep
<1>9. CASE UNCHANGED vars
  <2>1. UNCHANGED <<disk, ops, start, check, state, result, history, missed>>
    BY <1>9 DEF vars
  <2>2. TypeOK'
    BY <1>1, <2>1 DEF TypeOK, disk, check, state, history
  <2>3. StageInv' /\ HistoryInv' /\ TrackInv'
    BY <1>1, <2>1 DEF StageInv, HistoryInv, TrackInv, Tracked, disk, check, state, history
  <2> QED
    BY <2>2, <2>3 DEF IInv
<1> QED
  BY <1>2, <1>3, <1>4, <1>5, <1>6, <1>7, <1>8, <1>9 DEF Next, Check

(* What a log condition remembers fits together, for every log, whatever   *)
(* is done to it at any time.                                              *)
THEOREM Invariance == Spec => []IInv
  BY InitIInv, StepIInv, PTL DEF Spec

(* Types hold: an offset never leaves the longest file there was, neither  *)
(* by a scan of a file that shrank under it nor by a tail (LogCondition).  *)
THEOREM TypeCorrect == Spec => []TypeOK
<1>1. IInv => TypeOK
  BY DEF IInv
<1> QED
  BY <1>1, Invariance, PTL

(* A check that finds no file leaves either a condition that has not begun *)
(* to follow one and knows that it was missing, or one that follows a file *)
(* that is gone: the next file is then taken for a new one, unless it      *)
(* cannot be told from the old.                                            *)
MissedInv ==
  missed =>
    \/ ~ initialized /\ missingInit
    \/ /\ initialized
       /\ offset = 0 \/ blind \/ (phase = "idle" /\ seenGen # gen)

LEMMA ReplacedKeepsMissed ==
  ASSUME IInv, MissedInv, UNCHANGED <<check, state, missed>>, Replaced
  PROVE  MissedInv'
<1>1. seenGen' = seenGen /\ gen' = gen + 1 /\ seenGen <= gen /\ seenGen \in Nat /\ gen \in Nat
  BY DEF Replaced, IInv, TypeOK, HistoryInv
<1>2. phase # "idle" => blind'
  BY DEF Replaced
<1>3. blind => blind'
  BY DEF Replaced
<1>4. seenGen' # gen'
  BY <1>1
<1> QED
  BY <1>2, <1>3, <1>4 DEF MissedInv, check, state

LEMMA StatFileKeepsMissed ==
  ASSUME IInv, MissedInv, StatFile
  PROVE  MissedInv'
<1>1. TypeOK /\ StageInv
  BY DEF IInv
<1>2. gen' = gen /\ seenGen' = gen /\ missed' = missed /\ phase = "idle"
  BY <1>1, StatFileEffect DEF disk
<1>3. CASE initialized /\ initialized' = TRUE /\ offset' = 0
  BY <1>3 DEF MissedInv
<1>4. CASE initialized /\ initialized' = TRUE /\ offset' = offset /\ (blind' <=> (blind \/ gen # seenGen))
  BY <1>2, <1>4 DEF MissedInv
<1>5. CASE ~ initialized /\ initialized' = TRUE /\ (missingInit => offset' = 0)
  BY <1>2, <1>5 DEF MissedInv
<1>6. CASE ~ initialized /\ ~ missingInit
  BY <1>2, <1>6 DEF MissedInv
<1> QED
  BY <1>1, <1>3, <1>4, <1>5, <1>6, StatFileEffect

LEMMA StepKeepsMissed ==
  ASSUME IInv, MissedInv, [Next]_vars
  PROVE  MissedInv'
<1>1. TypeOK /\ StageInv /\ TrackInv
  BY DEF IInv
<1>2. ASSUME UNCHANGED <<phase, offset, initialized, missingInit, gen, seenGen, blind>>,
             missed' \in {FALSE, missed}
      PROVE  MissedInv'
  BY <1>2 DEF MissedInv
<1>3. ASSUME NEW data \in Writes, WriteLog(data)
      PROVE  MissedInv'
  BY <1>2, <1>3 DEF WriteLog, MayAct, check, state, history
<1>4. CASE TruncateLog \/ RemoveLog \/ \E i \in Inodes : CreateLog(i)
  BY <1>4, ReplacedKeepsMissed DEF TruncateLog, RemoveLog, CreateLog, MayAct
<1>5. CASE StatMissing
  <2>1. /\ phase' = "idle" /\ initialized' = initialized /\ offset' = offset
        /\ seenGen' = seenGen /\ gen' = gen /\ blind' = blind
        /\ missingInit' = (missingInit \/ ~ initialized) /\ path = NoFile
    BY <1>5 DEF StatMissing, Return, disk, history
  <2>2. initialized => ~ Tracked
    BY <1>1, <2>1 DEF TrackInv
  <2> QED
    BY <1>1, <2>1, <2>2 DEF MissedInv, Tracked, TypeOK
<1>6. CASE StatFile
  BY <1>6, StatFileKeepsMissed
<1>7. CASE InitTail
  <2>1. missed' = missed /\ ~ initialized /\ ~ missingInit
    BY <1>1, <1>7 DEF InitTail, StageInv
  <2> QED
    BY <2>1 DEF MissedInv
<1>8. CASE OpenFile
  <2>1. /\ UNCHANGED <<initialized, missingInit, gen, seenGen, blind, missed>>
        /\ offset' \in {0, offset} /\ phase = "open"
    BY <1>8 DEF OpenFile, disk, history
  <2> QED
    BY <1>1, <2>1 DEF MissedInv, StageInv
<1>9. CASE ScanFile
  <2>1. /\ UNCHANGED <<initialized, missingInit, gen, seenGen, blind>> /\ phase = "read"
        /\ missed' = FALSE \/ UNCHANGED <<offset, missed>>
    BY <1>1, <1>9, ScanFileEffect DEF disk, history
  <2> QED
    BY <1>1, <2>1 DEF MissedInv, StageInv
<1>10. CASE ScanCancelled
  <2>1. UNCHANGED <<offset, initialized, missingInit, gen, seenGen, blind, missed>> /\ phase = "read"
    BY <1>10 DEF ScanCancelled, disk, history, state
  <2> QED
    BY <1>1, <2>1 DEF MissedInv, StageInv
<1>11. CASE UNCHANGED vars
  BY <1>2, <1>11 DEF vars, disk, check, state, history
<1> QED
  BY <1>3, <1>4, <1>5, <1>6, <1>7, <1>8, <1>9, <1>10, <1>11 DEF Next, Check

(* Once a check has found no file, what is scanned next is scanned from    *)
(* its first byte, however the condition was told to start and whatever    *)
(* happens in between (missingInit, resetOnRotation).                      *)
THEOREM AppearedFilesAreRead == Spec => []AppearedIsReadInFull
<1>1. Init => MissedInv
  BY DEF Init, MissedInv
<1>2. IInv /\ MissedInv /\ [Next]_vars => MissedInv'
  BY StepKeepsMissed
<1>3. IInv /\ MissedInv => AppearedIsReadInFull
  <2> SUFFICES ASSUME IInv, MissedInv PROVE AppearedIsReadInFull
    OBVIOUS
  <2>1. StageInv
    BY DEF IInv
  <2> QED
    BY <2>1 DEF MissedInv, StageInv, AppearedIsReadInFull
<1> QED
  BY <1>1, <1>2, <1>3, Invariance, PTL DEF Spec

-----------------------------------------------------------------------------
(* The count, when every write is made of whole lines.                     *)
Whole(data) == data = <<>> \/ data[Len(data)] = "n"

LinesComeWhole == \A d \in Writes \cup InitialData : Whole(d)

CountInv ==
  /\ \A i \in Inodes : Whole(files[i])
  /\ Tracked => /\ offset = base \/ files[path][offset] = "n"
                /\ matchCount = Matches(SubSeq(files[path], base + 1, offset))

LEMMA WholeGrows ==
  ASSUME NEW a \in Seq(Bytes), NEW b \in Seq(Bytes), Whole(a), Whole(b)
  PROVE  Whole(a \o b)
<1>1. CASE b = <<>>
  BY <1>1 DEF Whole
<1>2. CASE b # <<>>
  <2>1. /\ Len(b) \in 1..Len(b) /\ b[Len(b)] = "n"
        /\ Len(a \o b) = Len(a) + Len(b) /\ Len(a) \in Nat
    BY <1>2 DEF Whole
  <2>2. (a \o b)[Len(a) + Len(b)] = b[Len(b)]
    BY <2>1
  <2> QED
    BY <2>1, <2>2 DEF Whole
<1> QED
  BY <1>1, <1>2

(* What lies before an offset stays as it is when the file grows.          *)
LEMMA PieceStays ==
  ASSUME NEW a \in Seq(Bytes), NEW b \in Seq(Bytes), NEW from \in Nat, NEW to \in Nat,
         from <= to, to <= Len(a)
  PROVE  SubSeq(a \o b, from + 1, to) = SubSeq(a, from + 1, to)
<1> DEFINE s == SubSeq(a \o b, from + 1, to)
           t == SubSeq(a, from + 1, to)
<1>1. /\ s \in Seq(Bytes) /\ t \in Seq(Bytes) /\ Len(s) = to - from /\ Len(t) = to - from
  OBVIOUS
<1>2. \A i \in 1..(to - from) : s[i] = (a \o b)[from + i] /\ t[i] = a[from + i]
  OBVIOUS
<1>3. \A i \in 1..(to - from) : (a \o b)[from + i] = a[from + i]
  OBVIOUS
<1> HIDE DEF s, t
<1>4. s = t
  BY <1>1, <1>2, <1>3, SeqEqual
<1> QED
  BY <1>4 DEF s, t

(* Nothing is followed yet: the count is that of no bytes.                 *)
LEMMA NothingFollowed ==
  ASSUME NEW data \in Seq(Bytes), NEW k \in Nat
  PROVE  Matches(SubSeq(data, k + 1, k)) = 0
<1>1. SubSeq(data, k + 1, k) = <<>>
  OBVIOUS
<1> QED
  BY <1>1, NoMatches

LEMMA InitCounts == ASSUME LinesComeWhole PROVE Init => CountInv
<1> SUFFICES ASSUME Init PROVE CountInv
  OBVIOUS
<1>1. \A i \in Inodes : files[i] \in InitialData
  BY DEF Init
<1> QED
  BY <1>1 DEF CountInv, LinesComeWhole, Tracked, Init

LEMMA QuietCount ==
  ASSUME CountInv, UNCHANGED <<files, path, gen, seenGen, blind, initialized, offset, base, matchCount>>
  PROVE  CountInv'
  BY DEF CountInv, Tracked

(* What is followed from now on, or from somewhere new, starts at nothing. *)
LEMMA AfreshCount ==
  ASSUME IInv, CountInv, UNCHANGED <<files, path>>, path # NoFile,
         base' = offset', offset' \in Nat, matchCount' = 0
  PROVE  CountInv'
<1>1. files[path] \in Seq(Bytes)
  BY DEF IInv, TypeOK
<1> QED
  BY <1>1, NothingFollowed DEF CountInv

LEMMA UntrackedCount ==
  ASSUME IInv, CountInv, \A i \in Inodes : Whole(files'[i]), ~ Tracked'
  PROVE  CountInv'
  BY DEF CountInv

LEMMA ReplacedUntracks ==
  ASSUME IInv, Replaced
  PROVE  ~ Tracked'
  BY DEF IInv, TypeOK, HistoryInv, Replaced, Tracked

LEMMA StatFileCounts ==
  ASSUME IInv, CountInv, StatFile
  PROVE  CountInv'
<1>1. TypeOK /\ StageInv /\ HistoryInv /\ TrackInv
  BY DEF IInv
<1>2. /\ path # NoFile /\ UNCHANGED <<files, path, gen>> /\ seenGen' = gen
  BY <1>1, StatFileEffect DEF disk
<1>3. Now.ino = path /\ Now.size = Len(files[path]) /\ Now.size \in Nat /\ offset \in Nat
  BY <1>1, <1>2, NowType DEF TypeOK
<1>4. CASE initialized /\ Rotated(Now) /\ offset' = 0 /\ matchCount' = 0 /\ base' = base
  <2>1. ~ Tracked
    BY <1>1, <1>3, <1>4 DEF Rotated, TrackInv, TypeOK
  <2>2. base' = offset'
    BY <1>1, <1>4, <2>1 DEF HistoryInv
  <2> QED
    BY <1>2, <1>4, <2>2, AfreshCount
<1>5. CASE /\ initialized /\ initialized' = TRUE /\ UNCHANGED <<offset, matchCount, base>>
           /\ (blind' <=> (blind \/ gen # seenGen))
  <2>1. Tracked' <=> Tracked
    BY <1>2, <1>5 DEF Tracked
  <2> QED
    BY <1>2, <1>5, <2>1 DEF CountInv
<1>6. CASE ~ initialized /\ offset' \in {0, Now.size} /\ base' = offset' /\ matchCount' = matchCount
  BY <1>1, <1>2, <1>3, <1>6, AfreshCount DEF StageInv
<1>7. CASE ~ initialized /\ UNCHANGED <<offset, matchCount>> /\ base' = offset
  BY <1>1, <1>2, <1>3, <1>7, AfreshCount DEF StageInv
<1> QED
  BY <1>1, <1>4, <1>5, <1>6, <1>7, StatFileEffect

LEMMA ScanFileCounts ==
  ASSUME IInv, CountInv, ScanFile
  PROVE  CountInv'
<1>1. TypeOK /\ StageInv /\ HistoryInv /\ TrackInv
  BY DEF IInv
<1>2. /\ phase = "read" /\ handle \in Inodes
      /\ UNCHANGED <<files, path, gen, seenGen, blind, initialized, base>>
  BY <1>1, ScanFileEffect DEF disk, history
<1>3. CASE UNCHANGED <<offset, matchCount>>
  BY <1>2, <1>3, QuietCount
<1>4. CASE /\ matchCount' = matchCount + Matches(From(files[handle], offset))
           /\ offset' = IF offset <= Len(files[handle]) THEN Len(files[handle]) ELSE offset
  <2>1. SUFFICES ASSUME Tracked
                 PROVE  /\ offset' = base \/ files[path][offset'] = "n"
                        /\ matchCount' = Matches(SubSeq(files[path], base + 1, offset'))
    BY <1>2 DEF CountInv, Tracked
  <2>2. /\ path = handle /\ base <= offset /\ offset <= Len(files[path])
        /\ path \in Inodes /\ files[path] \in Seq(Bytes)
        /\ base \in Nat /\ offset \in Nat /\ Len(files[path]) \in Nat
    BY <1>1, <1>2, <2>1 DEF TrackInv, TypeOK
  <2>3. offset' = Len(files[path])
    BY <1>4, <2>2
  <2>4. offset' = base \/ files[path][offset'] = "n"
    <3>1. Whole(files[path])
      BY <2>2 DEF CountInv
    <3>2. CASE files[path] = <<>>
      BY <2>2, <2>3, <3>2
    <3>3. CASE files[path] # <<>>
      BY <2>3, <3>1, <3>3 DEF Whole
    <3> QED
      BY <3>2, <3>3
  <2>5. /\ offset = base \/ files[path][offset] = "n"
        /\ matchCount = Matches(SubSeq(files[path], base + 1, offset))
    BY <2>1 DEF CountInv
  <2>6. Matches(SubSeq(files[path], base + 1, offset))
          + Matches(SubSeq(files[path], offset + 1, Len(files[path])))
        = Matches(SubSeq(files[path], base + 1, Len(files[path])))
    BY <2>2, <2>5, MatchesAddUp
  <2>7. From(files[handle], offset) = SubSeq(files[path], offset + 1, Len(files[path]))
    BY <2>2 DEF From
  <2> QED
    BY <1>4, <2>3, <2>4, <2>5, <2>6, <2>7
<1> QED
  BY <1>1, <1>3, <1>4, ScanFileEffect

LEMMA WriteLogCounts ==
  ASSUME LinesComeWhole, IInv, CountInv, NEW data \in Writes, WriteLog(data)
  PROVE  CountInv'
<1>1. /\ TypeOK /\ TrackInv /\ path \in Inodes /\ files[path] \in Seq(Bytes) /\ data \in Seq(Bytes)
      /\ files' = [files EXCEPT ![path] = files[path] \o data]
      /\ UNCHANGED <<path, gen, history, start, check, state, result, missed>>
  BY LogAssumption DEF WriteLog, MayAct, IInv, TypeOK, LogAssumption
<1>2. UNCHANGED <<path, gen, seenGen, blind, initialized, offset, base, matchCount>>
  BY <1>1 DEF history, state
<1>3. files'[path] = files[path] \o data /\ \A i \in Inodes : i # path => files'[i] = files[i]
  BY <1>1 DEF TypeOK
<1>4. Whole(files[path] \o data)
  BY <1>1, WholeGrows DEF LinesComeWhole, CountInv
<1>5. \A i \in Inodes : Whole(files'[i])
  BY <1>3, <1>4 DEF CountInv
<1>6. ASSUME Tracked
      PROVE  /\ offset = base \/ files'[path][offset] = "n"
             /\ matchCount = Matches(SubSeq(files'[path], base + 1, offset))
  <2>1. /\ base <= offset /\ offset <= Len(files[path])
        /\ base \in Nat /\ offset \in Nat /\ Len(files[path]) \in Nat
    BY <1>1, <1>6 DEF TrackInv, TypeOK
  <2>2. SubSeq(files[path] \o data, base + 1, offset) = SubSeq(files[path], base + 1, offset)
    BY <1>1, <2>1, PieceStays
  <2>3. ASSUME offset # base
        PROVE  (files[path] \o data)[offset] = files[path][offset]
    <3>1. offset \in 1..Len(files[path])
      BY <2>1, <2>3
    <3> QED
      BY <1>1, <3>1
  <2> QED
    BY <1>3, <1>6, <2>2, <2>3 DEF CountInv
<1> QED
  BY <1>2, <1>5, <1>6 DEF CountInv, Tracked

LEMMA StepCounts ==
  ASSUME LinesComeWhole, IInv, CountInv, [Next]_vars
  PROVE  CountInv'
<1>1. TypeOK /\ StageInv /\ HistoryInv /\ TrackInv /\ Whole(<<>>)
  BY DEF IInv, Whole
<1>2. ASSUME NEW data \in Writes, WriteLog(data)
      PROVE  CountInv'
  BY <1>2, WriteLogCounts
<1>3. ASSUME Replaced, \A i \in Inodes : files'[i] \in {files[i], <<>>}
      PROVE  CountInv'
  <2>1. \A i \in Inodes : Whole(files'[i])
    BY <1>1, <1>3 DEF CountInv
  <2> QED
    BY <1>3, <2>1, ReplacedUntracks, UntrackedCount
<1>4. CASE TruncateLog \/ RemoveLog \/ \E i \in Inodes : CreateLog(i)
  BY <1>1, <1>3, <1>4 DEF TruncateLog, RemoveLog, CreateLog, TypeOK
<1>5. CASE StatMissing
  BY <1>5, QuietCount DEF StatMissing, disk, history
<1>6. CASE InitTail
  <2>1. CASE path = NoFile
    BY <1>6, <2>1, QuietCount DEF InitTail, state, history, disk
  <2>2. CASE path # NoFile /\ seenGen = gen
    <3>1. offset' = ComputeTailOffset(files[path], info.size) /\ base' = offset' /\ matchCount' = matchCount
          /\ UNCHANGED <<files, path>> /\ phase = "tail"
      BY <1>6, <2>2 DEF InitTail, disk
    <3>2. files[path] \in Seq(Bytes) /\ info.size \in Nat
      BY <1>1, <2>2, <3>1 DEF TypeOK, StageInv
    <3>3. offset' \in Nat
      BY <3>1, <3>2, TailOffsetInRange
    <3>4. matchCount = 0
      BY <1>1, <3>1 DEF StageInv, TypeOK
    <3> QED
      BY <2>2, <3>1, <3>3, <3>4, AfreshCount
  <2>3. CASE path # NoFile /\ seenGen # gen
    <3>1. ~ Tracked' /\ UNCHANGED <<files, path>>
      BY <1>6, <2>3 DEF InitTail, disk, Tracked
    <3> QED
      BY <3>1 DEF CountInv
  <2> QED
    BY <2>1, <2>2, <2>3
<1>7. CASE OpenFile
  <2>1. UNCHANGED <<files, path, gen, seenGen, blind, initialized, base, matchCount>>
    BY <1>7 DEF OpenFile, disk, history
  <2>2. Tracked => offset' = offset
    BY <1>1, <1>7 DEF OpenFile, TrackInv, TypeOK
  <2> QED
    BY <2>1, <2>2 DEF CountInv, Tracked
<1>8. CASE ScanCancelled
  BY <1>8, QuietCount DEF ScanCancelled, disk, history, state
<1>9. CASE UNCHANGED vars
  BY <1>9, QuietCount DEF vars, disk, history, state
<1> QED
  BY <1>2, <1>4, <1>5, <1>6, <1>7, <1>8, <1>9, StatFileCounts, ScanFileCounts DEF Next, Check

(* No line of the file that is followed is lost or counted twice, by any   *)
(* number of polls, with any sizes and limits, if lines are written whole  *)
(* (scanLines, resetOnRotation).                                           *)
THEOREM CountsAreExact == ASSUME LinesComeWhole PROVE Spec => []CountExact
<1>1. Init => CountInv
  BY InitCounts
<1>2. IInv /\ CountInv /\ [Next]_vars => CountInv'
  BY StepCounts
<1>3. IInv /\ CountInv => CountExact
  BY DEF IInv, TypeOK, TrackInv, CountInv, CountExact, Following, Tracked
<1> QED
  BY <1>1, <1>2, <1>3, Invariance, PTL DEF Spec

-----------------------------------------------------------------------------
(* The last lines of a file. Numbers can be counted from the largest.      *)
LEMMA RankExists ==
  ASSUME NEW E \in SUBSET Int, IsFiniteSet(E), NEW n \in 1..Cardinality(E)
  PROVE  \E p \in E : Cardinality({q \in E : q >= p}) = n
<1> DEFINE Upper(p) == {q \in E : q >= p}
           k == Cardinality(E)
           f == [p \in E |-> Cardinality(Upper(p))]
<1>1. k \in Nat
  BY FS_CardinalityType
<1>2. ASSUME NEW p \in E
      PROVE  IsFiniteSet(Upper(p)) /\ Cardinality(Upper(p)) \in 1..k
  <2>1. Upper(p) \in SUBSET E /\ p \in Upper(p)
    OBVIOUS
  <2>2. IsFiniteSet(Upper(p)) /\ Cardinality(Upper(p)) <= k
    BY <2>1, FS_Subset
  <2>3. Cardinality(Upper(p)) \in Nat /\ Cardinality(Upper(p)) # 0
    BY <2>1, <2>2, FS_CardinalityType, FS_EmptySet
  <2> QED
    BY <1>1, <2>2, <2>3
<1>3. ASSUME NEW a \in E, NEW b \in E, a < b
      PROVE  Cardinality(Upper(a)) # Cardinality(Upper(b))
  <2>1. a \in Int /\ b \in Int /\ a < b
    BY <1>3
  <2>2. a \in Upper(a) /\ a \notin Upper(b)
    BY <2>1
  <2>3. ASSUME NEW q \in Upper(b) PROVE q \in Upper(a)
    <3>1. q \in E /\ q \in Int /\ q >= b
      BY <2>3
    <3>2. q >= a
      BY <2>1, <3>1
    <3> QED
      BY <3>1, <3>2
  <2>4. Upper(b) \in SUBSET Upper(a)
    BY <2>3
  <2> QED
    BY <1>2, <2>2, <2>4, FS_Subset
<1>4. f \in [E -> 1..k]
  BY <1>2
<1>5. \A a, b \in E : f[a] = f[b] => a = b
  BY <1>3
<1>6. f \in Injection(E, 1..k)
  BY <1>4, <1>5, Fun_IsInj
<1>7. IsFiniteSet(1..k) /\ Cardinality(1..k) = k
  BY <1>1, FS_Interval
<1>8. f \in Surjection(E, 1..k)
  BY <1>6, <1>7, FS_Injection
<1>9. \A p \in E : f[p] = Cardinality(Upper(p))
  OBVIOUS
<1> HIDE DEF f
<1>10. \A t \in 1..k : \E p \in E : f[p] = t
  BY <1>8 DEF Surjection
<1> QED
  BY <1>9, <1>10

(* The newlines between the lines of a file.                               *)
Ends(data) == Newlines(data) \ {Len(data)}

LEMMA EndsOfLines ==
  ASSUME NEW data \in Seq(Bytes), data # <<>>
  PROVE  /\ Ends(data) \in SUBSET Int /\ Ends(data) \in SUBSET (1..Len(data) - 1)
         /\ IsFiniteSet(Ends(data)) /\ Cardinality(Ends(data)) \in Nat
         /\ Lines(data) = Cardinality(Ends(data)) + 1
<1>1. Len(data) \in 1..Len(data)
  OBVIOUS
<1>2. IsFiniteSet(Newlines(data)) /\ Newlines(data) \subseteq 1..Len(data)
  BY FewNewlines
<1>3. Ends(data) \in SUBSET Int /\ Ends(data) \in SUBSET (1..Len(data) - 1)
  BY <1>1, <1>2 DEF Ends
<1>4. /\ IsFiniteSet(Ends(data))
      /\ Cardinality(Ends(data)) = IF Len(data) \in Newlines(data)
                                   THEN Cardinality(Newlines(data)) - 1
                                   ELSE Cardinality(Newlines(data))
  BY <1>2, FS_RemoveElement DEF Ends
<1>5. Cardinality(Newlines(data)) \in Nat /\ Cardinality(Ends(data)) \in Nat
  BY <1>2, <1>4, FS_CardinalityType
<1>6. Len(data) \in Newlines(data) <=> data[Len(data)] = "n"
  BY <1>1, NewlineIs
<1>7. Lines(data) = Cardinality(Newlines(data)) + (IF data[Len(data)] = "n" THEN 0 ELSE 1)
  BY DEF Lines
<1> QED
  BY <1>3, <1>4, <1>5, <1>6, <1>7

(* Behind the n-th newline from the end, the one that ends it not counted, *)
(* a file has n lines.                                                     *)
LEMMA TailHasLines ==
  ASSUME NEW data \in Seq(Bytes), data # <<>>, NEW n \in Nat \ {0}, NEW p \in Ends(data),
         Cardinality({q \in Ends(data) : q >= p}) = n
  PROVE  Lines(From(data, p)) = n
<1> DEFINE t == From(data, p)
           upper == {q \in Ends(data) : q >= p}
           rest == upper \ {p}
<1>1. /\ Ends(data) \in SUBSET Int /\ Ends(data) \in SUBSET (1..Len(data) - 1)
      /\ IsFiniteSet(Ends(data)) /\ Len(data) \in Nat
  BY EndsOfLines
<1>2. p \in Int /\ p >= 1 /\ p < Len(data)
  BY <1>1
<1>3. /\ t \in Seq(Bytes) /\ Len(t) = Len(data) - p /\ Len(t) > 0 /\ t # <<>>
      /\ \A i \in 1..Len(t) : t[i] = data[p + i]
  BY <1>1, <1>2 DEF From
<1> HIDE DEF t
<1>4. /\ Ends(t) \in SUBSET Int /\ Ends(t) \in SUBSET (1..Len(t) - 1) /\ IsFiniteSet(Ends(t))
      /\ Lines(t) = Cardinality(Ends(t)) + 1 /\ Cardinality(Ends(t)) \in Nat
  BY <1>3, EndsOfLines
<1>5. rest = {p + r : r \in Ends(t)}
  <2>1. ASSUME NEW q \in rest PROVE q - p \in Ends(t) /\ q = p + (q - p)
    <3>1. q \in Newlines(data) /\ q \in Int /\ q > p /\ q < Len(data)
      BY <1>1, <1>2 DEF Ends
    <3>2. q - p \in 1..Len(t) /\ q - p # Len(t) /\ q = p + (q - p)
      BY <1>1, <1>2, <1>3, <3>1
    <3>3. t[q - p] = "n"
      BY <1>3, <3>1, <3>2, NewlineIs
    <3> QED
      BY <1>3, <3>2, <3>3, NewlineIs DEF Ends
  <2>2. ASSUME NEW r \in Ends(t) PROVE p + r \in rest
    <3>1. r \in 1..Len(t) /\ t[r] = "n" /\ r # Len(t) /\ r \in Int
      BY <1>3, <1>4, NewlineIs DEF Ends
    <3>2. p + r \in 1..Len(data) /\ p + r # Len(data) /\ p + r > p
      BY <1>1, <1>2, <1>3, <3>1
    <3>3. data[p + r] = "n"
      BY <1>3, <3>1
    <3>4. p + r \in Ends(data)
      BY <3>2, <3>3, NewlineIs DEF Ends
    <3> QED
      BY <1>2, <3>2, <3>4
  <2> QED
    BY <2>1, <2>2
<1>6. IsFiniteSet(upper) /\ p \in upper
  BY <1>1, <1>2, FS_Subset
<1>7. Cardinality(rest) = n - 1
  BY <1>6, FS_RemoveElement
<1>8. Cardinality(rest) = Cardinality(Ends(t))
  BY <1>2, <1>4, <1>5, RaisedSet
<1>9. Lines(t) = n
  BY <1>4, <1>7, <1>8
<1> QED
  BY <1>9 DEF t

(* The newlines behind which n lines are left, and what they are for.      *)
Cuts(data, n) == {p \in Ends(data) : Cardinality({q \in Ends(data) : q >= p}) = n}

LEMMA TailStartCuts ==
  ASSUME NEW data, NEW first, NEW n
  PROVE  \/ Cuts(data, n) = {} /\ FindTailStart(data, first, n) = first
         \/ \E p \in Cuts(data, n) : FindTailStart(data, first, n) = first + p
<1>1. FindTailStart(data, first, n)
        = IF Cuts(data, n) = {} THEN first ELSE first + (CHOOSE p \in Cuts(data, n) : TRUE)
  BY DEF FindTailStart, Cuts, Ends
<1> QED
  BY <1>1

LEMMA FewCuts ==
  ASSUME NEW data \in Seq(Bytes), data # <<>>, NEW n \in Nat \ {0}
  PROVE  /\ Cuts(data, n) = {} => Cardinality(Ends(data)) < n
         /\ Cuts(data, n) # {} => n <= Cardinality(Ends(data))
<1> DEFINE E == Ends(data)
<1>1. E \in SUBSET Int /\ IsFiniteSet(E) /\ Cardinality(E) \in Nat
  BY EndsOfLines
<1>2. Cuts(data, n) = {p \in E : Cardinality({q \in E : q >= p}) = n}
  BY DEF Cuts
<1> HIDE DEF E
<1>3. ASSUME NEW p \in Cuts(data, n) PROVE n <= Cardinality(E)
  <2>1. {q \in E : q >= p} \in SUBSET E /\ Cardinality({q \in E : q >= p}) = n
    BY <1>2
  <2> QED
    BY <1>1, <2>1, FS_Subset
<1>4. ASSUME n \in 1..Cardinality(E) PROVE Cuts(data, n) # {}
  <2>1. PICK p \in E : Cardinality({q \in E : q >= p}) = n
    BY <1>1, <1>4, RankExists
  <2> QED
    BY <1>2, <2>1
<1>5. Cuts(data, n) = {} => Cardinality(E) < n
  BY <1>1, <1>4
<1> QED
  BY <1>3, <1>5 DEF E

(* A file that is looked at from its start.                                *)
LEMMA TailStartIsRight ==
  ASSUME NEW data \in Seq(Bytes), NEW n \in Nat \ {0}
  PROVE  LET at == FindTailStart(data, 0, n) IN
         /\ at = 0 \/ data[at] = "n"
         /\ Lines(From(data, at)) = IF Lines(data) < n THEN Lines(data) ELSE n
<1> DEFINE at == FindTailStart(data, 0, n)
<1>1. From(data, 0) = data
  BY SubSeqFull DEF From
<1>2. CASE data = <<>>
  <2>1. Newlines(data) = {}
    <3>1. Len(data) = 0
      BY <1>2
    <3>2. Newlines(data) \subseteq 1..0
      BY <3>1, FewNewlines
    <3> QED
      BY <3>2
  <2>2. Lines(data) = 0
    BY <1>2, <2>1, FS_EmptySet DEF Lines
  <2>3. Cuts(data, n) = {}
    BY <2>1 DEF Ends, Cuts
  <2>4. at = 0
    BY <2>3, TailStartCuts
  <2> QED
    BY <1>1, <2>2, <2>4
<1>3. ASSUME data # <<>>
      PROVE  /\ Ends(data) \in SUBSET Int /\ Cardinality(Ends(data)) \in Nat
             /\ Lines(data) = Cardinality(Ends(data)) + 1
  BY <1>3, EndsOfLines
<1>4. CASE data # <<>> /\ Cuts(data, n) = {}
  <2>1. at = 0
    BY <1>4, TailStartCuts
  <2>2. Lines(data) <= n /\ Lines(data) \in Nat
    BY <1>3, <1>4, FewCuts
  <2> QED
    BY <1>1, <2>1, <2>2
<1>5. CASE data # <<>> /\ Cuts(data, n) # {}
  <2>1. PICK p \in Cuts(data, n) : at = 0 + p
    BY <1>5, TailStartCuts
  <2>2. p \in Ends(data) /\ Cardinality({q \in Ends(data) : q >= p}) = n
    BY DEF Cuts
  <2>3. p \in Int /\ data[p] = "n"
    BY <1>3, <1>5, <2>2, NewlineIs DEF Ends
  <2>4. Lines(From(data, p)) = n
    BY <1>5, <2>2, TailHasLines
  <2>5. ~ (Lines(data) < n)
    BY <1>3, <1>5, FewCuts
  <2>6. at = p
    BY <2>1, <2>3
  <2> QED
    BY <2>3, <2>4, <2>5, <2>6
<1> QED
  BY <1>2, <1>4, <1>5

(* A file of which the last m bytes are looked at: the newlines in these   *)
(* and the lines that begin there.                                         *)
LEMMA WindowOfLines ==
  ASSUME NEW data \in Seq(Bytes), NEW k \in Nat \ {0}, k < Len(data)
  PROVE  LET w == From(data, k)
             late == {i \in Begins(data) : i > k}
         IN  /\ w \in Seq(Bytes) /\ Len(w) = Len(data) - k /\ w # <<>>
             /\ \A i \in 1..Len(w) : w[i] = data[k + i]
             /\ Cardinality(Ends(w)) <= Cardinality(Ends(data))
             /\ Cardinality(late) \in Nat /\ Cardinality(late) <= Cardinality(Ends(w)) + 1
             /\ Cardinality(late) > Cardinality(Ends(w)) => data[k] = "n"
<1> DEFINE w == From(data, k)
           late == {i \in Begins(data) : i > k}
           later == late \ {k + 1}
           behind == {(k + 1) + r : r \in Ends(w)}
           raised == {k + r : r \in Ends(w)}
<1>1. /\ w \in Seq(Bytes) /\ Len(w) = Len(data) - k /\ Len(w) > 0 /\ w # <<>>
      /\ \A i \in 1..Len(w) : w[i] = data[k + i]
  <2>1. Len(data) \in Nat /\ Len(data) - k > 0
    OBVIOUS
  <2>2. w \in Seq(Bytes) /\ Len(w) = Len(data) - k
    <3>1. k \in Nat /\ k <= Len(data)
      BY <2>1
    <3> QED
      BY <3>1, BehindOffset
  <2>3. \A i \in 1..(Len(data) - k) : w[i] = data[k + i]
    BY <2>1 DEF From
  <2> HIDE DEF w
  <2> QED
    BY <2>1, <2>2, <2>3
<1> HIDE DEF w
<1>2. data # <<>> /\ Len(data) \in Nat
  OBVIOUS
<1>3. /\ Ends(data) \in SUBSET Int /\ IsFiniteSet(Ends(data)) /\ Cardinality(Ends(data)) \in Nat
      /\ Ends(w) \in SUBSET Int /\ IsFiniteSet(Ends(w)) /\ Cardinality(Ends(w)) \in Nat
      /\ Ends(w) \in SUBSET (1..Len(w) - 1)
  BY <1>1, <1>2, EndsOfLines
<1>4. raised \in SUBSET Ends(data)
  <2> SUFFICES ASSUME NEW r \in Ends(w) PROVE k + r \in Ends(data)
    OBVIOUS
  <2>1. r \in 1..Len(w) /\ w[r] = "n" /\ r # Len(w) /\ r \in Int
    BY <1>1, <1>3, NewlineIs DEF Ends
  <2>2. k + r \in 1..Len(data) /\ k + r # Len(data) /\ data[k + r] = "n"
    BY <1>1, <1>2, <2>1
  <2> QED
    BY <2>2, NewlineIs DEF Ends
<1>5. Cardinality(Ends(w)) <= Cardinality(Ends(data))
  <2>1. Cardinality(raised) = Cardinality(Ends(w))
    <3>1. k \in Int /\ Ends(w) \in SUBSET Int /\ IsFiniteSet(Ends(w))
      BY <1>3
    <3> QED
      BY <3>1, RaisedSet
  <2> QED
    BY <1>3, <1>4, <2>1, FS_Subset
<1>6. later \in SUBSET behind
  <2> SUFFICES ASSUME NEW i \in later PROVE \E r \in Ends(w) : i = (k + 1) + r
    OBVIOUS
  <2>1. i \in 1..Len(data) /\ i > k + 1 /\ data[i - 1] = "n"
    BY DEF Begins
  <2> DEFINE r == i - 1 - k
  <2>2. r \in 1..Len(w) /\ r # Len(w) /\ i = (k + 1) + r /\ i - 1 = k + r
    BY <1>1, <1>2, <2>1
  <2>3. w[r] = "n"
    BY <1>1, <2>1, <2>2
  <2>4. r \in Ends(w)
    BY <1>1, <2>2, <2>3, NewlineIs DEF Ends
  <2> QED
    BY <2>2, <2>4
<1>7. IsFiniteSet(later) /\ Cardinality(later) \in Nat /\ Cardinality(later) <= Cardinality(Ends(w))
  <2>1. IsFiniteSet(behind) /\ Cardinality(behind) = Cardinality(Ends(w))
    <3>1. k + 1 \in Int /\ Ends(w) \in SUBSET Int /\ IsFiniteSet(Ends(w))
      BY <1>3
    <3> QED
      BY <3>1, RaisedSet
  <2> QED
    BY <1>6, <2>1, FS_Subset, FS_CardinalityType
<1>8. CASE k + 1 \in late
  <2>1. data[k] = "n"
    BY <1>8, <1>2 DEF Begins
  <2>2. late = later \cup {k + 1} /\ k + 1 \notin later
    BY <1>8
  <2>3. Cardinality(late) = Cardinality(later) + 1
    BY <1>7, <2>2, FS_AddElement
  <2>4. Cardinality(late) \in Nat /\ Cardinality(late) <= Cardinality(Ends(w)) + 1
    BY <1>3, <1>7, <2>3
  <2> QED
    BY <1>1, <1>5, <2>1, <2>4 DEF w
<1>9. CASE k + 1 \notin late
  <2>1. late = later
    BY <1>9
  <2>2. /\ Cardinality(late) \in Nat /\ Cardinality(late) <= Cardinality(Ends(w)) + 1
        /\ ~ (Cardinality(late) > Cardinality(Ends(w)))
    <3>1. Cardinality(late) = Cardinality(later)
      BY <2>1
    <3> HIDE DEF late, later
    <3> QED
      BY <1>3, <1>7, <3>1
  <2> QED
    BY <1>1, <1>5, <2>2 DEF w
<1> QED
  BY <1>8, <1>9

LEMMA TailBehindIsRight ==
  ASSUME NEW data \in Seq(Bytes), NEW k \in Nat \ {0}, k < Len(data), NEW n \in Nat \ {0},
         Cardinality({i \in Begins(data) : i > k}) >= n
  PROVE  LET at == FindTailStart(From(data, k), k, n) IN
         /\ data[at] = "n"
         /\ Lines(From(data, at)) = IF Lines(data) < n THEN Lines(data) ELSE n
<1> DEFINE w == From(data, k)
           at == FindTailStart(w, k, n)
           late == Cardinality({i \in Begins(data) : i > k})
<1>1. /\ w \in Seq(Bytes) /\ Len(w) = Len(data) - k /\ w # <<>>
      /\ \A i \in 1..Len(w) : w[i] = data[k + i]
      /\ Cardinality(Ends(w)) <= Cardinality(Ends(data))
      /\ late \in Nat /\ late >= n /\ late <= Cardinality(Ends(w)) + 1
      /\ late > Cardinality(Ends(w)) => data[k] = "n"
  BY WindowOfLines
<1> HIDE DEF w, late
<1>2. data # <<>> /\ Len(data) \in Nat
  OBVIOUS
<1>3. /\ Lines(w) = Cardinality(Ends(w)) + 1 /\ Cardinality(Ends(w)) \in Nat
      /\ Lines(data) = Cardinality(Ends(data)) + 1 /\ Cardinality(Ends(data)) \in Nat
      /\ Ends(w) \in SUBSET (1..Len(w) - 1)
  BY <1>1, <1>2, EndsOfLines
<1>4. ~ (Lines(data) < n)
  BY <1>1, <1>3
<1>5. CASE Cuts(w, n) = {}
  <2>1. at = k
    BY <1>5, TailStartCuts
  <2>2. Cardinality(Ends(w)) < n
    BY <1>1, <1>5, FewCuts
  <2>3. data[k] = "n" /\ Lines(w) = n
    BY <1>1, <1>3, <2>2
  <2> QED
    BY <1>4, <2>1, <2>3 DEF w
<1>6. CASE Cuts(w, n) # {}
  <2>1. PICK p \in Cuts(w, n) : at = k + p
    BY <1>6, TailStartCuts
  <2>2. p \in Ends(w) /\ Cardinality({q \in Ends(w) : q >= p}) = n
    BY DEF Cuts
  <2>3. p \in 1..Len(w) - 1 /\ w[p] = "n"
    BY <1>1, <1>3, <2>2, NewlineIs DEF Ends
  <2>4. data[k + p] = "n"
    BY <1>1, <1>2, <2>3
  <2>5. Lines(From(w, p)) = n
    BY <1>1, <2>2, TailHasLines
  <2>6. From(w, p) = From(data, k + p)
    <3> DEFINE a == From(w, p)
               b == From(data, k + p)
    <3>1. /\ a \in Seq(Bytes) /\ Len(a) = Len(w) - p
          /\ \A i \in 1..Len(a) : a[i] = w[p + i]
      BY <1>1, <2>3 DEF From
    <3>2. /\ b \in Seq(Bytes) /\ Len(b) = Len(data) - (k + p)
          /\ \A i \in 1..Len(b) : b[i] = data[(k + p) + i]
      BY <1>1, <1>2, <2>3 DEF From
    <3> HIDE DEF a, b
    <3>3. Len(a) = Len(b)
      BY <1>1, <1>2, <2>3, <3>1, <3>2
    <3>4. ASSUME NEW i \in 1..Len(a) PROVE a[i] = b[i]
      <4>1. a[i] = w[p + i] /\ b[i] = data[(k + p) + i]
        BY <3>1, <3>2, <3>3
      <4>2. p + i \in 1..Len(w) /\ k + (p + i) = (k + p) + i
        BY <1>1, <1>2, <2>3, <3>1
      <4>3. w[p + i] = data[k + (p + i)]
        BY <1>1, <4>2
      <4> QED
        BY <4>1, <4>2, <4>3
    <3>5. a = b
      BY <3>1, <3>2, <3>3, <3>4, SeqEqual
    <3> QED
      BY <3>5 DEF a, b
  <2>7. at = k + p
    BY <2>1
  <2>8. data[at] = "n"
    BY <2>4, <2>7
  <2>9. Lines(From(data, at)) = n
    BY <2>5, <2>6, <2>7
  <2> QED
    BY <1>4, <2>8, <2>9 DEF w
<1> QED
  BY <1>5, <1>6 DEF w

LEMMA TailOffsetIsRight ==
  ASSUME NEW data \in Seq(Bytes), InReach(data)
  PROVE  LET at == ComputeTailOffset(data, Len(data)) IN
         /\ at = 0 \/ data[at] = "n"
         /\ Lines(From(data, at)) = IF Lines(data) < TailLines THEN Lines(data) ELSE TailLines
<1>1. TailLines \in Nat \ {0} /\ MaxTailScan \in Nat \ {0} /\ Len(data) \in Nat
  BY LogAssumption DEF LogAssumption
<1>2. CASE Len(data) <= MaxTailScan
  <2>1. ComputeTailOffset(data, Len(data)) = FindTailStart(SubSeq(data, 1, Len(data)), 0, TailLines)
    BY <1>1, <1>2 DEF ComputeTailOffset
  <2>2. SubSeq(data, 1, Len(data)) = data
    BY SubSeqFull
  <2> QED
    BY <1>1, <2>1, <2>2, TailStartIsRight
<1>3. CASE Len(data) > MaxTailScan
  <2> DEFINE k == Len(data) - MaxTailScan
  <2>1. k \in Nat \ {0} /\ k < Len(data) /\ ~ (Len(data) <= MaxTailScan)
    BY <1>1, <1>3
  <2>2. Cardinality({i \in Begins(data) : i > k}) >= TailLines
    BY <2>1 DEF InReach
  <2>3. ComputeTailOffset(data, Len(data)) = FindTailStart(SubSeq(data, k + 1, Len(data)), k, TailLines)
    BY <1>1, <1>3 DEF ComputeTailOffset
  <2>4. ComputeTailOffset(data, Len(data)) = FindTailStart(From(data, k), k, TailLines)
    BY <2>3 DEF From
  <2> HIDE DEF k
  <2> QED
    BY <1>1, <2>1, <2>2, <2>4, TailBehindIsRight
<1> QED
  BY <1>1, <1>2, <1>3

(* A log is followed from the start of the last lines asked for, whatever  *)
(* their number and length and whether the last one is complete, as long   *)
(* as they begin in the bytes that are looked at (computeTailOffset,       *)
(* findTailStart).                                                         *)
THEOREM TailsAreRight == Spec => TailStart
<1>1. ASSUME IInv, InitTail, initialized', Len(files[path]) = info.size, InReach(files[path])
      PROVE  /\ offset' = 0 \/ files[path][offset'] = "n"
             /\ Lines(From(files[path], offset')) =
                  IF Lines(files[path]) < TailLines THEN Lines(files[path]) ELSE TailLines
  <2>1. TypeOK /\ StageInv
    BY <1>1 DEF IInv
  <2>2. phase = "tail" /\ path # NoFile /\ offset' = ComputeTailOffset(files[path], info.size)
    <3>1. phase = "tail" /\ ~ initialized
      BY <1>1, <2>1 DEF InitTail, StageInv
    <3> QED
      BY <1>1, <3>1 DEF InitTail, state
  <2>3. files[path] \in Seq(Bytes)
    BY <2>1, <2>2 DEF TypeOK
  <2> QED
    BY <1>1, <2>2, <2>3, TailOffsetIsRight
<1>2. IInv /\ [Next]_vars =>
        [InitTail /\ initialized' /\ Len(files[path]) = info.size /\ InReach(files[path]) =>
           LET data == files[path] IN
           /\ offset' = 0 \/ data[offset'] = "n"
           /\ Lines(From(data, offset')) = IF Lines(data) < TailLines THEN Lines(data) ELSE TailLines
        ]_vars
  BY <1>1
<1> QED
  BY <1>2, Invariance, PTL DEF Spec, TailStart
=============================================================================
