--------------------------- MODULE SegmentsProofs ---------------------------
(* That the split never stumbles over an empty segment and loses no token, *)
(* for every list of tokens, backends and flags; and which recipes are     *)
(* parsed into the conditions they state.                                  *)
EXTENDS Segments, Integers, SequenceTheorems, FiniteSetTheorems, WellFoundedInduction, TLAPS

(* The loop has not begun before the ends of the list are accepted.        *)
BeforeLoop ==
  status = "start" => i = 1 /\ current = <<>>

(* Inside the loop an empty segment has a token to come that is not "--".  *)
AtStart ==
  status = "split" /\ current = <<>> => i <= Len(args) /\ args[i] # "--"

IInv == TypeOK /\ BeforeLoop /\ AtStart

(* Every recipe and every command line starts in the invariant.            *)
LEMMA InitIInv == Init => IInv
  BY SegmentsAssumption, RecipesAssumption DEF Init, IInv, TypeOK, BeforeLoop, AtStart

(* The token behind a separator starts a condition, so it is none itself.  *)
LEMMA AfterSeparator ==
  ASSUME IInv, i <= Len(args), IsSeparatorBefore(i)
  PROVE  i + 1 <= Len(args) /\ args[i + 1] # "--"
  BY SegmentsAssumption DEF IInv, TypeOK, IsSeparatorBefore, IsConditionStart

(* A nonempty segment that is finished joins segments that are nonempty.   *)
LEMMA AppendCurrent ==
  ASSUME TypeOK, current # <<>>
  PROVE  /\ Append(segments, current) \in Seq(Seq(STRING))
         /\ \A k \in DOMAIN Append(segments, current) :
              Append(segments, current)[k] # <<>>
<1>1. Append(segments, current) \in Seq(Seq(STRING))
  BY DEF TypeOK
<1>2. ASSUME NEW k \in DOMAIN Append(segments, current)
      PROVE  Append(segments, current)[k] # <<>>
  <2>1. CASE k \in DOMAIN segments
    BY <2>1 DEF TypeOK
  <2>2. CASE k = Len(segments) + 1
    BY <2>2 DEF TypeOK
  <2> QED
    BY <1>2, <2>1, <2>2 DEF TypeOK
<1> QED
  BY <1>1, <1>2

(* Checking the ends, the loop and the parser keep the invariant.          *)
LEMMA StepIInv == IInv /\ [Next]_vars => IInv'
<1> SUFFICES ASSUME IInv, [Next]_vars PROVE IInv'
  OBVIOUS
<1> USE DEF IInv, TypeOK, BeforeLoop, AtStart
<1>1. CASE CheckEnds
  BY <1>1 DEF CheckEnds, BadEnds, IsValueForPreviousFlag
<1>2. CASE EndSegment
  <2>1. CASE current = <<>>
    BY <1>2, <2>1 DEF EndSegment
  <2>2. CASE current # <<>>
    <3>1. i + 1 <= Len(args) /\ args[i + 1] # "--"
      BY <1>2, AfterSeparator DEF EndSegment
    <3>2. segments' \in Seq(Seq(STRING)) /\ \A k \in DOMAIN segments' : segments'[k] # <<>>
      BY <1>2, <2>2, AppendCurrent DEF EndSegment
    <3> QED
      BY <1>2, <2>2, <3>1, <3>2 DEF EndSegment
  <2> QED
    BY <2>1, <2>2
<1>3. CASE KeepToken
  BY <1>3 DEF KeepToken
<1>4. CASE FinishSplit
  <2>1. CASE current = <<>>
    BY <1>4, <2>1 DEF FinishSplit
  <2>2. CASE current # <<>>
    <3>1. segments' \in Seq(Seq(STRING)) /\ \A k \in DOMAIN segments' : segments'[k] # <<>>
      BY <1>4, <2>2, AppendCurrent DEF FinishSplit
    <3> QED
      BY <1>4, <2>2, <3>1 DEF FinishSplit
  <2> QED
    BY <2>1, <2>2
<1>5. CASE ParseConditions
  BY <1>5 DEF ParseConditions
<1>6. CASE Finished \/ UNCHANGED vars
  BY <1>6 DEF Finished, vars
<1> QED
  BY <1>1, <1>2, <1>3, <1>4, <1>5, <1>6 DEF Next

(* The inductive invariant holds of every list of tokens. *)
THEOREM Invariance == Spec => []IInv
<1> QED
  BY InitIInv, StepIInv, PTL DEF Spec

(* Segments are token sequences and none of them is empty, so that         *)
(* parseCondition always finds a first token.                              *)
THEOREM TypeCorrect == Spec => []TypeOK
<1>1. IInv => TypeOK
  BY DEF IInv
<1> QED
  BY Invariance, <1>1, PTL

(* The "empty condition" errors of the loop are unreachable.               *)
THEOREM NoEmptySegment == Spec => []SplitSucceeds
<1>1. IInv => SplitSucceeds
  BY DEF IInv, TypeOK, AtStart, SplitSucceeds, IsSeparatorBefore
<1> QED
  BY Invariance, <1>1, PTL
-----------------------------------------------------------------------------
(* Joining the segments again. Induction, for sets of numbers.             *)
LEMMA LeastNumber ==
  ASSUME NEW T, T \subseteq Nat, T # {}
  PROVE  \E x \in T : \A y \in T : x <= y
<1> DEFINE R == OpToRel(<, Nat)
<1>1. IsWellFoundedOn(R, Nat)
  BY NatLessThanWellFounded
<1>2. \A x, y \in Nat : <<x, y>> \in R <=> x < y
  BY DEF OpToRel
<1> HIDE DEF R
<1>3. PICK x \in T : \A y \in T : ~ (<<y, x>> \in R)
  BY <1>1, WFMin
<1>4. ASSUME NEW y \in T PROVE x <= y
  <2>1. x \in Nat /\ y \in Nat
    OBVIOUS
  <2>2. ~ (y < x)
    BY <1>2, <1>3, <2>1
  <2> QED
    BY <2>1, <2>2
<1> QED
  BY <1>4

(* Induction on numbers, with a set for the property.                      *)
LEMMA SetInduction ==
  ASSUME NEW S, 0 \in S, \A n \in Nat : n \in S => n + 1 \in S
  PROVE  \A n \in Nat : n \in S
<1> SUFFICES ASSUME NEW n \in Nat, n \notin S PROVE FALSE
  OBVIOUS
<1>1. PICK x \in Nat \ S : \A y \in Nat \ S : x <= y
  BY LeastNumber
<1>2. x # 0 /\ x - 1 \in Nat /\ ~ (x <= x - 1)
  OBVIOUS
<1>3. x - 1 \in S
  BY <1>1, <1>2
<1> QED
  BY <1>2, <1>3

(* FoldLeft takes the largest index first: there is one.                   *)
LEMMA LargestIn ==
  ASSUME NEW n \in Nat, NEW x \in SUBSET (1..n), x # {}
  PROVE  Max(x) \in x
<1> DEFINE T == {u \in Nat : \A y \in x : y <= u}
<1>1. T \subseteq Nat /\ n \in T
  OBVIOUS
<1>2. PICK u \in T : \A v \in T : u <= v
  BY <1>1, LeastNumber
<1>3. u \in x
  <2> SUFFICES ASSUME u \notin x PROVE FALSE
    OBVIOUS
  <2>1. PICK y \in x : TRUE
    OBVIOUS
  <2>2. u \in Nat /\ \A z \in x : z \in Nat /\ z <= u /\ z # u
    OBVIOUS
  <2>3. u - 1 \in Nat /\ \A z \in x : z <= u - 1
    BY <2>1, <2>2
  <2>4. u - 1 \in T
    BY <2>3
  <2> QED
    BY <1>2, <2>2, <2>4
<1>4. \A y \in x : u >= y
  OBVIOUS
<1> QED
  BY <1>3, <1>4 DEF Max

(* The provers do not know that a literal is a string.                     *)
Tokens == STRING \cup Backends \cup {"--", "guard", "--name"}

LEMMA StringsAreTokens ==
  Seq(STRING) \subseteq Seq(Tokens) /\ Seq(Seq(STRING)) \subseteq Seq(Seq(Tokens))
<1>1. STRING \subseteq Tokens
  BY DEF Tokens
<1>2. Seq(STRING) \subseteq Seq(Tokens)
  BY <1>1, SeqMonotonic
<1>3. Seq(Seq(STRING)) \subseteq Seq(Seq(Tokens))
  BY <1>2, SeqMonotonic
<1> QED
  BY <1>2, <1>3

(* FoldLeft is a recursion over sets of indices: this one, if it exists.   *)
Joined(list) == FoldLeft(AppendConditionSegment, <<>>, list)

Body(g, list, x) ==
  IF x = {} THEN <<>> ELSE AppendConditionSegment(g[x \ {Max(x)}], list[Max(x)])

IsJoin(g, list) == g = [x \in SUBSET DOMAIN list |-> Body(g, list, x)]
Join(list) == CHOOSE g : IsJoin(g, list)

LEMMA JoinedIsJoin == ASSUME NEW list PROVE Joined(list) = Join(list)[DOMAIN list]
  BY DEF Joined, FoldLeft, MapThenFoldSet, Join, IsJoin, Body

(* It does: partial ones exist for the small sets of indices.              *)
LEMMA JoinExists ==
  ASSUME NEW n \in Nat, NEW list, DOMAIN list = 1..n
  PROVE  IsJoin(Join(list), list)
<1> DEFINE D == SUBSET (1..n)
           Small(k) == {x \in D : Cardinality(x) <= k}
           Part(g, k) == g = [x \in Small(k) |-> Body(g, list, x)]
           S == {k \in Nat : \E g : Part(g, k)}
<1>1. IsFiniteSet(1..n) /\ Cardinality(1..n) = n
  BY FS_Interval
<1>2. \A x \in D : IsFiniteSet(x) /\ Cardinality(x) \in Nat /\ Cardinality(x) <= n
  BY <1>1, FS_Subset, FS_CardinalityType
<1>3. \A x \in D : Cardinality(x) = 0 => x = {}
  BY <1>2, FS_EmptySet
<1>4. ASSUME NEW x \in D, x # {}
      PROVE  x \ {Max(x)} \in D /\ Cardinality(x \ {Max(x)}) = Cardinality(x) - 1
  <2>1. Max(x) \in x
    BY <1>4, LargestIn
  <2> QED
    BY <1>2, <2>1, FS_RemoveElement
<1>5. 0 \in S
  <2> DEFINE g == [x \in Small(0) |-> <<>>]
  <2>1. \A x \in Small(0) : x = {}
    BY <1>2, <1>3
  <2>2. \A x \in Small(0) : Body(g, list, x) = <<>>
    BY <2>1 DEF Body
  <2>3. Part(g, 0)
    BY <2>2
  <2> QED
    BY <2>3
<1>6. ASSUME NEW k \in Nat, k \in S PROVE k + 1 \in S
  <2>1. PICK g : Part(g, k)
    BY <1>6
  <2> DEFINE h == [x \in Small(k + 1) |-> IF x \in Small(k) THEN g[x] ELSE Body(g, list, x)]
  <2>2. ASSUME NEW x \in Small(k + 1) PROVE h[x] = Body(g, list, x)
    BY <2>1
  <2>3. ASSUME NEW x \in Small(k + 1) PROVE Body(h, list, x) = Body(g, list, x)
    <3>1. CASE x = {}
      BY <3>1 DEF Body
    <3>2. CASE x # {}
      <4>0. x \in D /\ Cardinality(x) \in Nat /\ Cardinality(x) <= k + 1
        BY <1>2
      <4> DEFINE y == x \ {Max(x)}
      <4>3. y \in D /\ Cardinality(y) = Cardinality(x) - 1
        BY <1>4, <3>2, <4>0
      <4> HIDE DEF y
      <4>4. Cardinality(y) \in Nat /\ Cardinality(y) <= k /\ Cardinality(y) <= k + 1
        BY <1>2, <4>0, <4>3
      <4>5. y \in Small(k) /\ y \in Small(k + 1)
        BY <4>3, <4>4
      <4>1. x \ {Max(x)} \in Small(k) /\ x \ {Max(x)} \in Small(k + 1)
        BY <4>5 DEF y
      <4>2. h[x \ {Max(x)}] = g[x \ {Max(x)}]
        BY <4>1
      <4> HIDE DEF h
      <4> QED
        BY <3>2, <4>2 DEF Body
    <3> QED
      BY <3>1, <3>2
  <2>4. h = [x \in Small(k + 1) |-> h[x]]
    OBVIOUS
  <2> HIDE DEF h, Small
  <2>5. Part(h, k + 1)
    BY <2>2, <2>3, <2>4
  <2> QED
    BY <2>5
<1> HIDE DEF S
<1>7. n \in S
  BY <1>5, <1>6, SetInduction
<1> USE DEF S
<1>8. PICK g : Part(g, n)
  BY <1>7
<1>9. Small(n) = SUBSET DOMAIN list
  BY <1>2
<1> HIDE DEF Small
<1>10. IsJoin(g, list)
  BY <1>8, <1>9 DEF IsJoin
<1> QED
  BY <1>10 DEF Join

LEMMA LargestIs == ASSUME NEW n \in Nat PROVE Max(1 .. n + 1) = n + 1
<1>1. n + 1 \in 1 .. n + 1 /\ 1 .. n + 1 # {}
  OBVIOUS
<1>2. Max(1 .. n + 1) \in 1 .. n + 1
  <2>1. n + 1 \in Nat /\ 1 .. n + 1 \in SUBSET (1 .. n + 1)
    OBVIOUS
  <2> QED
    BY <1>1, <2>1, LargestIn
<1>3. \A y \in 1 .. n + 1 : Max(1 .. n + 1) >= y
  BY <1>1 DEF Max
<1> QED
  BY <1>1, <1>2, <1>3

(* So the recursion takes the elements of a list from left to right.       *)
LEMMA JoinUnfolds ==
  ASSUME NEW list, NEW n \in Nat, DOMAIN list = 1 .. n
  PROVE  /\ Join(list)[{}] = <<>>
         /\ \A k \in Nat : k < n =>
              Join(list)[1 .. k + 1] =
                AppendConditionSegment(Join(list)[1 .. k], list[k + 1])
<1>1. IsJoin(Join(list), list)
  BY JoinExists
<1> DEFINE g == Join(list)
<1>2. \A x \in SUBSET (1 .. n) : g[x] = Body(g, list, x)
  BY <1>1 DEF IsJoin
<1> HIDE DEF g
<1>3. g[{}] = <<>>
  BY <1>2 DEF Body
<1>4. ASSUME NEW k \in Nat, k < n
      PROVE  g[1 .. k + 1] = AppendConditionSegment(g[1 .. k], list[k + 1])
  <2>1. 1 .. k + 1 \in SUBSET (1 .. n) /\ 1 .. k + 1 # {}
    BY <1>4
  <2>2. (1 .. k + 1) \ {k + 1} = 1 .. k
    OBVIOUS
  <2>3. Max(1 .. k + 1) = k + 1
    BY LargestIs
  <2>4. g[1 .. k + 1] = Body(g, list, 1 .. k + 1)
    BY <1>2, <2>1
  <2>5. Body(g, list, 1 .. k + 1) = AppendConditionSegment(g[1 .. k], list[k + 1])
    BY <2>1, <2>2, <2>3 DEF Body
  <2> QED
    BY <2>4, <2>5
<1> QED
  BY <1>3, <1>4 DEF g

(* What is joined does not depend on what is yet to come.                  *)
LEMMA JoinOfPrefix ==
  ASSUME NEW s \in Seq(Seq(Tokens)), NEW x \in Seq(Tokens), NEW k \in 0 .. Len(s)
  PROVE  Join(Append(s, x))[1 .. k] = Join(s)[1 .. k]
<1> DEFINE t == Append(s, x)
           S == {m \in Nat : m <= Len(s) => Join(t)[1 .. m] = Join(s)[1 .. m]}
<1>1. t \in Seq(Seq(Tokens)) /\ Len(t) = Len(s) + 1 /\ \A m \in 1 .. Len(s) : t[m] = s[m]
  BY AppendProperties
<1> HIDE DEF t
<1>2. /\ Len(s) \in Nat /\ DOMAIN s = 1 .. Len(s)
      /\ Len(t) \in Nat /\ DOMAIN t = 1 .. Len(t)
  BY <1>1
<1>3. 1 .. 0 = {}
  OBVIOUS
<1>4. 0 \in S
  <2>1. Join(t)[{}] = <<>>
    BY <1>2, JoinUnfolds
  <2>2. Join(s)[{}] = <<>>
    BY <1>2, JoinUnfolds
  <2> QED
    BY <1>3, <2>1, <2>2
<1>5. ASSUME NEW m \in Nat, m \in S PROVE m + 1 \in S
  <2> SUFFICES ASSUME m + 1 <= Len(s) PROVE Join(t)[1 .. m + 1] = Join(s)[1 .. m + 1]
    OBVIOUS
  <2>1. m < Len(s) /\ m < Len(t) /\ m + 1 \in 1 .. Len(s)
    BY <1>1, <1>2
  <2>2. Join(t)[1 .. m] = Join(s)[1 .. m]
    BY <1>5, <2>1
  <2>3. Join(t)[1 .. m + 1] = AppendConditionSegment(Join(t)[1 .. m], t[m + 1])
    BY <1>2, <2>1, JoinUnfolds
  <2>4. Join(s)[1 .. m + 1] = AppendConditionSegment(Join(s)[1 .. m], s[m + 1])
    BY <1>2, <2>1, JoinUnfolds
  <2> QED
    BY <1>1, <2>1, <2>2, <2>3, <2>4
<1> HIDE DEF S
<1>6. k \in S
  <2>1. k \in Nat
    OBVIOUS
  <2>2. \A m \in Nat : m \in S
    BY <1>4, <1>5, SetInduction
  <2> QED
    BY <2>1, <2>2
<1> USE DEF S
<1> QED
  BY <1>6 DEF t

(* The two equations of joining.                                           *)
LEMMA JoinedNone == Joined(<<>>) = <<>>
<1>1. DOMAIN <<>> = 1 .. 0 /\ DOMAIN <<>> = {}
  OBVIOUS
<1>2. Join(<<>>)[{}] = <<>>
  BY <1>1, JoinUnfolds
<1> QED
  BY <1>1, <1>2, JoinedIsJoin

(* A list with one segment more.                                           *)
LEMMA JoinedAppend ==
  ASSUME NEW s \in Seq(Seq(Tokens)), NEW x \in Seq(Tokens)
  PROVE  Joined(Append(s, x)) = AppendConditionSegment(Joined(s), x)
<1> DEFINE t == Append(s, x)
           n == Len(s)
<1>1. t \in Seq(Seq(Tokens)) /\ Len(t) = n + 1 /\ t[n + 1] = x
  BY AppendProperties
<1>2. n \in Nat /\ DOMAIN s = 1 .. n /\ n \in 0 .. n
  OBVIOUS
<1>3. Join(t)[1 .. n] = Join(s)[1 .. n]
  BY <1>2, JoinOfPrefix
<1> HIDE DEF t, n
<1>4. DOMAIN t = 1 .. n + 1 /\ n + 1 \in Nat /\ n < n + 1
  BY <1>1, <1>2
<1>5. Join(t)[1 .. n + 1] = AppendConditionSegment(Join(t)[1 .. n], t[n + 1])
  BY <1>2, <1>4, JoinUnfolds
<1>6. Joined(t) = Join(t)[1 .. n + 1] /\ Joined(s) = Join(s)[1 .. n]
  BY <1>2, <1>4, JoinedIsJoin
<1> QED
  BY <1>1, <1>3, <1>5, <1>6 DEF t
-----------------------------------------------------------------------------
(* Joining the segments again. The invariant.                              *)

(* The segments so far, with the one under construction, are the tokens    *)
(* the loop has passed.                                                    *)
JoinInv ==
  /\ status = "start" => segments = <<>>
  /\ Joined(segments) \in Seq(Tokens)
  /\ status = "split" =>
       AppendConditionSegment(Joined(segments), current) = SubSeq(args, 1, i - 1)
  /\ status \in {"parse", "parsed"} => Joined(segments) = args

LEMMA InitJoinInv == Init => JoinInv
<1>1. <<>> \in Seq(Tokens)
  OBVIOUS
<1> QED
  BY <1>1, JoinedNone DEF Init, JoinInv

(* A segment under construction grows at its end.                          *)
LEMMA JoinToken ==
  ASSUME NEW t \in Seq(Tokens), NEW c \in Seq(Tokens), NEW a \in Tokens
  PROVE  /\ AppendConditionSegment(t, Append(c, a)) = AppendConditionSegment(t, c) \o <<a>>
         /\ AppendConditionSegment(t, c) \in Seq(Tokens)
<1>1. <<"--">> \in Seq(Tokens) /\ <<a>> \in Seq(Tokens)
  <2>1. "--" \in Tokens
    BY DEF Tokens
  <2> QED
    BY <2>1
<1>2. Append(c, a) = c \o <<a>>
  BY AppendIsConcat
<1>3. t \o <<"--">> \in Seq(Tokens) /\ t \o <<"--">> \o c \in Seq(Tokens)
  BY <1>1, ConcatProperties
<1>4. (t \o <<"--">>) \o (c \o <<a>>) = ((t \o <<"--">>) \o c) \o <<a>>
  BY <1>1, <1>3, ConcatAssociative
<1> QED
  BY <1>2, <1>3, <1>4 DEF AppendConditionSegment

(* A finished segment that is not empty makes the joined list nonempty.    *)
LEMMA JoinSegment ==
  ASSUME TypeOK, JoinInv, current # <<>>
  PROVE  /\ Joined(Append(segments, current)) = AppendConditionSegment(Joined(segments), current)
         /\ Joined(Append(segments, current)) \in Seq(Tokens)
         /\ Joined(Append(segments, current)) # <<>>
         /\ AppendConditionSegment(Joined(Append(segments, current)), <<>>) =
              Joined(Append(segments, current)) \o <<"--">>
<1> DEFINE t == Joined(segments)
           u == AppendConditionSegment(t, current)
<1>1. t \in Seq(Tokens) /\ current \in Seq(Tokens) /\ segments \in Seq(Seq(Tokens))
  BY StringsAreTokens DEF TypeOK, JoinInv
<1>2. Joined(Append(segments, current)) = u
  BY <1>1, JoinedAppend
<1>3. "--" \in Tokens /\ <<"--">> \in Seq(Tokens) /\ <<>> \in Seq(Tokens)
  <2>1. "--" \in Tokens
    BY DEF Tokens
  <2>2. <<"--">> \in Seq(Tokens)
    BY <2>1
  <2> QED
    BY <2>1, <2>2
<1> HIDE DEF t
<1>4. u \in Seq(Tokens)
  <2>1. AppendConditionSegment(t, current) \in Seq(Tokens)
    BY <1>1, <1>3, JoinToken
  <2> QED
    BY <2>1
<1>5. u # <<>>
  <2>1. t \o <<"--">> \in Seq(Tokens)
    BY <1>1, <1>3, ConcatProperties
  <2>2. (t \o <<"--">>) \o current # <<>>
    BY <1>1, <2>1, ConcatEqualIffEmpty
  <2> QED
    BY <2>2 DEF AppendConditionSegment
<1> HIDE DEF u
<1>6. AppendConditionSegment(u, <<>>) = u \o <<"--">>
  <2>1. u \o <<"--">> \in Seq(Tokens)
    BY <1>3, <1>4, ConcatProperties
  <2>2. (u \o <<"--">>) \o <<>> = u \o <<"--">>
    BY <2>1, ConcatEmptySeq
  <2> QED
    BY <1>5, <2>2 DEF AppendConditionSegment
<1> QED
  BY <1>2, <1>4, <1>5, <1>6 DEF u, t

(* Every step keeps what is joined behind the loop's index.                *)
LEMMA StepJoinInv == IInv /\ JoinInv /\ [Next]_vars => JoinInv'
<1> SUFFICES ASSUME IInv, JoinInv, [Next]_vars PROVE JoinInv'
  OBVIOUS
<1>1. /\ TypeOK
      /\ BeforeLoop
      /\ args \in Seq(Tokens) /\ Len(args) \in Nat /\ i \in 1 .. Len(args) + 1
      /\ current \in Seq(Tokens) /\ segments \in Seq(Seq(Tokens))
  BY StringsAreTokens DEF IInv, TypeOK
<1>2. CASE CheckEnds
  <2>1. UNCHANGED <<args, i, current, segments>> /\ status = "start" /\ status' # "start"
    BY <1>2 DEF CheckEnds
  <2>2. status' \in {"error", "split"}
    BY <1>2 DEF CheckEnds
  <2>3. i = 1 /\ current = <<>> /\ segments = <<>>
    BY <1>1, <2>1 DEF BeforeLoop, JoinInv
  <2>4. SubSeq(args, 1, i - 1) = <<>>
    BY <1>1, <2>3, SubSeqEmpty
  <2>5. AppendConditionSegment(Joined(segments), current) = <<>>
    BY <2>3, JoinedNone DEF AppendConditionSegment
  <2> QED
    BY <2>1, <2>2, <2>4, <2>5 DEF JoinInv
<1>3. CASE EndSegment
  <2>1. status = "split" /\ i <= Len(args) /\ args[i] = "--" /\ args' = args
    BY <1>3 DEF EndSegment, IsSeparatorBefore
  <2>2. CASE current = <<>>
    <3>1. status' = "error" /\ segments' = segments
      BY <1>3, <2>2 DEF EndSegment
    <3> QED
      BY <3>1 DEF JoinInv
  <2>3. CASE current # <<>>
    <3>1. /\ segments' = Append(segments, current) /\ current' = <<>>
          /\ i' = i + 1 /\ status' = "split"
      BY <1>3, <2>1, <2>3 DEF EndSegment
    <3> DEFINE u == Joined(Append(segments, current))
    <3>2. /\ u = AppendConditionSegment(Joined(segments), current)
          /\ u \in Seq(Tokens)
          /\ AppendConditionSegment(u, <<>>) = u \o <<"--">>
      BY <1>1, <2>3, JoinSegment
    <3>3. SubSeq(args, 1, i) = SubSeq(args, 1, i - 1) \o <<args[i]>>
      <4>1. 1 \in 1 .. Len(args) /\ i \in 1 .. Len(args)
        BY <1>1, <2>1
      <4> QED
        BY <1>1, <4>1, SubSeqRecursiveSecond
    <3>4. AppendConditionSegment(u, <<>>) = SubSeq(args, 1, i)
      BY <2>1, <3>2, <3>3 DEF JoinInv
    <3>5. i' - 1 = i
      BY <1>1, <3>1
    <3>6. Joined(segments') = u
      BY <3>1
    <3> HIDE DEF u
    <3> QED
      BY <2>1, <3>1, <3>2, <3>4, <3>5, <3>6 DEF JoinInv
  <2> QED
    BY <2>2, <2>3
<1>4. CASE KeepToken
  <2>1. /\ status = "split" /\ i <= Len(args) /\ current' = Append(current, args[i])
        /\ i' = i + 1 /\ UNCHANGED <<args, segments, status>>
    BY <1>4 DEF KeepToken
  <2>2. i \in 1 .. Len(args) /\ 1 \in 1 .. Len(args) /\ args[i] \in Tokens /\ i' - 1 = i
    BY <1>1, <2>1
  <2>3. SubSeq(args, 1, i) = SubSeq(args, 1, i - 1) \o <<args[i]>>
    BY <1>1, <2>2, SubSeqRecursiveSecond
  <2>4. Joined(segments) \in Seq(Tokens)
    BY DEF JoinInv
  <2>5. AppendConditionSegment(Joined(segments), Append(current, args[i]))
          = AppendConditionSegment(Joined(segments), current) \o <<args[i]>>
    BY <1>1, <2>2, <2>4, JoinToken
  <2>6. AppendConditionSegment(Joined(segments), Append(current, args[i])) = SubSeq(args, 1, i)
    BY <2>1, <2>3, <2>5 DEF JoinInv
  <2> QED
    BY <2>1, <2>2, <2>4, <2>6 DEF JoinInv
<1>5. CASE FinishSplit
  <2>1. status = "split" /\ i = Len(args) + 1 /\ args' = args
    BY <1>1, <1>5 DEF FinishSplit
  <2>2. CASE current = <<>>
    <3>1. status' = "error" /\ segments' = segments
      BY <1>5, <2>2 DEF FinishSplit
    <3> QED
      BY <3>1 DEF JoinInv
  <2>3. CASE current # <<>>
    <3>1. segments' = Append(segments, current) /\ status' = "parse"
      BY <1>5, <2>3 DEF FinishSplit
    <3>2. /\ Joined(Append(segments, current)) = AppendConditionSegment(Joined(segments), current)
          /\ Joined(Append(segments, current)) \in Seq(Tokens)
      BY <1>1, <2>3, JoinSegment
    <3>3. i - 1 = Len(args)
      BY <1>1, <2>1
    <3>4. SubSeq(args, 1, Len(args)) = args
      BY <1>1, SubSeqFull
    <3>5. AppendConditionSegment(Joined(segments), current) = args
      BY <2>1, <3>3, <3>4 DEF JoinInv
    <3> QED
      BY <2>1, <3>1, <3>2, <3>5 DEF JoinInv
  <2> QED
    BY <2>2, <2>3
<1>6. CASE ParseConditions
  BY <1>6 DEF ParseConditions, JoinInv
<1>7. CASE Finished \/ UNCHANGED vars
  BY <1>7 DEF Finished, vars, JoinInv
<1> QED
  BY <1>2, <1>3, <1>4, <1>5, <1>6, <1>7 DEF Next

(* No token is lost, doubled or moved to another condition, whatever the   *)
(* list, the backends and the flags are.                                   *)
THEOREM SegmentsRejoin == Spec => []Rejoin
<1>1. JoinInv => Rejoin
  BY DEF JoinInv, Rejoin, Joined
<1>2. Spec => []JoinInv
  BY Invariance, InitJoinInv, StepJoinInv, PTL DEF Spec
<1> QED
  BY <1>1, <1>2, PTL
-----------------------------------------------------------------------------
(* Where the segments of a joined list lie.                                *)
Solid(list) == list \in Seq(Seq(Tokens)) /\ \A k \in 1 .. Len(list) : list[k] # <<>>

(* The first k segments, and the tokens in front of segment k.             *)
Upto(list, k) == Join(list)[1 .. k]
Offset(list, k) == IF k = 1 THEN 0 ELSE Len(Upto(list, k - 1)) + 1

(* One segment is appended after the other.                                *)
LEMMA UptoUnfolds ==
  ASSUME NEW list, Solid(list)
  PROVE  /\ Upto(list, 0) = <<>>
         /\ \A k \in 1 .. Len(list) :
              Upto(list, k) = AppendConditionSegment(Upto(list, k - 1), list[k])
         /\ Joined(list) = Upto(list, Len(list))
<1>1. Len(list) \in Nat /\ DOMAIN list = 1 .. Len(list)
  BY DEF Solid
<1>2. 1 .. 0 = {}
  OBVIOUS
<1>3. Upto(list, 0) = <<>>
  BY <1>1, <1>2, JoinUnfolds DEF Upto
<1>4. ASSUME NEW k \in 1 .. Len(list)
      PROVE  Upto(list, k) = AppendConditionSegment(Upto(list, k - 1), list[k])
  <2>1. k - 1 \in Nat /\ k - 1 < Len(list) /\ (k - 1) + 1 = k
    BY <1>1
  <2>2. Join(list)[1 .. (k - 1) + 1] = AppendConditionSegment(Join(list)[1 .. k - 1], list[(k - 1) + 1])
    BY <1>1, <2>1, JoinUnfolds
  <2> QED
    BY <2>1, <2>2 DEF Upto
<1>5. Joined(list) = Upto(list, Len(list))
  BY <1>1, JoinedIsJoin DEF Upto
<1> QED
  BY <1>3, <1>4, <1>5

(* The place of what is appended.                                          *)
Behind(t) == IF t = <<>> THEN 0 ELSE Len(t) + 1

(* What is appended stands behind what there was and a separator.          *)
LEMMA AppendSegment ==
  ASSUME NEW t \in Seq(Tokens), NEW x \in Seq(Tokens), x # <<>>
  PROVE  /\ AppendConditionSegment(t, x) \in Seq(Tokens)
         /\ AppendConditionSegment(t, x) # <<>>
         /\ Len(AppendConditionSegment(t, x)) = Behind(t) + Len(x)
         /\ \A q \in 1 .. Len(x) : AppendConditionSegment(t, x)[Behind(t) + q] = x[q]
         /\ \A p \in 1 .. Len(t) : AppendConditionSegment(t, x)[p] = t[p]
         /\ t # <<>> => AppendConditionSegment(t, x)[Len(t) + 1] = "--"
<1>1. CASE t = <<>>
  BY <1>1 DEF AppendConditionSegment, Behind
<1>2. CASE t # <<>>
  <2>1. "--" \in Tokens
    BY DEF Tokens
  <2> DEFINE v == t \o <<"--">>
             u == v \o x
  <2>2. /\ v \in Seq(Tokens) /\ Len(v) = Len(t) + 1
        /\ \A p \in 1 .. Len(t) : v[p] = t[p]
        /\ v[Len(t) + 1] = "--"
    BY <2>1
  <2>3. AppendConditionSegment(t, x) = u /\ Behind(t) = Len(t) + 1
    BY <1>2 DEF AppendConditionSegment, Behind
  <2> HIDE DEF v
  <2>4. /\ u \in Seq(Tokens) /\ Len(u) = Len(v) + Len(x)
        /\ \A p \in 1 .. Len(v) + Len(x) : u[p] = IF p <= Len(v) THEN v[p] ELSE x[p - Len(v)]
    BY <2>2, ConcatProperties
  <2> HIDE DEF u
  <2>5. Len(t) \in Nat /\ Len(x) \in Nat \ {0}
    BY EmptySeq
  <2>6. \A q \in 1 .. Len(x) : u[Len(t) + 1 + q] = x[q]
    BY <2>2, <2>4, <2>5
  <2>7. \A p \in 1 .. Len(t) : u[p] = t[p]
    BY <2>2, <2>4, <2>5
  <2>8. u[Len(t) + 1] = "--"
    BY <2>2, <2>4, <2>5
  <2>9. u # <<>>
    BY <2>2, <2>4, <2>5
  <2> QED
    BY <2>2, <2>3, <2>4, <2>5, <2>6, <2>7, <2>8, <2>9
<1> QED
  BY <1>1, <1>2

(* Only in front of the first segment there is nothing.                    *)
LEMMA UptoGrows ==
  ASSUME NEW list, Solid(list)
  PROVE  \A k \in 0 .. Len(list) :
           /\ Upto(list, k) \in Seq(Tokens)
           /\ Upto(list, k) = <<>> <=> k = 0
<1> DEFINE S == {k \in Nat : k <= Len(list) =>
                   Upto(list, k) \in Seq(Tokens) /\ (Upto(list, k) = <<>> <=> k = 0)}
<1>0. Len(list) \in Nat
  BY DEF Solid
<1>1. 0 \in S
  <2>1. Upto(list, 0) = <<>>
    BY UptoUnfolds
  <2>2. <<>> \in Seq(Tokens)
    BY EmptySeq
  <2> QED
    BY <2>1, <2>2
<1>2. ASSUME NEW k \in Nat, k \in S PROVE k + 1 \in S
  <2> SUFFICES ASSUME k + 1 <= Len(list)
               PROVE  Upto(list, k + 1) \in Seq(Tokens) /\ Upto(list, k + 1) # <<>>
    OBVIOUS
  <2>1. Upto(list, k) \in Seq(Tokens)
    BY <1>0, <1>2
  <2>2. k + 1 \in 1 .. Len(list) /\ (k + 1) - 1 = k
    BY <1>0
  <2>3. Upto(list, k + 1) = AppendConditionSegment(Upto(list, k), list[k + 1])
    BY <2>2, UptoUnfolds
  <2>4. list[k + 1] \in Seq(Tokens) /\ list[k + 1] # <<>>
    BY <2>2 DEF Solid
  <2> QED
    BY <2>1, <2>3, <2>4, AppendSegment
<1> HIDE DEF S
<1>3. \A k \in Nat : k \in S
  BY <1>1, <1>2, SetInduction
<1> QED
  BY <1>0, <1>3 DEF S

(* One segment behind the others.                                          *)
LEMMA UptoStep ==
  ASSUME NEW list, Solid(list), NEW k \in 1 .. Len(list)
  PROVE  /\ Offset(list, k) \in Nat
         /\ Len(Upto(list, k)) = Offset(list, k) + Len(list[k])
         /\ \A q \in 1 .. Len(list[k]) : Upto(list, k)[Offset(list, k) + q] = list[k][q]
         /\ \A p \in 1 .. Len(Upto(list, k - 1)) : Upto(list, k)[p] = Upto(list, k - 1)[p]
         /\ Len(Upto(list, k - 1)) <= Len(Upto(list, k))
         /\ k > 1 => Upto(list, k)[Offset(list, k)] = "--"
<1> DEFINE t == Upto(list, k - 1)
           u == Upto(list, k)
           x == list[k]
<1>1. Len(list) \in Nat /\ k - 1 \in 0 .. Len(list) /\ k \in 0 .. Len(list) /\ k - 1 = 0 <=> k = 1
  BY DEF Solid
<1>2. t \in Seq(Tokens) /\ (t = <<>> <=> k = 1)
  BY <1>1, UptoGrows
<1>3. x \in Seq(Tokens) /\ x # <<>>
  BY DEF Solid
<1>4. u = AppendConditionSegment(t, x)
  BY UptoUnfolds
<1>5. Offset(list, k) = Behind(t)
  BY <1>2 DEF Offset, Behind
<1> DEFINE o == Offset(list, k)
<1> HIDE DEF t, u, x, o
<1>6. /\ u \in Seq(Tokens) /\ u # <<>> /\ Len(u) = o + Len(x)
      /\ \A q \in 1 .. Len(x) : u[o + q] = x[q]
      /\ \A p \in 1 .. Len(t) : u[p] = t[p]
      /\ t # <<>> => u[Len(t) + 1] = "--"
  <2>1. o = Behind(t)
    BY <1>5 DEF o
  <2> QED
    BY <1>2, <1>3, <1>4, <2>1, AppendSegment
<1>7. o \in Nat /\ Len(t) <= Len(u)
  BY <1>2, <1>3, <1>5, <1>6 DEF o, Behind
<1>8. k > 1 => u[o] = "--"
  BY <1>2, <1>5, <1>6 DEF o, Behind
<1> QED
  BY <1>6, <1>7, <1>8 DEF t, u, x, o

(* What was joined stays in place.                                         *)
LEMMA UptoIsPrefix ==
  ASSUME NEW list, Solid(list), NEW k \in 0 .. Len(list)
  PROVE  /\ Len(Upto(list, k)) <= Len(Joined(list))
         /\ \A p \in 1 .. Len(Upto(list, k)) : Joined(list)[p] = Upto(list, k)[p]
<1> DEFINE n == Len(list)
           S == {m \in Nat : k + m <= n =>
                   /\ Len(Upto(list, k)) <= Len(Upto(list, k + m))
                   /\ \A p \in 1 .. Len(Upto(list, k)) : Upto(list, k + m)[p] = Upto(list, k)[p]}
<1>0. n \in Nat /\ k \in Nat
  BY DEF Solid
<1>t. \A m \in 0 .. n : Len(Upto(list, m)) \in Nat
  BY UptoGrows
<1> HIDE DEF n
<1>1. 0 \in S
  BY <1>0, <1>t
<1>2. ASSUME NEW m \in Nat, m \in S PROVE m + 1 \in S
  <2> SUFFICES ASSUME k + (m + 1) <= n
               PROVE  /\ Len(Upto(list, k)) <= Len(Upto(list, k + (m + 1)))
                      /\ \A p \in 1 .. Len(Upto(list, k)) :
                           Upto(list, k + (m + 1))[p] = Upto(list, k)[p]
    OBVIOUS
  <2>1. /\ k + (m + 1) \in 1 .. n /\ (k + (m + 1)) - 1 = k + m /\ k + m <= n
        /\ k \in 0 .. n /\ k + m \in 0 .. n /\ k + (m + 1) \in 0 .. n
    BY <1>0
  <2>2. /\ Len(Upto(list, k)) <= Len(Upto(list, k + m))
        /\ \A p \in 1 .. Len(Upto(list, k)) : Upto(list, k + m)[p] = Upto(list, k)[p]
    BY <1>2, <2>1
  <2>3. /\ Len(Upto(list, k + m)) <= Len(Upto(list, k + (m + 1)))
        /\ \A p \in 1 .. Len(Upto(list, k + m)) :
             Upto(list, k + (m + 1))[p] = Upto(list, k + m)[p]
    BY <2>1, UptoStep DEF n
  <2>4. Len(Upto(list, k)) \in Nat /\ Len(Upto(list, k + m)) \in Nat /\ Len(Upto(list, k + (m + 1))) \in Nat
    BY <1>t, <2>1
  <2> QED
    BY <2>2, <2>3, <2>4
<1> HIDE DEF S
<1>3. \A m \in Nat : m \in S
  BY <1>1, <1>2, SetInduction
<1>4. n - k \in Nat /\ k + (n - k) = n
  BY <1>0 DEF n
<1>5. /\ Len(Upto(list, k)) <= Len(Upto(list, n))
      /\ \A p \in 1 .. Len(Upto(list, k)) : Upto(list, n)[p] = Upto(list, k)[p]
  BY <1>0, <1>3, <1>4 DEF S
<1> QED
  BY <1>5, UptoUnfolds DEF n

(* A joined list has its segments one behind the other, each but the first *)
(* behind a separator.                                                     *)
LEMMA Layout ==
  ASSUME NEW list, Solid(list), NEW k \in 1 .. Len(list)
  PROVE  /\ Joined(list) \in Seq(Tokens)
         /\ Offset(list, k) \in Nat
         /\ Offset(list, k) + Len(list[k]) <= Len(Joined(list))
         /\ \A q \in 1 .. Len(list[k]) : Joined(list)[Offset(list, k) + q] = list[k][q]
         /\ IF k = Len(list) THEN Offset(list, k) + Len(list[k]) = Len(Joined(list))
            ELSE /\ Offset(list, k + 1) = Offset(list, k) + Len(list[k]) + 1
                 /\ Joined(list)[Offset(list, k + 1)] = "--"
<1> DEFINE n == Len(list)
           a == Joined(list)
           o == Offset(list, k)
<1>0. n \in Nat /\ k \in 0 .. n /\ list[k] \in Seq(Tokens)
  BY DEF Solid
<1>1. a = Upto(list, n) /\ a \in Seq(Tokens)
  BY <1>0, UptoUnfolds, UptoGrows
<1>2. /\ o \in Nat /\ Len(Upto(list, k)) = o + Len(list[k])
      /\ \A q \in 1 .. Len(list[k]) : Upto(list, k)[o + q] = list[k][q]
  BY UptoStep
<1>3. /\ Len(Upto(list, k)) <= Len(a)
      /\ \A p \in 1 .. Len(Upto(list, k)) : a[p] = Upto(list, k)[p]
  BY <1>0, UptoIsPrefix
<1> HIDE DEF a, o
<1>4. \A q \in 1 .. Len(list[k]) : a[o + q] = list[k][q]
  <2> TAKE q \in 1 .. Len(list[k])
  <2>1. Len(list[k]) \in Nat
    BY <1>0
  <2>2. o + q \in 1 .. Len(Upto(list, k))
    BY <1>2, <2>1
  <2> QED
    BY <1>2, <1>3, <2>2
<1>5. ASSUME k # n
      PROVE  /\ Offset(list, k + 1) = o + Len(list[k]) + 1
             /\ a[Offset(list, k + 1)] = "--"
  <2>1. k + 1 \in 1 .. n /\ k + 1 \in 0 .. n /\ (k + 1) - 1 = k /\ k + 1 # 1 /\ k + 1 > 1
    BY <1>0, <1>5
  <2>2. Offset(list, k + 1) = o + Len(list[k]) + 1
    BY <1>2, <2>1 DEF Offset
  <2>3. /\ Upto(list, k + 1)[Offset(list, k + 1)] = "--"
        /\ Len(Upto(list, k + 1)) = Offset(list, k + 1) + Len(list[k + 1])
    BY <2>1, UptoStep
  <2>4. /\ Len(Upto(list, k + 1)) <= Len(a)
        /\ \A p \in 1 .. Len(Upto(list, k + 1)) : a[p] = Upto(list, k + 1)[p]
    BY <2>1, UptoIsPrefix DEF a
  <2>5. Offset(list, k + 1) \in 1 .. Len(Upto(list, k + 1))
    <3>1. list[k + 1] \in Seq(Tokens) /\ list[k] \in Seq(Tokens) /\ list[k + 1] # <<>>
      BY <1>0, <2>1 DEF Solid
    <3>2. Len(list[k + 1]) \in Nat /\ Len(list[k]) \in Nat
      BY <3>1
    <3>3. Offset(list, k + 1) \in Nat /\ Offset(list, k + 1) >= 1
      BY <1>2, <2>2, <3>2
    <3> QED
      BY <2>3, <3>2, <3>3
  <2> QED
    BY <2>2, <2>3, <2>4, <2>5
<1> QED
  BY <1>1, <1>2, <1>3, <1>4, <1>5 DEF a, o
-----------------------------------------------------------------------------
(* The places in an item's segment.                                        *)
Marks(item) == IF item.guard THEN 1 ELSE 0
Naming(item) == IF item.name # "" /\ item.backend # "process" THEN 2 ELSE 0
HeadLen(item) == Marks(item) + 1 + Naming(item) + Len(item.body)

(* The fields of an item, as tokens.                                       *)
LEMMA ItemFields ==
  ASSUME NEW item \in ItemType
  PROVE  /\ item.guard \in BOOLEAN /\ item.backend \in Tokens /\ item.backend \in Backends
         /\ item.name \in Tokens /\ item.body \in Seq(Tokens) /\ item.command \in Seq(Tokens)
         /\ Marks(item) \in {0, 1} /\ Naming(item) \in {0, 2}
         /\ Len(item.body) \in Nat /\ Len(item.command) \in Nat
         /\ HeadLen(item) \in Nat \ {0}
<1>1. /\ item.backend \in Backends /\ item.name \in STRING
      /\ item.body \in Seq(STRING) /\ item.command \in Seq(STRING)
  BY DEF ItemType
<1>2. item.guard \in BOOLEAN
  BY Zenon DEF ItemType
<1>3. /\ item.backend \in Tokens /\ item.name \in Tokens
      /\ item.body \in Seq(Tokens) /\ item.command \in Seq(Tokens)
  BY <1>1, StringsAreTokens DEF Tokens
<1>4. Marks(item) \in {0, 1} /\ Naming(item) \in {0, 2}
  BY DEF Marks, Naming
<1>5. Len(item.body) \in Nat /\ Len(item.command) \in Nat
  BY <1>3
<1> QED
  BY <1>1, <1>2, <1>3, <1>4, <1>5 DEF HeadLen

(* In front of a command: guard, backend, name, target and flags.          *)
LEMMA HeadShape ==
  ASSUME NEW item \in ItemType
  PROVE  /\ ItemHead(item) \in Seq(Tokens)
         /\ Len(ItemHead(item)) = HeadLen(item)
         /\ item.guard => ItemHead(item)[1] = "guard"
         /\ ItemHead(item)[Marks(item) + 1] = item.backend
         /\ Naming(item) = 2 => /\ ItemHead(item)[Marks(item) + 2] = "--name"
                                /\ ItemHead(item)[Marks(item) + 3] = item.name
         /\ \A q \in 1 .. Len(item.body) :
              ItemHead(item)[Marks(item) + 1 + Naming(item) + q] = item.body[q]
<1> DEFINE w == item.body
           g == IF item.guard THEN <<"guard">> ELSE <<>>
           b == <<item.backend>>
           gb == g \o b
           n == IF item.name # "" /\ item.backend # "process" THEN <<"--name", item.name>> ELSE <<>>
           gbn == gb \o n
           h == gbn \o w
<1>1. /\ item.backend \in Tokens /\ item.name \in Tokens /\ item.body \in Seq(Tokens)
      /\ Marks(item) \in {0, 1} /\ Naming(item) \in {0, 2} /\ Len(item.body) \in Nat
  BY ItemFields
<1>2. "guard" \in Tokens /\ "--name" \in Tokens
  BY DEF Tokens
<1>3. g \in Seq(Tokens) /\ Len(g) = Marks(item) /\ (item.guard => g[1] = "guard" /\ Len(g) = 1)
  BY <1>2 DEF Marks
<1>4. b \in Seq(Tokens) /\ Len(b) = 1 /\ b[1] = item.backend
  BY <1>1
<1>5. /\ n \in Seq(Tokens) /\ Len(n) = Naming(item)
      /\ Naming(item) = 2 => n[1] = "--name" /\ n[2] = item.name
  <2>1. CASE item.name # "" /\ item.backend # "process"
    <3>1. n = <<"--name", item.name>> /\ Naming(item) = 2
      BY <2>1 DEF Naming
    <3> HIDE DEF n
    <3> QED
      BY <1>1, <1>2, <3>1
  <2>2. CASE ~ (item.name # "" /\ item.backend # "process")
    <3>1. n = <<>> /\ Naming(item) = 0
      BY <2>2 DEF Naming
    <3> HIDE DEF n
    <3> QED
      BY <3>1, EmptySeq
  <2> QED
    BY <2>1, <2>2
<1>6. ItemHead(item) = h
  BY DEF ItemHead
<1> HIDE DEF g, b, n
<1>7. /\ gb \in Seq(Tokens) /\ Len(gb) = Len(g) + Len(b)
      /\ \A p \in 1 .. Len(g) + Len(b) : gb[p] = IF p <= Len(g) THEN g[p] ELSE b[p - Len(g)]
  BY <1>3, <1>4, ConcatProperties
<1> HIDE DEF gb
<1>8. /\ gbn \in Seq(Tokens) /\ Len(gbn) = Len(gb) + Len(n)
      /\ \A p \in 1 .. Len(gb) + Len(n) : gbn[p] = IF p <= Len(gb) THEN gb[p] ELSE n[p - Len(gb)]
  BY <1>5, <1>7, ConcatProperties
<1> HIDE DEF gbn
<1>b. w \in Seq(Tokens) /\ Len(w) \in Nat
  BY <1>1
<1> HIDE DEF w
<1>9. /\ h \in Seq(Tokens) /\ Len(h) = Len(gbn) + Len(w)
      /\ \A p \in 1 .. Len(gbn) + Len(w) :
           h[p] = IF p <= Len(gbn) THEN gbn[p] ELSE w[p - Len(gbn)]
  <2>1. gbn \in Seq(Tokens) /\ w \in Seq(Tokens)
    BY <1>b, <1>8
  <2> QED
    BY <2>1, ConcatProperties
<1>h. ItemHead(item) = h
  BY <1>6 DEF w, h
<1> HIDE DEF h
<1> DEFINE m == Marks(item)
           a == Naming(item)
<1>10. m \in {0, 1} /\ a \in {0, 2} /\ Len(g) = m /\ Len(b) = 1 /\ Len(n) = a
  BY <1>1, <1>3, <1>4, <1>5
<1>14. item.guard => m = 1
  BY <1>3
<1> HIDE DEF m, a
<1>11. Len(gb) = m + 1 /\ Len(gbn) = m + 1 + a /\ Len(h) = m + 1 + a + Len(w)
  BY <1>b, <1>7, <1>8, <1>9, <1>10
<1>12. \A p \in 1 .. m + 1 : h[p] = gb[p]
  <2>1. \A p \in 1 .. m + 1 : gbn[p] = gb[p]
    BY <1>8, <1>10, <1>11
  <2>2. \A p \in 1 .. m + 1 : h[p] = gbn[p]
    BY <1>b, <1>9, <1>10, <1>11
  <2> QED
    BY <2>1, <2>2
<1>13. gb[m + 1] = b[1]
  BY <1>7, <1>10
<1>15. item.guard => gb[1] = g[1]
  BY <1>7, <1>10, <1>14
<1>16. a = 2 => h[m + 2] = n[1] /\ h[m + 3] = n[2]
  <2> SUFFICES ASSUME a = 2 PROVE h[m + 2] = n[1] /\ h[m + 3] = n[2]
    OBVIOUS
  <2>1. gbn[m + 2] = n[1] /\ gbn[m + 3] = n[2]
    BY <1>8, <1>10, <1>11
  <2>2. h[m + 2] = gbn[m + 2] /\ h[m + 3] = gbn[m + 3]
    BY <1>b, <1>9, <1>10, <1>11
  <2> QED
    BY <2>1, <2>2
<1>17. \A q \in 1 .. Len(w) : h[m + 1 + a + q] = w[q]
  BY <1>b, <1>9, <1>10, <1>11
<1>18. item.guard => h[1] = "guard"
  BY <1>3, <1>12, <1>14, <1>15
<1>19. h[m + 1] = item.backend
  BY <1>4, <1>10, <1>12, <1>13
<1>20. HeadLen(item) = m + 1 + a + Len(w)
  BY DEF HeadLen, m, a, w
<1> QED
  BY <1>5, <1>h, <1>9, <1>11, <1>16, <1>17, <1>18, <1>19, <1>20 DEF m, a, w

(* The head, and behind it the separator and the command of an exec.       *)
LEMMA SegmentShape ==
  ASSUME NEW item \in ItemType
  PROVE  /\ ItemSegment(item) \in Seq(Tokens) /\ ItemSegment(item) # <<>>
         /\ Len(ItemSegment(item)) =
              HeadLen(item) + IF item.backend = "exec" THEN 1 + Len(item.command) ELSE 0
         /\ \A q \in 1 .. HeadLen(item) : ItemSegment(item)[q] = ItemHead(item)[q]
         /\ item.backend = "exec" =>
              /\ ItemSegment(item)[HeadLen(item) + 1] = "--"
              /\ \A q \in 1 .. Len(item.command) :
                   ItemSegment(item)[HeadLen(item) + 1 + q] = item.command[q]
<1> DEFINE h == ItemHead(item)
           d == <<"--">>
           dc == d \o item.command
           c == IF item.backend = "exec" THEN dc ELSE <<>>
           s == h \o c
<1>1. /\ item.command \in Seq(Tokens) /\ Len(item.command) \in Nat
      /\ HeadLen(item) \in Nat \ {0} /\ h \in Seq(Tokens) /\ Len(h) = HeadLen(item)
  BY ItemFields, HeadShape
<1>2. ItemSegment(item) = s
  BY DEF ItemSegment
<1>3. d \in Seq(Tokens) /\ Len(d) = 1 /\ d[1] = "--"
  <2>1. "--" \in Tokens
    BY DEF Tokens
  <2> QED
    BY <2>1
<1> HIDE DEF h, d
<1>4. /\ dc \in Seq(Tokens) /\ Len(dc) = Len(d) + Len(item.command)
      /\ \A p \in 1 .. Len(d) + Len(item.command) :
           dc[p] = IF p <= Len(d) THEN d[p] ELSE item.command[p - Len(d)]
  BY <1>1, <1>3, ConcatProperties
<1> HIDE DEF dc
<1>5. c \in Seq(Tokens) /\ Len(c) = IF item.backend = "exec" THEN 1 + Len(item.command) ELSE 0
  BY <1>3, <1>4
<1> HIDE DEF c
<1>6. /\ s \in Seq(Tokens) /\ Len(s) = Len(h) + Len(c)
      /\ \A p \in 1 .. Len(h) + Len(c) : s[p] = IF p <= Len(h) THEN h[p] ELSE c[p - Len(h)]
  BY <1>1, <1>5, ConcatProperties
<1> HIDE DEF s
<1>7. Len(c) \in Nat
  BY <1>5
<1>8. \A q \in 1 .. HeadLen(item) : s[q] = h[q]
  BY <1>1, <1>6, <1>7
<1>9. ASSUME item.backend = "exec"
      PROVE  /\ s[HeadLen(item) + 1] = "--"
             /\ \A q \in 1 .. Len(item.command) : s[HeadLen(item) + 1 + q] = item.command[q]
  <2>1. c = dc /\ Len(c) = 1 + Len(item.command)
    BY <1>5, <1>9 DEF c
  <2>2. s[HeadLen(item) + 1] = c[1]
    BY <1>1, <1>6, <1>7, <2>1
  <2>3. c[1] = "--"
    BY <1>1, <1>3, <1>4, <2>1
  <2>4. \A q \in 1 .. Len(item.command) : s[HeadLen(item) + 1 + q] = c[1 + q]
    BY <1>1, <1>6, <1>7, <2>1
  <2>5. \A q \in 1 .. Len(item.command) : c[1 + q] = item.command[q]
    BY <1>1, <1>3, <1>4, <2>1
  <2> QED
    BY <2>2, <2>3, <2>4, <2>5
<1>10. s # <<>>
  <2>1. Len(s) # 0
    BY <1>1, <1>6, <1>7
  <2> QED
    BY <2>1
<1> QED
  BY <1>1, <1>2, <1>5, <1>6, <1>8, <1>9, <1>10 DEF h
-----------------------------------------------------------------------------
(* Separators inside a segment. The token at q would end it.               *)
Parts(s, q) ==
  /\ s[q] = "--"
  /\ IsConditionStart(s, q + 1)
  /\ s[q - 1] \notin ValueFlags
  /\ ~ IsExecCommandSeparator(SubSeq(s, 1, q - 1))

Whole(s) == \A q \in 2 .. Len(s) - 1 : ~ Parts(s, q)

(* The separator of exec is looked for behind the first token.             *)
LEMMA ExecSeparator ==
  ASSUME NEW s \in Seq(Tokens), NEW n \in 1 .. Len(s)
  PROVE  IsExecCommandSeparator(SubSeq(s, 1, n))
           <=> s[1] = "exec" /\ \A p \in 2 .. n : s[p] # "--"
<1>1. Len(s) \in Nat /\ n \in Nat \ {0} /\ \A p \in 1 .. n : s[p] \in Tokens
  OBVIOUS
<1>2. /\ SubSeq(s, 1, n) \in Seq(Tokens)
      /\ Len(SubSeq(s, 1, n)) = n
      /\ \A p \in 1 .. n : SubSeq(s, 1, n)[p] = s[p]
  BY <1>1, SubSeqProperties
<1> QED
  BY <1>1, <1>2 DEF IsExecCommandSeparator

(* A segment is the start of a condition.                                  *)
LEMMA SegmentStarts ==
  ASSUME NEW item \in ItemType
  PROVE  /\ IsConditionStart(ItemSegment(item), 1)
         /\ ItemSegment(item)[1] # "--"
         /\ item.guard => ItemSegment(item)[1] = "guard" /\ ItemSegment(item)[2] = item.backend
         /\ ~ item.guard => ItemSegment(item)[1] = item.backend
<1> DEFINE s == ItemSegment(item)
<1>1. /\ HeadLen(item) = Marks(item) + 1 + Naming(item) + Len(item.body)
      /\ Naming(item) \in {0, 2} /\ Len(item.body) \in Nat /\ HeadLen(item) \in Nat \ {0}
      /\ Len(item.command) \in Nat /\ item.backend \in Backends
  BY ItemFields DEF HeadLen
<1>2. Len(s) >= HeadLen(item) /\ Len(s) \in Nat
  BY <1>1, SegmentShape
<1>3. \A q \in 1 .. HeadLen(item) : s[q] = ItemHead(item)[q]
  BY SegmentShape
<1>4. ItemHead(item)[Marks(item) + 1] = item.backend /\ (item.guard => ItemHead(item)[1] = "guard")
  BY HeadShape
<1> HIDE DEF s
<1>5. CASE item.guard
  <2>1. Marks(item) = 1
    BY <1>5 DEF Marks
  <2>2. s[1] = "guard" /\ s[2] = item.backend /\ 1 < Len(s)
    BY <1>1, <1>2, <1>3, <1>4, <1>5, <2>1
  <2> QED
    BY <1>1, <1>5, <2>2 DEF s, IsConditionStart
<1>6. CASE ~ item.guard
  <2>1. Marks(item) = 0
    BY <1>6 DEF Marks
  <2>2. s[1] = item.backend
    BY <1>1, <1>2, <1>3, <1>4, <2>1
  <2>3. item.backend # "--"
    BY <1>1, SegmentsAssumption
  <2> QED
    BY <1>1, <1>6, <2>2, <2>3 DEF s, IsConditionStart
<1> QED
  BY <1>5, <1>6

(* What stands where, for all the proofs below.                            *)
LEMMA SegmentPlaces ==
  ASSUME NEW item \in ItemType, NEW s, s = ItemSegment(item),
         NEW m, m = Marks(item), NEW a, a = Naming(item), NEW h, h = HeadLen(item)
  PROVE  /\ m \in {0, 1} /\ a \in {0, 2} /\ h = m + 1 + a + Len(item.body)
         /\ Len(item.body) \in Nat /\ Len(item.command) \in Nat
         /\ s \in Seq(Tokens)
         /\ Len(s) = IF item.backend = "exec" THEN h + 1 + Len(item.command) ELSE h
         /\ s[m + 1] = item.backend
         /\ a = 2 => s[m + 2] = "--name" /\ s[m + 3] = item.name
         /\ \A q \in 1 .. Len(item.body) : s[m + 1 + a + q] = item.body[q]
         /\ item.backend = "exec" =>
              /\ s[h + 1] = "--"
              /\ \A q \in 1 .. Len(item.command) : s[h + 1 + q] = item.command[q]
         /\ s[h] = Last(ItemHead(item))
<1>1. /\ m \in {0, 1} /\ a \in {0, 2} /\ h = m + 1 + a + Len(item.body)
      /\ Len(item.body) \in Nat /\ Len(item.command) \in Nat
  BY ItemFields DEF HeadLen
<1>2. /\ s \in Seq(Tokens)
      /\ Len(s) = h + (IF item.backend = "exec" THEN 1 + Len(item.command) ELSE 0)
      /\ item.backend = "exec" =>
              /\ s[h + 1] = "--"
              /\ \A q \in 1 .. Len(item.command) : s[h + 1 + q] = item.command[q]
      /\ \A q \in 1 .. h : s[q] = ItemHead(item)[q]
  BY SegmentShape
<1>3. /\ Len(ItemHead(item)) = h
      /\ ItemHead(item)[m + 1] = item.backend
      /\ a = 2 => ItemHead(item)[m + 2] = "--name" /\ ItemHead(item)[m + 3] = item.name
      /\ \A q \in 1 .. Len(item.body) : ItemHead(item)[m + 1 + a + q] = item.body[q]
  BY HeadShape
<1>n. \A q \in 1 .. h : s[q] = ItemHead(item)[q]
  BY <1>2
<1>4. s[m + 1] = item.backend /\ (a = 2 => s[m + 2] = "--name" /\ s[m + 3] = item.name)
  <2>1. m + 1 \in 1 .. h /\ (a = 2 => m + 2 \in 1 .. h /\ m + 3 \in 1 .. h)
    BY <1>1
  <2> QED
    BY <1>3, <1>n, <2>1
<1>5. \A q \in 1 .. Len(item.body) : s[m + 1 + a + q] = item.body[q]
  <2> TAKE q \in 1 .. Len(item.body)
  <2>1. m + 1 + a + q \in 1 .. h
    <3>1. Len(item.body) \in Nat /\ q \in Nat /\ q <= Len(item.body)
      BY <1>1
    <3>2. m + 1 + a \in Nat \ {0} /\ h = (m + 1 + a) + Len(item.body)
      BY <1>1
    <3> QED
      BY <3>1, <3>2
  <2>2. ItemHead(item)[m + 1 + a + q] = item.body[q]
    BY <1>3
  <2> QED
    BY <1>n, <2>1, <2>2
<1>6. s[h] = Last(ItemHead(item))
  <2>1. h \in 1 .. h
    BY <1>1
  <2>2. Len(ItemHead(item)) = h
    BY <1>3
  <2> QED
    BY <1>n, <2>1, <2>2 DEF Last
<1>7. Len(s) = IF item.backend = "exec" THEN h + 1 + Len(item.command) ELSE h
  BY <1>1, <1>2
<1> QED
  BY <1>1, <1>2, <1>4, <1>5, <1>6, <1>7

(* A condition started inside a part of the segment starts in the part.    *)
LEMMA StartInPart ==
  ASSUME NEW s \in Seq(Tokens), NEW w \in Seq(Tokens), NEW o \in Nat, NEW j \in Nat \ {0},
         Len(s) = o + Len(w), j <= Len(w),
         \A q \in 1 .. Len(w) : s[o + q] = w[q]
  PROVE  IsConditionStart(s, o + j) <=> IsConditionStart(w, j)
<1>1. Len(w) \in Nat /\ Len(s) \in Nat /\ j \in 1 .. Len(w) /\ s[o + j] = w[j]
  OBVIOUS
<1>2. j < Len(w) <=> o + j < Len(s)
  BY <1>1
<1>3. j < Len(w) => s[o + j + 1] = w[j + 1]
  <2>1. j < Len(w) => j + 1 \in 1 .. Len(w) /\ o + (j + 1) = o + j + 1
    BY <1>1
  <2> QED
    BY <2>1
<1> QED
  BY <1>1, <1>2, <1>3 DEF IsConditionStart
-----------------------------------------------------------------------------
(* Written, a condition has no token inside that would end it, unless it is *)
(* one of those that Readable names.                                       *)
LEMMA NoSeparatorInside ==
  ASSUME NEW item \in ItemType, WellFormed(item),
         ~ ExecFlagIsSeparator(item), ~ CommandStartsCondition(item), ~ GuardHidesExec(item)
  PROVE  Whole(ItemSegment(item))
<1> DEFINE s == ItemSegment(item)
           m == Marks(item)
           a == Naming(item)
           h == HeadLen(item)
           b == item.body
           c == item.command
           e == item.backend = "exec"
<1>1. /\ m \in {0, 1} /\ a \in {0, 2} /\ h = m + 1 + a + Len(b)
      /\ Len(b) \in Nat /\ Len(c) \in Nat
      /\ s \in Seq(Tokens)
      /\ Len(s) = IF e THEN h + 1 + Len(c) ELSE h
      /\ s[m + 1] = item.backend
      /\ a = 2 => s[m + 2] = "--name" /\ s[m + 3] = item.name
      /\ \A q \in 1 .. Len(b) : s[m + 1 + a + q] = b[q]
      /\ e => /\ s[h + 1] = "--"
              /\ \A q \in 1 .. Len(c) : s[h + 1 + q] = c[q]
      /\ s[h] = Last(ItemHead(item))
  BY SegmentPlaces
<1>2. b \in Seq(Tokens) /\ c \in Seq(Tokens) /\ item.backend \in Backends
  BY ItemFields
<1>3. /\ ~ e => c = <<>>
      /\ \A p \in 1 .. Len(b) - 1 : b[p] = "--" => ~ IsConditionStart(b, p + 1)
  BY DEF WellFormed
<1>4. e => item.name # "--" /\ \A p \in 1 .. Len(b) : b[p] # "--"
  BY DEF ExecFlagIsSeparator, Contains
<1>5. ~ item.guard => m = 0
  BY DEF Marks
<1>6. m = 1 => item.guard
  BY DEF Marks
<1>7. \A p \in 1 .. Len(c) - 1 :
        c[p] = "--" /\ (p > 1 => c[p - 1] \notin ValueFlags) => ~ IsConditionStart(c, p + 1)
  BY DEF CommandStartsCondition
<1>8. item.guard /\ c # <<>> /\ IsConditionStart(c, 1) => s[h] \in ValueFlags
  BY <1>1 DEF GuardHidesExec
<1>9. "--name" \in ValueFlags /\ item.backend # "--" /\ s[1] # "--"
  BY <1>2, SegmentsAssumption, SegmentStarts
<1> HIDE DEF s, m, a, h, b, c, e
<1> SUFFICES ASSUME NEW q \in 2 .. Len(s) - 1, Parts(s, q) PROVE FALSE
  BY DEF Whole, s
<1>10. /\ Len(s) \in Nat /\ q \in Nat /\ q > 1 /\ q < Len(s)
       /\ s[q] = "--" /\ IsConditionStart(s, q + 1) /\ s[q - 1] \notin ValueFlags
       /\ ~ IsExecCommandSeparator(SubSeq(s, 1, q - 1))
  BY <1>1 DEF Parts
<1>11. CASE q <= m + 1
  BY <1>1, <1>9, <1>10, <1>11
<1>12. CASE a = 2 /\ q = m + 2
  BY <1>1, <1>10, <1>12
<1>13. CASE a = 2 /\ q = m + 3
  <2>1. q - 1 = m + 2
    BY <1>1, <1>13
  <2> QED
    BY <1>1, <1>9, <1>10, <1>13, <2>1
<1>14. CASE q > m + 1 + a /\ q <= h
  <2>1. PICK j \in Nat : j = q - (m + 1 + a)
    BY <1>1, <1>10, <1>14
  <2>2. j \in 1 .. Len(b) /\ q = m + 1 + a + j
    BY <1>1, <1>10, <1>14, <2>1
  <2>3. b[j] = "--"
    BY <1>1, <1>10, <2>2
  <2>4. ~ e /\ Len(s) = h
    BY <1>1, <1>4, <2>2, <2>3
  <2>5. /\ j + 1 \in Nat \ {0} /\ j + 1 <= Len(b) /\ j \in 1 .. Len(b) - 1
        /\ m + 1 + a \in Nat /\ q + 1 = (m + 1 + a) + (j + 1) /\ Len(s) = (m + 1 + a) + Len(b)
    BY <1>1, <1>10, <2>2, <2>4
  <2>6. IsConditionStart(s, (m + 1 + a) + (j + 1)) <=> IsConditionStart(b, j + 1)
    <3>1. s \in Seq(Tokens) /\ b \in Seq(Tokens) /\ \A p \in 1 .. Len(b) : s[(m + 1 + a) + p] = b[p]
      BY <1>1, <1>2
    <3> HIDE DEF Parts
    <3> QED
      BY <2>5, <3>1, StartInPart
  <2>7. IsConditionStart(b, j + 1)
    BY <1>10, <2>5, <2>6
  <2> QED
    BY <1>3, <2>3, <2>5, <2>7
<1>15. CASE q = h + 1
  <2>1. e
    BY <1>1, <1>10, <1>15
  <2>2. item.backend = "exec"
    BY <2>1 DEF e
  <2>3. CASE item.guard
    <3>1. /\ Len(s) = (h + 1) + Len(c) /\ h + 1 \in Nat /\ 1 \in Nat \ {0} /\ 1 <= Len(c)
          /\ q + 1 = (h + 1) + 1
      BY <1>1, <1>10, <1>15, <2>1
    <3>2. IsConditionStart(s, (h + 1) + 1) <=> IsConditionStart(c, 1)
      <4>1. s \in Seq(Tokens) /\ c \in Seq(Tokens) /\ \A p \in 1 .. Len(c) : s[(h + 1) + p] = c[p]
        BY <1>1, <1>2, <2>1
      <4> QED
        BY <3>1, <4>1, StartInPart
    <3>3. c # <<>> /\ q - 1 = h
      BY <1>1, <1>15, <3>1
    <3> QED
      BY <1>8, <1>10, <2>3, <3>1, <3>2, <3>3
  <2>4. CASE ~ item.guard
    <3>1. m = 0 /\ s[1] = "exec"
      BY <1>1, <1>5, <2>2, <2>4
    <3>2. ASSUME NEW p \in 2 .. h PROVE s[p] # "--"
      <4>1. CASE a = 2 /\ p = 2
        BY <1>1, <3>1, <4>1
      <4>2. CASE a = 2 /\ p = 3
        BY <1>1, <1>4, <2>1, <3>1, <4>2
      <4>3. CASE p > 1 + a
        <5>1. p - (1 + a) \in 1 .. Len(b) /\ m + 1 + a + (p - (1 + a)) = p
          BY <1>1, <3>1, <3>2, <4>3
        <5>2. b[p - (1 + a)] # "--"
          BY <1>4, <2>1, <5>1
        <5>3. s[m + 1 + a + (p - (1 + a))] = b[p - (1 + a)]
          BY <1>1, <5>1
        <5> QED
          BY <5>1, <5>2, <5>3
      <4> QED
        BY <1>1, <3>1, <3>2, <4>1, <4>2, <4>3
    <3>3. h \in 1 .. Len(s) /\ q - 1 = h
      BY <1>1, <1>10, <1>15
    <3>4. IsExecCommandSeparator(SubSeq(s, 1, h))
      BY <1>1, <3>1, <3>2, <3>3, ExecSeparator
    <3> QED
      BY <1>10, <3>3, <3>4
  <2> QED
    BY <2>3, <2>4
<1>16. CASE q > h + 1
  <2>0. h \in Nat
    BY <1>1
  <2>1. PICK j \in Nat : j = q - (h + 1)
    BY <1>10, <1>16, <2>0
  <2>n. Len(c) \in Nat /\ Len(s) = IF e THEN h + 1 + Len(c) ELSE h
    BY <1>1
  <2>2. e /\ j \in 1 .. Len(c) - 1 /\ q = (h + 1) + j
    BY <1>10, <1>16, <2>0, <2>n, <2>1
  <2>3. c[j] = "--"
    <3>1. j \in 1 .. Len(c) /\ h + 1 + j = q
      BY <2>0, <2>n, <2>2
    <3> QED
      BY <1>1, <1>10, <2>2, <3>1
  <2>4. j > 1 => c[j - 1] \notin ValueFlags
    <3> SUFFICES ASSUME j > 1 PROVE c[j - 1] \notin ValueFlags
      OBVIOUS
    <3>1. j - 1 \in 1 .. Len(c) /\ (h + 1) + (j - 1) = q - 1
      BY <2>0, <2>n, <2>2
    <3>2. s[(h + 1) + (j - 1)] = c[j - 1]
      BY <1>1, <2>2, <3>1
    <3> QED
      BY <1>10, <3>1, <3>2
  <2>5. /\ j + 1 \in Nat \ {0} /\ j + 1 <= Len(c)
        /\ h + 1 \in Nat /\ q + 1 = (h + 1) + (j + 1) /\ Len(s) = (h + 1) + Len(c)
    BY <2>0, <2>n, <2>2
  <2>6. IsConditionStart(s, (h + 1) + (j + 1)) <=> IsConditionStart(c, j + 1)
    <3>1. s \in Seq(Tokens) /\ c \in Seq(Tokens) /\ \A p \in 1 .. Len(c) : s[(h + 1) + p] = c[p]
      BY <1>1, <1>2, <2>2
    <3> QED
      BY <2>5, <3>1, StartInPart
  <2>7. IsConditionStart(c, j + 1)
    BY <1>10, <2>5, <2>6
  <2> QED
    BY <1>7, <2>2, <2>3, <2>4, <2>7
<1> QED
  BY <1>1, <1>10, <1>11, <1>12, <1>13, <1>14, <1>15, <1>16

(* And with such a token it is not whole: a command that starts a condition, *)
(* or a guard in front of an exec whose command is named like a backend.   *)
LEMMA SeparatorInside ==
  ASSUME NEW item \in ItemType, WellFormed(item), Whole(ItemSegment(item))
  PROVE  ~ CommandStartsCondition(item) /\ ~ GuardHidesExec(item)
<1> DEFINE s == ItemSegment(item)
           h == HeadLen(item)
           c == item.command
<1>1. /\ h \in Nat \ {0} /\ Len(c) \in Nat /\ c \in Seq(Tokens)
  BY ItemFields
<1>2. /\ s \in Seq(Tokens)
      /\ item.backend = "exec" =>
           /\ Len(s) = h + 1 + Len(c)
           /\ s[h + 1] = "--"
           /\ \A q \in 1 .. Len(c) : s[h + 1 + q] = c[q]
      /\ s[h] = Last(ItemHead(item))
  BY SegmentPlaces
<1>3. c # <<>> => item.backend = "exec"
  BY DEF WellFormed
<1>4. item.guard => s[1] = "guard"
  BY SegmentStarts
<1>5. \A q \in 2 .. Len(s) - 1 : ~ Parts(s, q)
  BY DEF Whole
<1> HIDE DEF s, h, c
<1>6. "--" \notin ValueFlags
  BY SegmentsAssumption
<1>7. ~ CommandStartsCondition(item)
  <2> SUFFICES ASSUME NEW p \in 1 .. Len(c) - 1,
                      c[p] = "--", p > 1 => c[p - 1] \notin ValueFlags,
                      IsConditionStart(c, p + 1)
               PROVE  FALSE
    BY DEF CommandStartsCondition, c
  <2>1. c # <<>> /\ item.backend = "exec"
    <3>1. Len(c) # 0
      BY <1>1
    <3> QED
      BY <1>1, <1>3, <3>1
  <2> DEFINE q == h + 1 + p
  <2>2. /\ Len(s) = (h + 1) + Len(c) /\ q \in 2 .. Len(s) - 1 /\ q - 1 = h + p /\ h + 1 \in Nat
        /\ p + 1 \in Nat \ {0} /\ p + 1 <= Len(c) /\ q + 1 = (h + 1) + (p + 1)
    BY <1>1, <1>2, <2>1
  <2>3. s[q] = "--"
    BY <1>2, <2>1
  <2>4. s[q - 1] \notin ValueFlags
    <3>1. CASE p = 1
      BY <1>1, <1>2, <1>6, <2>1, <2>2, <3>1
    <3>2. CASE p > 1
      <4>1. p - 1 \in 1 .. Len(c) /\ h + 1 + (p - 1) = q - 1
        BY <1>1, <3>2
      <4>2. s[h + 1 + (p - 1)] = c[p - 1]
        BY <1>2, <2>1, <4>1
      <4> QED
        BY <3>2, <4>1, <4>2
    <3> QED
      BY <3>1, <3>2
  <2>5. IsConditionStart(s, (h + 1) + (p + 1)) <=> IsConditionStart(c, p + 1)
    <3>1. \A r \in 1 .. Len(c) : s[(h + 1) + r] = c[r]
      BY <1>2, <2>1
    <3> QED
      BY <1>1, <1>2, <2>2, <3>1, StartInPart
  <2>6. ~ IsExecCommandSeparator(SubSeq(s, 1, q - 1))
    <3>1. q - 1 \in 1 .. Len(s) /\ h + 1 \in 2 .. q - 1
      BY <1>1, <2>2
    <3> HIDE DEF q
    <3> QED
      BY <1>2, <2>1, <3>1, ExecSeparator
  <2>7. IsConditionStart(s, q + 1)
    BY <2>2, <2>5
  <2> HIDE DEF q
  <2>8. Parts(s, q)
    BY <2>3, <2>4, <2>6, <2>7 DEF Parts
  <2> QED
    BY <1>5, <2>2, <2>8
<1>8. ~ GuardHidesExec(item)
  <2> SUFFICES ASSUME item.guard, c # <<>>, IsConditionStart(c, 1), s[h] \notin ValueFlags
               PROVE  FALSE
    BY <1>2 DEF GuardHidesExec, c
  <2>1. Len(c) \in Nat \ {0} /\ item.backend = "exec"
    BY <1>1, <1>3, EmptySeq
  <2>2. Len(s) = (h + 1) + Len(c) /\ h + 1 \in 2 .. Len(s) - 1 /\ h + 1 \in Nat /\ (h + 1) - 1 = h
    BY <1>1, <1>2, <2>1
  <2>3. IsConditionStart(s, (h + 1) + 1) <=> IsConditionStart(c, 1)
    <3>1. \A r \in 1 .. Len(c) : s[(h + 1) + r] = c[r]
      BY <1>2, <2>1
    <3>2. 1 \in Nat \ {0} /\ 1 <= Len(c)
      BY <2>1
    <3> QED
      BY <1>1, <1>2, <2>2, <3>1, <3>2, StartInPart
  <2>4. ~ IsExecCommandSeparator(SubSeq(s, 1, (h + 1) - 1))
    <3>1. h \in 1 .. Len(s) /\ s[1] # "exec"
      BY <1>1, <1>4, <2>2
    <3> QED
      BY <1>2, <2>2, <3>1, ExecSeparator
  <2>5. Parts(s, h + 1)
    BY <1>2, <2>1, <2>2, <2>3, <2>4 DEF Parts
  <2> QED
    BY <1>5, <2>2, <2>5
<1> QED
  BY <1>7, <1>8
-----------------------------------------------------------------------------
(* Parsing one segment.                                                    *)
LEMMA LeastIs ==
  ASSUME NEW S, S \subseteq Nat, NEW n \in S, \A y \in S : n <= y
  PROVE  Min(S) = n
<1>1. Min(S) \in S /\ \A y \in S : Min(S) <= y
  BY DEF Min
<1>2. Min(S) \in Nat /\ n \in Nat /\ Min(S) <= n /\ n <= Min(S)
  BY <1>1
<1> QED
  BY <1>2

(* A set of numbers has a least one.                                       *)
LEMMA LeastIn ==
  ASSUME NEW S, S \subseteq Nat, S # {}
  PROVE  Min(S) \in S /\ \A y \in S : Min(S) <= y
<1>1. PICK n \in S : \A y \in S : n <= y
  BY LeastNumber
<1>2. Min(S) = n
  BY <1>1, LeastIs
<1> QED
  BY <1>1, <1>2

(* The first "--" behind the first token, where it is known,               *)
LEMMA SeparatorIs ==
  ASSUME NEW s \in Seq(Tokens), NEW k \in 2 .. Len(s), s[k] = "--",
         \A p \in 2 .. k - 1 : s[p] # "--"
  PROVE  SeparatorIn(s) = k
<1> DEFINE found == {p \in 2 .. Len(s) : s[p] = "--"}
<1>1. Len(s) \in Nat
  OBVIOUS
<1>2. found \subseteq Nat /\ k \in found /\ found # {}
  BY <1>1
<1>3. \A y \in found : k <= y
  BY <1>1
<1> HIDE DEF found
<1>4. Min(found) = k
  BY <1>2, <1>3, LeastIs
<1> QED
  BY <1>2, <1>4 DEF SeparatorIn, found

(* and where it is not.                                                    *)
LEMMA SeparatorFirst ==
  ASSUME NEW s \in Seq(Tokens), s # <<>>
  PROVE  /\ SeparatorIn(s) \in 2 .. Len(s) + 1
         /\ SeparatorIn(s) <= Len(s) => s[SeparatorIn(s)] = "--"
         /\ \A p \in 2 .. SeparatorIn(s) - 1 : s[p] # "--"
<1> DEFINE found == {p \in 2 .. Len(s) : s[p] = "--"}
<1>1. Len(s) \in Nat \ {0}
  BY EmptySeq
<1>2. found \subseteq Nat
  BY <1>1
<1>3. CASE found = {}
  <2>1. SeparatorIn(s) = Len(s) + 1
    BY <1>3 DEF SeparatorIn
  <2>2. \A p \in 2 .. Len(s) : s[p] # "--"
    BY <1>3
  <2> QED
    BY <1>1, <2>1, <2>2
<1>4. CASE found # {}
  <2>1. SeparatorIn(s) = Min(found)
    BY <1>4 DEF SeparatorIn
  <2>2. Min(found) \in found /\ \A y \in found : Min(found) <= y
    <3> HIDE DEF found
    <3> QED
      BY <1>2, <1>4, LeastIn
  <2>3. PICK k \in 2 .. Len(s) : k = SeparatorIn(s) /\ s[k] = "--" /\ \A y \in found : k <= y
    BY <2>1, <2>2
  <2>4. \A p \in 2 .. k - 1 : s[p] # "--"
    BY <1>1, <2>3
  <2> QED
    BY <1>1, <2>3, <2>4
<1> QED
  BY <1>3, <1>4

(* Names and flags are looked for in front of the limit.                   *)
LEMMA LimitOfFlags ==
  ASSUME NEW t \in Seq(Tokens), t # <<>>
  PROVE  /\ ConditionFlagLimit(t) \in 2 .. Len(t) + 1
         /\ t[1] # "exec" => ConditionFlagLimit(t) = Len(t) + 1
         /\ t[1] = "exec" => ConditionFlagLimit(t) = SeparatorIn(t)
<1>1. Len(t) \in Nat \ {0}
  BY EmptySeq
<1> QED
  BY <1>1, SeparatorFirst DEF ConditionFlagLimit

(* A name is taken out, or there is none.                                  *)
Taken(t, name, rest) ==
  /\ t[1] # "process"
  /\ \E p \in 2 .. ConditionFlagLimit(t) - 2 :
       /\ name = t[p + 1]
       /\ Len(rest) = Len(t) - 2
       /\ \A x \in 1 .. p - 1 : rest[x] = t[x]
       /\ \A x \in p .. Len(t) - 2 : rest[x] = t[x + 2]
       /\ \A q \in 2 .. ConditionFlagLimit(t) - 1 :
            q \notin {p, p + 1} => t[q] # "--name"

Untaken(t, name, rest) ==
  /\ name = "" /\ rest = t
  /\ \/ t[1] = "process"
     \/ \A q \in 2 .. ConditionFlagLimit(t) - 1 : t[q] # "--name"

(* parseConditionName does one or the other.                               *)
LEMMA NameCases ==
  ASSUME NEW t \in Seq(Tokens), t # <<>>, NEW named \in ParseConditionName(t)
  PROVE  /\ named.rest \in Seq(Tokens) /\ named.rest # <<>> /\ named.rest[1] = t[1]
         /\ \/ Taken(t, named.name, named.rest)
            \/ Untaken(t, named.name, named.rest)
<1> DEFINE limit == ConditionFlagLimit(t)
           found == {p \in 2 .. limit - 1 : t[p] = "--name"}
           p == Min(found)
           cut == SubSeq(t, 1, p - 1) \o SubSeq(t, p + 2, Len(t))
<1>1. Len(t) \in Nat \ {0} /\ limit \in 2 .. Len(t) + 1
  BY LimitOfFlags, EmptySeq
<1>2. CASE t[1] = "process" \/ found = {}
  <2>1. named = [name |-> "", rest |-> t]
    BY <1>2 DEF ParseConditionName
  <2>2. named.name = "" /\ named.rest = t
    BY <2>1
  <2>3. t[1] = "process" \/ \A q \in 2 .. limit - 1 : t[q] # "--name"
    BY <1>2
  <2> QED
    BY <2>2, <2>3 DEF Untaken
<1>3. CASE ~ (t[1] = "process" \/ found = {})
  <2>1. /\ ~ (p + 1 >= limit) /\ ~ (\E q \in found : q > p + 1)
        /\ named = [name |-> t[p + 1], rest |-> cut]
    BY <1>3 DEF ParseConditionName
  <2>2. found \subseteq Nat
    BY <1>1
  <2>3. Min(found) \in found /\ \A y \in found : Min(found) <= y
    <3> HIDE DEF found
    <3> QED
      BY <1>3, <2>2, LeastIn
  <2>4. p \in 2 .. limit - 1 /\ \A q \in 2 .. limit - 1 : t[q] = "--name" => p <= q /\ ~ (q > p + 1)
    <3> HIDE DEF p
    <3>1. p \in found /\ \A y \in found : p <= y
      BY <2>3 DEF p
    <3>2. \A q \in 2 .. limit - 1 : t[q] = "--name" => q \in found
      OBVIOUS
    <3>3. p \in 2 .. limit - 1
      BY <3>1
    <3> HIDE DEF found
    <3> QED
      BY <2>1, <3>1, <3>2, <3>3
  <2>5. named.name = t[p + 1] /\ named.rest = cut
    BY <2>1
  <2>6. limit \in Nat /\ p + 1 < limit
    <3>1. limit \in Nat /\ p \in Nat
      BY <1>1, <2>4
    <3> HIDE DEF limit, p
    <3> QED
      BY <2>1, <3>1
  <2> HIDE DEF limit, p
  <2>7. p \in Nat /\ p >= 2 /\ p + 1 <= Len(t) /\ p \in 2 .. limit - 2
    BY <1>1, <2>4, <2>6
  <2> DEFINE u == SubSeq(t, 1, p - 1)
             v == SubSeq(t, p + 2, Len(t))
  <2>8. u \in Seq(Tokens) /\ Len(u) = p - 1 /\ \A x \in 1 .. p - 1 : u[x] = t[x]
    <3>1. \A x \in 1 .. p - 1 : t[x] \in Tokens
      BY <1>1, <2>7
    <3>2. 1 \in Int /\ p - 1 \in Int /\ 1 <= p - 1 /\ (p - 1) - 1 + 1 = p - 1
      BY <2>7
    <3>3. /\ SubSeq(t, 1, p - 1) \in Seq(Tokens)
          /\ Len(SubSeq(t, 1, p - 1)) = IF 1 <= p - 1 THEN (p - 1) - 1 + 1 ELSE 0
          /\ \A x \in 1 .. (p - 1) - 1 + 1 : SubSeq(t, 1, p - 1)[x] = t[1 + x - 1]
      BY <3>1, <3>2, SubSeqProperties
    <3> QED
      BY <3>2, <3>3
  <2>9. /\ v \in Seq(Tokens) /\ Len(v) = Len(t) - (p + 1)
        /\ \A x \in 1 .. Len(t) - (p + 1) : v[x] = t[x + p + 1]
    <3>1. \A x \in p + 2 .. Len(t) : t[x] \in Tokens
      BY <1>1, <2>7
    <3>2. p + 2 \in Int /\ Len(t) \in Int
      BY <1>1, <2>7
    <3>3. /\ SubSeq(t, p + 2, Len(t)) \in Seq(Tokens)
          /\ Len(SubSeq(t, p + 2, Len(t))) = IF p + 2 <= Len(t) THEN Len(t) - (p + 2) + 1 ELSE 0
          /\ \A x \in 1 .. Len(t) - (p + 2) + 1 : SubSeq(t, p + 2, Len(t))[x] = t[p + 2 + x - 1]
      BY <3>1, <3>2, SubSeqProperties
    <3> QED
      BY <1>1, <2>7, <3>3
  <2> HIDE DEF u, v
  <2>10. /\ cut \in Seq(Tokens) /\ Len(cut) = Len(u) + Len(v)
         /\ \A x \in 1 .. Len(u) + Len(v) : cut[x] = IF x <= Len(u) THEN u[x] ELSE v[x - Len(u)]
    <3>1. cut = u \o v
      BY DEF u, v
    <3>2. u \in Seq(Tokens) /\ v \in Seq(Tokens)
      BY <2>8, <2>9
    <3> HIDE DEF cut
    <3> QED
      BY <3>1, <3>2, ConcatProperties
  <2> HIDE DEF cut
  <2>11. Len(cut) = Len(t) - 2
    BY <1>1, <2>7, <2>8, <2>9, <2>10
  <2>12. \A x \in 1 .. p - 1 : cut[x] = t[x]
    <3> TAKE x \in 1 .. p - 1
    <3>1. x \in 1 .. Len(u) + Len(v) /\ x <= Len(u)
      BY <1>1, <2>7, <2>8, <2>9
    <3> QED
      BY <2>8, <2>10, <3>1
  <2>13. \A x \in p .. Len(t) - 2 : cut[x] = t[x + 2]
    <3> TAKE x \in p .. Len(t) - 2
    <3>1. x - (p - 1) \in 1 .. Len(t) - (p + 1) /\ x \in 1 .. Len(u) + Len(v) /\ ~ (x <= Len(u))
      BY <1>1, <2>7, <2>8, <2>9
    <3>2. cut[x] = v[x - (p - 1)] /\ v[x - (p - 1)] = t[x - (p - 1) + p + 1]
      BY <2>8, <2>9, <2>10, <3>1
    <3>3. x - (p - 1) + p + 1 = x + 2
      BY <1>1, <2>7
    <3> QED
      BY <3>2, <3>3
  <2>14. cut # <<>> /\ cut[1] = t[1]
    <3>1. 1 \in 1 .. p - 1 /\ Len(t) - 2 # 0
      <4>1. Len(t) \in Nat /\ p \in Nat /\ p >= 2 /\ p + 1 <= Len(t)
        BY <1>1, <2>7
      <4> DEFINE n == Len(t)
      <4> HIDE DEF n, found
      <4>2. n - 2 # 0 /\ 1 <= p - 1
        <5>1. n \in Nat /\ p \in Nat /\ p >= 2 /\ p + 1 <= n
          BY <4>1 DEF n
        <5> QED
          BY <5>1
      <4>3. 1 \in 1 .. p - 1
        BY <4>1, <4>2
      <4> QED
        BY <4>2, <4>3 DEF n
    <3>2. Len(cut) # 0
      BY <2>11, <3>1
    <3> QED
      BY <2>10, <2>12, <3>1, <3>2, EmptySeq
  <2>15. \A q \in 2 .. limit - 1 : q \notin {p, p + 1} => t[q] # "--name"
    BY <2>4, <2>6, <2>7
  <2>16. Taken(t, named.name, named.rest)
    BY <1>3, <2>5, <2>7, <2>11, <2>12, <2>13, <2>15 DEF Taken, limit
  <2> QED
    BY <2>5, <2>10, <2>14, <2>16
<1> QED
  BY <1>2, <1>3

(* A part of a sequence.                                                   *)
LEMMA Slice ==
  ASSUME NEW s \in Seq(Tokens), NEW a \in Nat \ {0}, NEW b \in Nat, b <= Len(s), a <= b + 1
  PROVE  /\ SubSeq(s, a, b) \in Seq(Tokens)
         /\ Len(SubSeq(s, a, b)) = b + 1 - a
         /\ \A q \in 1 .. b + 1 - a : SubSeq(s, a, b)[q] = s[a + q - 1]
<1>1. \A x \in a .. b : s[x] \in Tokens
  <2>1. Len(s) \in Nat
    OBVIOUS
  <2> QED
    BY <2>1
<1>2. a \in Int /\ b \in Int /\ b - a + 1 = b + 1 - a
  OBVIOUS
<1>3. /\ SubSeq(s, a, b) \in Seq(Tokens)
      /\ Len(SubSeq(s, a, b)) = IF a <= b THEN b - a + 1 ELSE 0
      /\ \A q \in 1 .. b - a + 1 : SubSeq(s, a, b)[q] = s[a + q - 1]
  BY <1>1, <1>2, SubSeqProperties
<1> QED
  BY <1>2, <1>3

(* What the parser of a backend makes of the tokens it is given.           *)
LEMMA BackendCases ==
  ASSUME NEW r \in Seq(Tokens), NEW g, NEW n, NEW item \in ParseBackend(r, g, n)
  PROVE  /\ item.guard = g /\ item.name = n /\ item.backend = r[1]
         /\ r[1] = "exec" =>
              /\ SeparatorIn(r) < Len(r)
              /\ item.body = SubSeq(r, 2, SeparatorIn(r) - 1)
              /\ item.command = SubSeq(r, SeparatorIn(r) + 1, Len(r))
         /\ r[1] # "exec" => item.body = SubSeq(r, 2, Len(r)) /\ item.command = <<>>
<1>1. CASE r[1] = "exec"
  <2>1. /\ ~ (SeparatorIn(r) >= Len(r))
        /\ item = [guard |-> g, backend |-> "exec", name |-> n,
                   body |-> SubSeq(r, 2, SeparatorIn(r) - 1),
                   command |-> SubSeq(r, SeparatorIn(r) + 1, Len(r))]
    BY <1>1 DEF ParseBackend, ParseExec
  <2>2. SeparatorIn(r) < Len(r)
    <3>1. r # <<>>
      BY <2>1, SeparatorFirst, <1>1 DEF SeparatorIn
    <3>2. SeparatorIn(r) \in 2 .. Len(r) + 1 /\ Len(r) \in Nat
      BY <3>1, SeparatorFirst
    <3> QED
      BY <2>1, <3>2
  <2>3. item.guard = g
    BY <2>1, Zenon
  <2> QED
    BY <1>1, <2>1, <2>2, <2>3
<1>2. CASE r[1] # "exec"
  <2>1. item \in {[guard |-> g, backend |-> b, name |-> n,
                   body |-> SubSeq(r, 2, Len(r)), command |-> <<>>] :
                     b \in Backends \cap {r[1]}}
    BY <1>2 DEF ParseBackend
  <2>2. item = [guard |-> g, backend |-> r[1], name |-> n,
                body |-> SubSeq(r, 2, Len(r)), command |-> <<>>]
    BY <2>1
  <2>3. item.guard = g
    BY <2>2, Zenon
  <2> QED
    BY <1>2, <2>2, <2>3
<1> QED
  BY <1>1, <1>2

(* The tokens that follow the guards.                                      *)
Bare(s, f) == SubSeq(s, f, Len(s))

(* What parseCondition does: the guards, the name, the backend.            *)
LEMMA ConditionCases ==
  ASSUME NEW s \in Seq(Tokens), s # <<>>, NEW item \in ParseCondition(s)
  PROVE  \E f \in 1 .. Len(s) : \E named \in ParseConditionName(Bare(s, f)) :
           /\ item \in ParseBackend(named.rest, f # 1, named.name)
           /\ Bare(s, f) \in Seq(Tokens) /\ Bare(s, f) # <<>>
           /\ Len(Bare(s, f)) = Len(s) + 1 - f
<1> DEFINE firsts == {p \in DOMAIN s : s[p] # "guard"}
           f == Min(firsts)
<1>1. Len(s) \in Nat \ {0} /\ DOMAIN s = 1 .. Len(s)
  BY EmptySeq
<1>2. firsts # {}
  BY DEF ParseCondition
<1>3. PICK named \in ParseConditionName(Bare(s, f)) :
        item \in ParseBackend(named.rest, 1 \notin firsts, named.name)
  BY <1>2 DEF ParseCondition, Bare
<1>4. firsts \subseteq 1 .. Len(s) /\ firsts \subseteq Nat
  BY <1>1
<1>5. f \in firsts /\ \A y \in firsts : f <= y
  <2> HIDE DEF firsts
  <2> QED
    BY <1>2, <1>4, LeastIn
<1> HIDE DEF firsts, f
<1>6. f \in 1 .. Len(s)
  BY <1>4, <1>5
<1>7. (1 \notin firsts) = (f # 1)
  <2>1. 1 \in firsts => f <= 1
    BY <1>5
  <2>2. 1 \in firsts => f = 1
    BY <1>1, <1>6, <2>1
  <2>3. f = 1 => 1 \in firsts
    BY <1>5
  <2> QED
    BY <2>2, <2>3
<1>8. Bare(s, f) \in Seq(Tokens) /\ Len(Bare(s, f)) = Len(s) + 1 - f
  <2>1. f \in Nat \ {0} /\ Len(s) \in Nat /\ Len(s) <= Len(s) /\ f <= Len(s) + 1
    BY <1>1, <1>6
  <2> QED
    BY <2>1, Slice DEF Bare
<1>9. Bare(s, f) # <<>>
  <2>1. Len(Bare(s, f)) # 0
    BY <1>1, <1>6, <1>8
  <2> QED
    BY <2>1
<1>10. item \in ParseBackend(named.rest, f # 1, named.name)
  BY <1>3, <1>7
<1> QED
  BY <1>6, <1>8, <1>9, <1>10

(* The separator moves with the tokens behind the name.                    *)
LEMMA SeparatorMoves ==
  ASSUME NEW t \in Seq(Tokens), t # <<>>, NEW r \in Seq(Tokens), r # <<>>,
         t[1] = "exec", NEW p \in 2 .. SeparatorIn(t) - 2,
         Len(r) = Len(t) - 2,
         \A x \in 1 .. p - 1 : r[x] = t[x],
         \A x \in p .. Len(t) - 2 : r[x] = t[x + 2],
         SeparatorIn(r) <= Len(r)
  PROVE  SeparatorIn(r) = SeparatorIn(t) - 2
<1> DEFINE d == SeparatorIn(t)
           e == SeparatorIn(r)
           n == Len(t)
<1>1. /\ n \in Nat \ {0} /\ d \in 2 .. n + 1
      /\ d <= n => t[d] = "--"
      /\ \A q \in 2 .. d - 1 : t[q] # "--"
  BY SeparatorFirst, EmptySeq
<1>2. /\ e \in 2 .. n - 1 /\ e <= n - 2 /\ r[e] = "--"
      /\ \A q \in 2 .. e - 1 : r[q] # "--"
  BY SeparatorFirst
<1> HIDE DEF d, e, n
<1>3. p \in 2 .. d - 2
  BY DEF d
<1>4. \A x \in 1 .. p - 1 : r[x] = t[x]
  OBVIOUS
<1>5. \A x \in p .. n - 2 : r[x] = t[x + 2]
  BY DEF n
<1>6. e >= p
  <2> SUFFICES ASSUME e < p PROVE FALSE
    BY <1>2, <1>3, <1>1
  <2>1. e \in 1 .. p - 1 /\ e \in 2 .. d - 1
    BY <1>1, <1>2, <1>3
  <2> QED
    BY <1>1, <1>2, <1>4, <2>1
<1>7. e + 2 >= d
  <2> SUFFICES ASSUME e + 2 < d PROVE FALSE
    BY <1>2, <1>3, <1>1
  <2>1. e \in p .. n - 2 /\ e + 2 \in 2 .. d - 1
    BY <1>1, <1>2, <1>3, <1>6
  <2> QED
    BY <1>1, <1>2, <1>5, <2>1
<1>8. e + 2 <= d
  <2> SUFFICES ASSUME e + 2 > d PROVE FALSE
    BY <1>2, <1>3, <1>1
  <2>1. /\ d <= n /\ d - 2 \in p .. n - 2 /\ (d - 2) + 2 = d
        /\ d - 2 \in 2 .. e - 1
    BY <1>1, <1>2, <1>3
  <2>2. r[d - 2] = t[(d - 2) + 2]
    BY <1>5, <2>1
  <2> QED
    BY <1>1, <1>2, <2>1, <2>2
<1>9. e = d - 2
  BY <1>1, <1>2, <1>7, <1>8
<1> QED
  BY <1>9 DEF d, e

(* No condition that comes out of the parser has exec's separator among    *)
(* exec's own flags, or its name left among its flags.                     *)
LEMMA ParseExcludes ==
  ASSUME NEW s \in Seq(Tokens), s # <<>>, NEW item \in ParseCondition(s)
  PROVE  ~ ExecFlagIsSeparator(item) /\ ~ NameInBody(item)
<1>1. PICK f \in 1 .. Len(s) : \E named \in ParseConditionName(Bare(s, f)) :
           /\ item \in ParseBackend(named.rest, f # 1, named.name)
           /\ Bare(s, f) \in Seq(Tokens) /\ Bare(s, f) # <<>>
           /\ Len(Bare(s, f)) = Len(s) + 1 - f
  BY ConditionCases
<1> DEFINE t == Bare(s, f)
<1>2. PICK named \in ParseConditionName(t) :
           /\ item \in ParseBackend(named.rest, f # 1, named.name)
           /\ t \in Seq(Tokens) /\ t # <<>>
  BY <1>1
<1> HIDE DEF t
<1> DEFINE r == named.rest
           n == named.name
           limit == ConditionFlagLimit(t)
<1>t. t \in Seq(Tokens) /\ t # <<>>
  BY <1>2
<1>3. r \in Seq(Tokens) /\ r # <<>> /\ r[1] = t[1] /\ (Taken(t, n, r) \/ Untaken(t, n, r))
  BY <1>t, NameCases
<1>i. item \in ParseBackend(r, f # 1, n)
  BY <1>2
<1> HIDE DEF r, n, limit
<1>4. /\ item.name = n /\ item.backend = r[1]
      /\ r[1] = "exec" =>
              /\ SeparatorIn(r) < Len(r)
              /\ item.body = SubSeq(r, 2, SeparatorIn(r) - 1)
              /\ item.command = SubSeq(r, SeparatorIn(r) + 1, Len(r))
      /\ r[1] # "exec" => item.body = SubSeq(r, 2, Len(r)) /\ item.command = <<>>
  <2>1. r \in Seq(Tokens)
    BY <1>3
  <2> QED
    BY <1>i, <2>1, BackendCases
<1>5. /\ Len(t) \in Nat \ {0} /\ Len(r) \in Nat \ {0} /\ limit \in 2 .. Len(t) + 1
      /\ t[1] # "exec" => limit = Len(t) + 1
      /\ t[1] = "exec" => limit = SeparatorIn(t)
  BY <1>t, <1>3, LimitOfFlags, EmptySeq DEF limit
<1> DEFINE top == IF t[1] = "exec" THEN SeparatorIn(r) - 1 ELSE Len(r)
<1>6. /\ top \in Nat \ {0} /\ top <= Len(r)
      /\ t[1] = "exec" => \A q \in 2 .. top : r[q] # "--"
  <2>1. /\ SeparatorIn(r) \in 2 .. Len(r) + 1
        /\ \A q \in 2 .. SeparatorIn(r) - 1 : r[q] # "--"
    BY <1>3, SeparatorFirst
  <2> QED
    BY <1>5, <2>1
<1>7. /\ item.body = SubSeq(r, 2, top) /\ item.body \in Seq(Tokens) /\ Len(item.body) = top - 1
      /\ \A q \in 1 .. top - 1 : item.body[q] = r[q + 1]
  <2>1. item.body = SubSeq(r, 2, top)
    BY <1>3, <1>4
  <2> HIDE DEF top
  <2>2. 2 \in Nat \ {0} /\ top \in Nat /\ top <= Len(r) /\ 2 <= top + 1 /\ r \in Seq(Tokens)
    BY <1>3, <1>6
  <2>3. /\ SubSeq(r, 2, top) \in Seq(Tokens)
        /\ Len(SubSeq(r, 2, top)) = top + 1 - 2
        /\ \A q \in 1 .. top + 1 - 2 : SubSeq(r, 2, top)[q] = r[2 + q - 1]
    BY <2>2, Slice
  <2>4. top + 1 - 2 = top - 1 /\ \A q \in 1 .. top - 1 : 2 + q - 1 = q + 1
    BY <1>6
  <2> QED
    BY <2>1, <2>3, <2>4
<1>8. ~ ExecFlagIsSeparator(item)
  <2> SUFFICES ASSUME item.backend = "exec" PROVE n # "--" /\ ~ Contains(item.body, "--")
    BY <1>4 DEF ExecFlagIsSeparator
  <2>1. t[1] = "exec"
    BY <1>3, <1>4
  <2>2. ~ Contains(item.body, "--")
    <3> SUFFICES ASSUME NEW q \in 1 .. top - 1, item.body[q] = "--" PROVE FALSE
      BY <1>7 DEF Contains
    <3> HIDE DEF top
    <3>1. q + 1 \in 2 .. top
      BY <1>6
    <3> QED
      BY <1>6, <1>7, <2>1, <3>1
  <2>3. CASE Untaken(t, n, r)
    BY <2>2, <2>3 DEF Untaken
  <2>4. CASE Taken(t, n, r)
    <3>1. PICK p \in 2 .. limit - 2 : n = t[p + 1]
      BY <2>4 DEF Taken, limit
    <3>2. \A q \in 2 .. limit - 1 : t[q] # "--"
      BY <1>t, <1>5, <2>1, SeparatorFirst
    <3>3. p + 1 \in 2 .. limit - 1
      BY <1>5
    <3> QED
      BY <2>2, <3>1, <3>2, <3>3
  <2> QED
    BY <1>3, <2>3, <2>4
<1>9. ~ NameInBody(item)
  <2> SUFFICES ASSUME item.backend # "process", NEW q \in 1 .. top - 1, r[q + 1] = "--name"
               PROVE  FALSE
    BY <1>7 DEF NameInBody, Contains
  <2>0. t[1] # "process"
    BY <1>3, <1>4
  <2>1. CASE Untaken(t, n, r)
    <3>1. r = t /\ \A x \in 2 .. limit - 1 : t[x] # "--name"
      BY <2>0, <2>1 DEF Untaken, limit
    <3>2. limit - 1 = top
      BY <1>5, <3>1
    <3> HIDE DEF top
    <3>3. q + 1 \in 2 .. limit - 1
      BY <1>6, <3>2
    <3> QED
      BY <3>1, <3>3
  <2>2. CASE Taken(t, n, r)
    <3>1. PICK p \in 2 .. limit - 2 :
            /\ Len(r) = Len(t) - 2
            /\ \A x \in 1 .. p - 1 : r[x] = t[x]
            /\ \A x \in p .. Len(t) - 2 : r[x] = t[x + 2]
            /\ \A x \in 2 .. limit - 1 : x \notin {p, p + 1} => t[x] # "--name"
      BY <2>2 DEF Taken, limit
    <3>2. top + 2 <= limit - 1
      <4>1. CASE t[1] = "exec"
        <5>1. SeparatorIn(r) <= Len(r) /\ SeparatorIn(r) \in Nat
          <6>1. r \in Seq(Tokens) /\ r # <<>> /\ r[1] = "exec"
            BY <1>3, <4>1
          <6>2. SeparatorIn(r) \in 2 .. Len(r) + 1 /\ Len(r) \in Nat
            BY <6>1, SeparatorFirst
          <6>3. SeparatorIn(r) < Len(r)
            BY <1>4, <6>1
          <6> QED
            BY <6>2, <6>3
        <5>2. p \in 2 .. SeparatorIn(t) - 2
          BY <1>5, <4>1
        <5>3. SeparatorIn(r) = SeparatorIn(t) - 2
          <6>1. r \in Seq(Tokens) /\ r # <<>>
            BY <1>3
          <6> HIDE DEF top
          <6> QED
            BY <1>t, <3>1, <4>1, <5>1, <5>2, <6>1, SeparatorMoves
        <5> QED
          BY <1>5, <4>1, <5>1, <5>3
      <4>2. CASE t[1] # "exec"
        BY <1>5, <3>1, <4>2
      <4> QED
        BY <4>1, <4>2
    <3> HIDE DEF top
    <3>3. CASE q + 1 < p
      <4>1. q + 1 \in 1 .. p - 1 /\ q + 1 \in 2 .. limit - 1 /\ q + 1 \notin {p, p + 1}
        BY <1>5, <1>6, <3>3
      <4> QED
        BY <3>1, <4>1
    <3>4. CASE q + 1 >= p
      <4>1. q + 1 \in p .. Len(t) - 2 /\ (q + 1) + 2 \in 2 .. limit - 1 /\ (q + 1) + 2 \notin {p, p + 1}
        BY <1>5, <1>6, <3>1, <3>2, <3>4
      <4>2. r[q + 1] = t[(q + 1) + 2]
        BY <3>1, <4>1
      <4> QED
        BY <3>1, <4>1, <4>2
    <3> QED
      BY <1>5, <1>6, <3>3, <3>4
  <2> QED
    BY <1>3, <2>1, <2>2
<1> QED
  BY <1>8, <1>9

(* What is written for a condition is not longer than what was read.       *)
LEMMA ParsedLength ==
  ASSUME NEW s \in Seq(Tokens), s # <<>>, NEW item \in ParseCondition(s), item \in ItemType
  PROVE  Len(ItemSegment(item)) <= Len(s)
<1>1. PICK f \in 1 .. Len(s) : \E named \in ParseConditionName(Bare(s, f)) :
           /\ item \in ParseBackend(named.rest, f # 1, named.name)
           /\ Bare(s, f) \in Seq(Tokens) /\ Bare(s, f) # <<>>
           /\ Len(Bare(s, f)) = Len(s) + 1 - f
  BY ConditionCases
<1> DEFINE t == Bare(s, f)
<1>2. PICK named \in ParseConditionName(t) :
           /\ item \in ParseBackend(named.rest, f # 1, named.name)
           /\ t \in Seq(Tokens) /\ t # <<>> /\ Len(t) = Len(s) + 1 - f
  BY <1>1
<1> HIDE DEF t
<1> DEFINE r == named.rest
           n == named.name
<1>t. t \in Seq(Tokens) /\ t # <<>>
  BY <1>2
<1>3. r \in Seq(Tokens) /\ r # <<>> /\ r[1] = t[1] /\ (Taken(t, n, r) \/ Untaken(t, n, r))
  BY <1>t, NameCases
<1>i. item \in ParseBackend(r, f # 1, n)
  BY <1>2
<1> HIDE DEF r, n
<1>r. r \in Seq(Tokens) /\ r # <<>>
  BY <1>3
<1>4. /\ item.guard = (f # 1) /\ item.name = n /\ item.backend = r[1]
      /\ r[1] = "exec" =>
              /\ SeparatorIn(r) < Len(r)
              /\ item.body = SubSeq(r, 2, SeparatorIn(r) - 1)
              /\ item.command = SubSeq(r, SeparatorIn(r) + 1, Len(r))
      /\ r[1] # "exec" => item.body = SubSeq(r, 2, Len(r)) /\ item.command = <<>>
  BY <1>i, <1>r, BackendCases
<1>5. Len(t) \in Nat \ {0} /\ Len(r) \in Nat \ {0} /\ Len(s) \in Nat /\ Len(t) = Len(s) + 1 - f
  BY <1>2, <1>r, EmptySeq
<1>6. Marks(item) <= f - 1
  <2>1. item.guard => f # 1
    BY <1>4
  <2> QED
    BY <1>5, <2>1 DEF Marks
<1>7. Naming(item) + Len(r) <= Len(t)
  <2>1. CASE Taken(t, n, r)
    <3>1. Len(r) = Len(t) - 2
      BY <2>1 DEF Taken
    <3>2. Naming(item) \in {0, 2}
      BY DEF Naming
    <3> QED
      BY <1>5, <3>1, <3>2
  <2>2. CASE Untaken(t, n, r)
    <3>1. r = t /\ Naming(item) = 0
      BY <1>4, <2>2 DEF Untaken, Naming
    <3> QED
      BY <1>5, <3>1
  <2> QED
    BY <1>3, <2>1, <2>2
<1>8. Len(ItemSegment(item)) =
        HeadLen(item) + IF item.backend = "exec" THEN 1 + Len(item.command) ELSE 0
  BY SegmentShape
<1>m. Marks(item) \in {0, 1} /\ Naming(item) \in {0, 2}
  BY DEF Marks, Naming
<1>9. CASE r[1] = "exec"
  <2> DEFINE d == SeparatorIn(r)
  <2>1. d \in 2 .. Len(r) + 1 /\ d < Len(r)
    BY <1>r, <1>4, <1>9, SeparatorFirst
  <2> HIDE DEF d
  <2>2. /\ 2 \in Nat \ {0} /\ d - 1 \in Nat /\ d - 1 <= Len(r) /\ 2 <= (d - 1) + 1
        /\ d + 1 \in Nat \ {0} /\ Len(r) \in Nat /\ Len(r) <= Len(r) /\ d + 1 <= Len(r) + 1
    BY <1>5, <2>1
  <2>3. Len(SubSeq(r, 2, d - 1)) = (d - 1) + 1 - 2
    BY <1>r, <2>2, Slice
  <2>4. Len(SubSeq(r, d + 1, Len(r))) = Len(r) + 1 - (d + 1)
    BY <1>r, <2>2, Slice
  <2>5. Len(item.body) = d - 2 /\ Len(item.command) = Len(r) - d
    <3>1. item.body = SubSeq(r, 2, d - 1) /\ item.command = SubSeq(r, d + 1, Len(r))
      BY <1>4, <1>9 DEF d
    <3>2. (d - 1) + 1 - 2 = d - 2 /\ Len(r) + 1 - (d + 1) = Len(r) - d
      BY <1>5, <2>1
    <3> QED
      BY <2>3, <2>4, <3>1, <3>2
  <2>6. /\ Len(ItemSegment(item)) = HeadLen(item) + (1 + (Len(r) - d))
        /\ HeadLen(item) = Marks(item) + 1 + Naming(item) + (d - 2)
    BY <1>4, <1>8, <1>9, <2>5 DEF HeadLen
  <2>7. d \in Nat /\ Len(r) \in Nat /\ Marks(item) \in Nat /\ Naming(item) \in Nat
    BY <1>5, <1>m, <2>1
  <2>8. Len(ItemSegment(item)) = Marks(item) + Naming(item) + Len(r)
    BY <2>6, <2>7
  <2> QED
    BY <1>5, <1>6, <1>7, <2>7, <2>8
<1>10. CASE r[1] # "exec"
  <2>1. 2 \in Nat \ {0} /\ Len(r) \in Nat /\ Len(r) <= Len(r) /\ 2 <= Len(r) + 1
    BY <1>5
  <2>2. Len(SubSeq(r, 2, Len(r))) = Len(r) + 1 - 2
    BY <1>r, <2>1, Slice
  <2>3. Len(item.body) = Len(r) - 1
    BY <1>4, <1>5, <1>10, <2>2
  <2>4. /\ Len(ItemSegment(item)) = HeadLen(item) + 0
        /\ HeadLen(item) = Marks(item) + 1 + Naming(item) + (Len(r) - 1)
    BY <1>4, <1>8, <1>10, <2>3 DEF HeadLen
  <2> QED
    BY <1>5, <1>6, <1>7, <1>m, <2>4
<1> QED
  BY <1>9, <1>10

(* A condition's tokens behind the guards and without the name.            *)
RestOf(item, r) ==
  /\ r \in Seq(Tokens)
  /\ r[1] = item.backend
  /\ Len(r) = 1 + Len(item.body) + IF item.backend = "exec" THEN 1 + Len(item.command) ELSE 0
  /\ \A q \in 1 .. Len(item.body) : r[1 + q] = item.body[q]
  /\ item.backend = "exec" =>
       /\ r[Len(item.body) + 2] = "--"
       /\ \A q \in 1 .. Len(item.command) : r[Len(item.body) + 2 + q] = item.command[q]

(* From these tokens the parser of the backend makes the condition.        *)
LEMMA ReadBackend ==
  ASSUME NEW item \in ItemType, WellFormed(item), ~ ExecFlagIsSeparator(item),
         NEW r, RestOf(item, r)
  PROVE  ParseBackend(r, item.guard, item.name) = {item}
<1> DEFINE b == item.body
           c == item.command
           m == Len(b)
           k == Len(c)
<1>1. b \in Seq(Tokens) /\ c \in Seq(Tokens) /\ m \in Nat /\ k \in Nat /\ item.backend \in Backends
  BY ItemFields
<1>2. /\ r \in Seq(Tokens) /\ r[1] = item.backend
      /\ Len(r) = 1 + m + IF item.backend = "exec" THEN 1 + k ELSE 0
      /\ \A q \in 1 .. m : r[1 + q] = b[q]
      /\ item.backend = "exec" =>
           /\ r[m + 2] = "--"
           /\ \A q \in 1 .. k : r[m + 2 + q] = c[q]
  BY DEF RestOf
<1>3. item = [guard |-> item.guard, backend |-> item.backend, name |-> item.name,
              body |-> b, command |-> c]
  BY DEF ItemType
<1> HIDE DEF m, k, b, c
<1>b. m = Len(b) /\ k = Len(c)
  BY DEF m, k
<1>4. SubSeq(r, 2, m + 1) = b
  <2>1. 2 \in Nat \ {0} /\ m + 1 \in Nat /\ m + 1 <= Len(r) /\ 2 <= (m + 1) + 1 /\ r \in Seq(Tokens)
    BY <1>1, <1>2
  <2>2. /\ SubSeq(r, 2, m + 1) \in Seq(Tokens)
        /\ Len(SubSeq(r, 2, m + 1)) = (m + 1) + 1 - 2
        /\ \A q \in 1 .. (m + 1) + 1 - 2 : SubSeq(r, 2, m + 1)[q] = r[2 + q - 1]
    BY <2>1, Slice
  <2>3. (m + 1) + 1 - 2 = m /\ \A q \in 1 .. m : 2 + q - 1 = 1 + q
    BY <1>1
  <2>4. /\ SubSeq(r, 2, m + 1) \in Seq(Tokens) /\ Len(SubSeq(r, 2, m + 1)) = Len(b)
        /\ \A q \in 1 .. Len(b) : SubSeq(r, 2, m + 1)[q] = b[q]
    BY <1>2, <1>b, <2>2, <2>3
  <2> QED
    BY <1>1, <2>4, SeqEqual
<1>5. CASE item.backend = "exec"
  <2>1. c # <<>> /\ OnlyExecFlags(b)
    BY <1>5 DEF WellFormed, b, c
  <2>2. k # 0
    BY <1>1, <1>b, <2>1, EmptySeq
  <2>3. \A q \in 1 .. m : b[q] # "--"
    BY <1>5 DEF ExecFlagIsSeparator, Contains, b, m
  <2>4. SeparatorIn(r) = m + 2
    <3>1. m + 2 \in 2 .. Len(r) /\ r[m + 2] = "--"
      BY <1>1, <1>2, <1>5
    <3>2. ASSUME NEW p \in 2 .. (m + 2) - 1 PROVE r[p] # "--"
      <4>1. p - 1 \in 1 .. m /\ 1 + (p - 1) = p
        BY <1>1
      <4> QED
        BY <1>2, <2>3, <4>1
    <3> QED
      BY <1>2, <3>1, <3>2, SeparatorIs
  <2>5. SubSeq(r, m + 3, Len(r)) = c
    <3>1. m + 3 \in Nat \ {0} /\ Len(r) \in Nat /\ Len(r) <= Len(r) /\ m + 3 <= Len(r) + 1
          /\ r \in Seq(Tokens)
      BY <1>1, <1>2, <1>5
    <3>2. /\ SubSeq(r, m + 3, Len(r)) \in Seq(Tokens)
          /\ Len(SubSeq(r, m + 3, Len(r))) = Len(r) + 1 - (m + 3)
          /\ \A q \in 1 .. Len(r) + 1 - (m + 3) : SubSeq(r, m + 3, Len(r))[q] = r[(m + 3) + q - 1]
      BY <3>1, Slice
    <3>3. Len(r) + 1 - (m + 3) = k /\ \A q \in 1 .. k : (m + 3) + q - 1 = m + 2 + q
      BY <1>1, <1>2, <1>5
    <3>4. /\ SubSeq(r, m + 3, Len(r)) \in Seq(Tokens) /\ Len(SubSeq(r, m + 3, Len(r))) = Len(c)
          /\ \A q \in 1 .. Len(c) : SubSeq(r, m + 3, Len(r))[q] = c[q]
      BY <1>2, <1>5, <1>b, <3>2, <3>3
    <3> QED
      BY <1>1, <3>4, SeqEqual
  <2>6. /\ ~ (SeparatorIn(r) >= Len(r)) /\ SeparatorIn(r) - 1 = m + 1 /\ SeparatorIn(r) + 1 = m + 3
    BY <1>1, <1>2, <1>5, <2>2, <2>4
  <2>7. ParseBackend(r, item.guard, item.name) =
          {[guard |-> item.guard, backend |-> "exec", name |-> item.name, body |-> b, command |-> c]}
    BY <1>2, <1>4, <1>5, <2>1, <2>5, <2>6 DEF ParseBackend, ParseExec
  <2> QED
    BY <1>3, <1>5, <2>7
<1>6. CASE item.backend # "exec"
  <2>1. c = <<>> /\ Len(r) = m + 1
    <3>1. c = <<>>
      BY <1>6 DEF WellFormed, c
    <3>2. Len(r) = 1 + m + 0
      BY <1>2, <1>6
    <3> QED
      BY <1>1, <3>1, <3>2
  <2>2. ParseBackend(r, item.guard, item.name) =
          {[guard |-> item.guard, backend |-> x, name |-> item.name, body |-> b, command |-> c] :
             x \in Backends \cap {r[1]}}
    <3>1. r[1] # "exec" /\ SubSeq(r, 2, Len(r)) = b
      BY <1>2, <1>4, <1>6, <2>1
    <3> QED
      BY <2>1, <3>1 DEF ParseBackend
  <2>3. Backends \cap {r[1]} = {item.backend}
    BY <1>1, <1>2
  <2>4. ParseBackend(r, item.guard, item.name) =
          {[guard |-> item.guard, backend |-> item.backend, name |-> item.name,
            body |-> b, command |-> c]}
    BY <2>2, <2>3
  <2> QED
    BY <1>3, <2>4
<1> QED
  BY <1>5, <1>6

(* A condition's tokens behind the guards.                                 *)
BareOf(item, t) ==
  LET a == Naming(item)
      h == 1 + a + Len(item.body)
  IN  /\ t \in Seq(Tokens)
      /\ t[1] = item.backend
      /\ Len(t) = IF item.backend = "exec" THEN h + 1 + Len(item.command) ELSE h
      /\ a = 2 => t[2] = "--name" /\ t[3] = item.name
      /\ \A q \in 1 .. Len(item.body) : t[1 + a + q] = item.body[q]
      /\ item.backend = "exec" =>
           /\ t[h + 1] = "--"
           /\ \A q \in 1 .. Len(item.command) : t[h + 1 + q] = item.command[q]

(* The name is found where it was written, and taken out.                  *)
LEMMA ReadName ==
  ASSUME NEW item \in ItemType, WellFormed(item),
         ~ ExecFlagIsSeparator(item), ~ NameInBody(item),
         NEW t, BareOf(item, t)
  PROVE  \E r : RestOf(item, r) /\ ParseConditionName(t) = {[name |-> item.name, rest |-> r]}
<1> DEFINE a == Naming(item)
           b == item.body
           c == item.command
           m == Len(b)
           h == 1 + a + m
           k == Len(c)
           e == item.backend = "exec"
           L == Len(t)
<1>1. /\ b \in Seq(Tokens) /\ c \in Seq(Tokens) /\ m \in Nat /\ k \in Nat
      /\ a \in {0, 2} /\ a \in Nat /\ h \in Nat
  BY ItemFields
<1>2. /\ h = 1 + a + m
      /\ L = IF e THEN h + 1 + k ELSE h
      /\ a = 2 => t[2] = "--name" /\ t[3] = item.name
      /\ \A q \in 1 .. m : t[1 + a + q] = b[q]
      /\ e => /\ t[h + 1] = "--"
              /\ \A q \in 1 .. k : t[h + 1 + q] = c[q]
  BY DEF BareOf
<1>3. e => item.name # "--" /\ \A q \in 1 .. m : b[q] # "--"
  BY DEF ExecFlagIsSeparator, Contains
<1>4. item.backend # "process" => \A q \in 1 .. m : b[q] # "--name"
  BY DEF NameInBody, Contains
<1>5. /\ a = 2 => item.backend # "process"
      /\ a = 0 => item.name = ""
  <2> HIDE DEF b, c, m, h, k, e, L
  <2>1. item.backend = "process" => item.name = ""
    BY DEF WellFormed
  <2>2. item.name # "" /\ item.backend # "process" => Naming(item) = 2 /\ item.backend # "process"
    BY DEF Naming
  <2>3. ~ (item.name # "" /\ item.backend # "process") => Naming(item) = 0
    BY DEF Naming
  <2>0. 2 # 0
    OBVIOUS
  <2>4. Naming(item) = 2 => item.backend # "process"
    BY <2>0, <2>3, Zenon
  <2>5. Naming(item) = 0 => item.name = ""
    BY <2>0, <2>1, <2>2, Zenon
  <2> QED
    BY <2>4, <2>5
<1>t. t \in Seq(Tokens) /\ t[1] = item.backend
  BY DEF BareOf
<1>q. e <=> t[1] = "exec"
  BY <1>t
<1> HIDE DEF a, h, b, c, m, k, e, L
<1>L. L = Len(t) /\ L \in Nat
  BY <1>t DEF L
<1>r. ASSUME NEW r, r \in Seq(Tokens), r[1] = item.backend,
             Len(r) = L - a, \A q \in 1 .. L - a - 1 : r[1 + q] = t[1 + a + q]
      PROVE  RestOf(item, r)
  <2>1. Len(r) = 1 + m + IF e THEN 1 + k ELSE 0
    BY <1>1, <1>2, <1>r
  <2>2. \A q \in 1 .. m : r[1 + q] = b[q]
    <3> TAKE q \in 1 .. m
    <3>1. q \in 1 .. L - a - 1
      BY <1>1, <1>2
    <3> QED
      BY <1>2, <1>r, <3>1
  <2>3. ASSUME e PROVE r[m + 2] = "--" /\ \A q \in 1 .. k : r[m + 2 + q] = c[q]
    <3>1. L = h + 1 + k
      BY <1>2, <2>3
    <3>2. m + 1 \in 1 .. L - a - 1 /\ 1 + (m + 1) = m + 2 /\ 1 + a + (m + 1) = h + 1
      BY <1>1, <1>2, <3>1
    <3>3. r[m + 2] = "--"
      BY <1>2, <1>r, <2>3, <3>2
    <3>4. ASSUME NEW q \in 1 .. k PROVE r[m + 2 + q] = c[q]
      <4>1. /\ m + 1 + q \in 1 .. L - a - 1 /\ 1 + (m + 1 + q) = m + 2 + q
            /\ 1 + a + (m + 1 + q) = h + 1 + q
        BY <1>1, <1>2, <3>1
      <4> QED
        BY <1>2, <1>r, <2>3, <4>1
    <3> QED
      BY <3>3, <3>4
  <2> QED
    BY <1>r, <2>1, <2>2, <2>3 DEF RestOf, b, c, m, k, e
<1>z. t # <<>>
  <2>1. Len(t) # 0
    BY <1>1, <1>2, <1>L
  <2> QED
    BY <2>1
<1> DEFINE limit == ConditionFlagLimit(t)
<1>6. limit = h + 1
  <2>1. CASE e
    <3>1. h + 1 \in 2 .. Len(t) /\ t[h + 1] = "--"
      BY <1>1, <1>2, <1>L, <2>1
    <3>2. ASSUME NEW p \in 2 .. (h + 1) - 1 PROVE t[p] # "--"
      <4>1. CASE a = 2 /\ p = 2
        BY <1>2, <4>1
      <4>2. CASE a = 2 /\ p = 3
        BY <1>2, <1>3, <2>1, <4>2
      <4>3. CASE p > 1 + a
        <5>1. p - (1 + a) \in 1 .. m /\ 1 + a + (p - (1 + a)) = p
          BY <1>1, <1>2, <4>3
        <5> QED
          BY <1>2, <1>3, <2>1, <5>1
      <4> QED
        BY <1>1, <4>1, <4>2, <4>3
    <3>3. SeparatorIn(t) = h + 1
      BY <1>t, <3>1, <3>2, SeparatorIs
    <3> QED
      BY <1>q, <1>t, <1>z, <2>1, <3>3, LimitOfFlags
  <2>2. CASE ~ e
    <3>1. Len(t) = h /\ ~ (t[1] = "exec")
      BY <1>2, <1>L, <1>q, <2>2
    <3> QED
      BY <1>t, <1>z, <3>1, LimitOfFlags
  <2> QED
    BY <2>1, <2>2
<1> HIDE DEF limit
<1> DEFINE found == {p \in 2 .. limit - 1 : t[p] = "--name"}
<1>7. CASE a = 0
  <2>1. item.name = ""
    BY <1>5, <1>7
  <2>2. t[1] = "process" \/ found = {}
    <3> SUFFICES ASSUME t[1] # "process", NEW p \in 2 .. limit - 1, t[p] = "--name" PROVE FALSE
      OBVIOUS
    <3>1. p - 1 \in 1 .. m /\ 1 + a + (p - 1) = p
      BY <1>1, <1>2, <1>6, <1>7
    <3> QED
      BY <1>2, <1>4, <1>t, <3>1
  <2>3. ParseConditionName(t) = {[name |-> item.name, rest |-> t]}
    BY <2>1, <2>2 DEF ParseConditionName, limit
  <2>4. Len(t) = L - a /\ \A q \in 1 .. L - a - 1 : t[1 + q] = t[1 + a + q]
    BY <1>1, <1>2, <1>7, <1>L
  <2> QED
    BY <1>r, <1>t, <2>3, <2>4
<1>8. CASE a = 2
  <2>1. 2 \in found /\ found # {} /\ found \subseteq Nat /\ limit \in Nat /\ limit >= 4
    BY <1>1, <1>2, <1>6, <1>8
  <2>2. \A y \in found : 2 <= y
    BY <1>1, <1>6
  <2>3. ASSUME NEW y \in found PROVE ~ (y > 3)
    <3> SUFFICES ASSUME y > 3 PROVE FALSE
      OBVIOUS
    <3>1. y \in 2 .. limit - 1 /\ t[y] = "--name"
      OBVIOUS
    <3>2. y - 3 \in 1 .. m /\ 1 + a + (y - 3) = y
      BY <1>1, <1>2, <1>6, <1>8, <3>1
    <3> QED
      BY <1>2, <1>4, <1>5, <1>8, <3>1, <3>2
  <2> DEFINE u == SubSeq(t, 1, 1)
             v == SubSeq(t, 4, L)
             r == u \o v
  <2>4. ParseConditionName(t) = {[name |-> item.name, rest |-> r]}
    <3>1. ~ (t[1] = "process" \/ found = {})
      BY <1>5, <1>8, <1>t, <2>1
    <3>2. Min(found) = 2
      <4> HIDE DEF found
      <4> QED
        BY <2>1, <2>2, LeastIs
    <3>3. /\ ~ (2 + 1 >= limit) /\ ~ (\E q \in found : q > 2 + 1)
          /\ t[2 + 1] = item.name /\ 2 - 1 = 1 /\ 2 + 2 = 4
      BY <1>2, <1>8, <2>1, <2>3
    <3> DEFINE p == Min(found)
    <3>4. ParseConditionName(t) = {[name |-> t[p + 1], rest |-> SubSeq(t, 1, p - 1) \o SubSeq(t, p + 2, Len(t))]}
      <4>1. ~ (p + 1 >= limit \/ (\E q \in found : q > p + 1))
        BY <3>2, <3>3
      <4> QED
        BY <3>1, <4>1 DEF ParseConditionName, limit
    <3>5. t[p + 1] = item.name /\ SubSeq(t, 1, p - 1) \o SubSeq(t, p + 2, Len(t)) = r
      BY <1>L, <3>2, <3>3
    <3> QED
      BY <3>4, <3>5
  <2>5. L \in Nat /\ L >= 3 /\ L - 2 \in Nat
    BY <1>1, <1>2, <1>8
  <2>6. /\ u \in Seq(Tokens) /\ Len(u) = 1 /\ u[1] = t[1]
    <3>1. 1 \in Nat \ {0} /\ 1 \in Nat /\ 1 <= Len(t) /\ 1 <= 1 + 1
      BY <1>L, <2>5
    <3>2. /\ SubSeq(t, 1, 1) \in Seq(Tokens) /\ Len(SubSeq(t, 1, 1)) = 1 + 1 - 1
          /\ \A q \in 1 .. 1 + 1 - 1 : SubSeq(t, 1, 1)[q] = t[1 + q - 1]
      BY <1>t, <3>1, Slice
    <3>3. 1 + 1 - 1 = 1 /\ 1 \in 1 .. 1
      OBVIOUS
    <3> QED
      BY <3>2, <3>3
  <2>7. v \in Seq(Tokens) /\ Len(v) = L - 3 /\ \A q \in 1 .. L - 3 : v[q] = t[3 + q]
    <3>1. 4 \in Nat \ {0} /\ L \in Nat /\ L <= Len(t) /\ 4 <= L + 1
      BY <1>L, <2>5
    <3>2. /\ SubSeq(t, 4, L) \in Seq(Tokens) /\ Len(SubSeq(t, 4, L)) = L + 1 - 4
          /\ \A q \in 1 .. L + 1 - 4 : SubSeq(t, 4, L)[q] = t[4 + q - 1]
      BY <1>t, <3>1, Slice
    <3>3. L + 1 - 4 = L - 3 /\ \A q \in 1 .. L - 3 : 4 + q - 1 = 3 + q
      BY <2>5
    <3> QED
      BY <3>2, <3>3
  <2> HIDE DEF u, v
  <2>8. /\ r \in Seq(Tokens) /\ Len(r) = Len(u) + Len(v)
        /\ \A x \in 1 .. Len(u) + Len(v) : r[x] = IF x <= Len(u) THEN u[x] ELSE v[x - Len(u)]
    <3>1. u \in Seq(Tokens) /\ v \in Seq(Tokens)
      BY <2>6, <2>7
    <3> QED
      BY <3>1, ConcatProperties
  <2> HIDE DEF r
  <2>9. r[1] = item.backend
    <3>1. 1 \in 1 .. Len(u) + Len(v) /\ 1 <= Len(u)
      BY <2>5, <2>6, <2>7
    <3> QED
      BY <1>t, <2>6, <2>8, <3>1
  <2>10. Len(r) = L - a
    BY <1>8, <2>5, <2>6, <2>7, <2>8
  <2>11. \A q \in 1 .. L - a - 1 : r[1 + q] = t[1 + a + q]
    <3> TAKE q \in 1 .. L - a - 1
    <3>1. /\ 1 + q \in 1 .. Len(u) + Len(v) /\ ~ (1 + q <= Len(u)) /\ 1 + q - Len(u) = q
          /\ q \in 1 .. L - 3 /\ 1 + a + q = 3 + q
      BY <1>8, <2>5, <2>6, <2>7
    <3> QED
      BY <2>7, <2>8, <3>1
  <2> QED
    BY <1>r, <2>4, <2>8, <2>9, <2>10, <2>11
<1> QED
  BY <1>1, <1>7, <1>8

(* A condition that is written and not mistaken is read as it was.         *)
LEMMA ReadItem ==
  ASSUME NEW item \in ItemType, WellFormed(item), ~ ExecFlagIsSeparator(item), ~ NameInBody(item)
  PROVE  ParseCondition(ItemSegment(item)) = {item}
<1> DEFINE s == ItemSegment(item)
           m == Marks(item)
           a == Naming(item)
           h == HeadLen(item)
           b == item.body
           c == item.command
           e == item.backend = "exec"
           j == 1 + a + Len(b)
           t == SubSeq(s, m + 1, Len(s))
           firsts == {p \in DOMAIN s : s[p] # "guard"}
<1>1. /\ m \in {0, 1} /\ a \in {0, 2} /\ h = m + 1 + a + Len(b)
      /\ Len(b) \in Nat /\ Len(c) \in Nat
      /\ s \in Seq(Tokens)
      /\ Len(s) = IF e THEN h + 1 + Len(c) ELSE h
      /\ s[m + 1] = item.backend
      /\ a = 2 => s[m + 2] = "--name" /\ s[m + 3] = item.name
      /\ \A q \in 1 .. Len(b) : s[m + 1 + a + q] = b[q]
      /\ e => /\ s[h + 1] = "--"
              /\ \A q \in 1 .. Len(c) : s[h + 1 + q] = c[q]
  BY SegmentPlaces
<1>2. item.backend # "guard" /\ (item.guard => m = 1 /\ s[1] = "guard") /\ (~ item.guard => m = 0)
  BY ItemFields, SegmentsAssumption, SegmentStarts DEF Marks
<1>3. (1 \notin firsts) = item.guard /\ m + 1 \in firsts /\ (\A y \in firsts : m + 1 <= y)
      /\ firsts \subseteq Nat
  <2> HIDE DEF s, m, a, h, b, c, e
  <2>1. Len(s) \in Nat /\ Len(s) >= m + 1 /\ DOMAIN s = 1 .. Len(s)
    BY <1>1
  <2>2. m + 1 \in firsts /\ firsts \subseteq Nat
    BY <1>1, <1>2, <2>1
  <2>3. m = 1 => 1 \notin firsts
    BY <1>1, <1>2
  <2>4. \A y \in firsts : m + 1 <= y
    BY <1>1, <2>1, <2>3
  <2>5. item.guard => 1 \notin firsts
    BY <1>2
  <2>6. 1 \notin firsts => item.guard
    BY <1>2, <2>2
  <2>7. item.guard \in BOOLEAN
    BY ItemFields
  <2> HIDE DEF firsts
  <2> QED
    BY <2>2, <2>4, <2>5, <2>6, <2>7
<1> HIDE DEF s, m, a, h, b, c, e
<1>4. Min(firsts) = m + 1
  <2> HIDE DEF firsts
  <2> QED
    BY <1>3, LeastIs
<1>5. t \in Seq(Tokens) /\ Len(t) = Len(s) - m /\ \A q \in 1 .. Len(s) - m : t[q] = s[m + q]
  <2>1. m + 1 \in Nat \ {0} /\ Len(s) \in Nat /\ Len(s) <= Len(s) /\ m + 1 <= Len(s) + 1
    BY <1>1
  <2>2. s \in Seq(Tokens)
    BY <1>1
  <2>3. /\ SubSeq(s, m + 1, Len(s)) \in Seq(Tokens)
        /\ Len(SubSeq(s, m + 1, Len(s))) = Len(s) + 1 - (m + 1)
        /\ \A q \in 1 .. Len(s) + 1 - (m + 1) : SubSeq(s, m + 1, Len(s))[q] = s[(m + 1) + q - 1]
    BY <2>1, <2>2, Slice
  <2>4. Len(s) + 1 - (m + 1) = Len(s) - m /\ \A q \in 1 .. Len(s) - m : (m + 1) + q - 1 = m + q
    <3>1. m \in Nat /\ Len(s) \in Nat
      BY <1>1, <2>1
    <3> QED
      BY <3>1
  <2> QED
    BY <2>3, <2>4
<1> HIDE DEF t, j
<1>n. /\ m \in {0, 1} /\ a \in {0, 2} /\ h = m + 1 + a + Len(b) /\ Len(b) \in Nat
      /\ Len(c) \in Nat /\ Len(s) = IF e THEN h + 1 + Len(c) ELSE h
  BY <1>1
<1>j. j \in Nat /\ j = 1 + a + Len(b) /\ h = m + j /\ Len(s) - m = IF e THEN j + 1 + Len(c) ELSE j
  <2>1. j = 1 + a + Len(b)
    BY DEF j
  <2>2. m \in Nat /\ j \in Nat /\ h = m + j
    BY <1>n, <2>1
  <2> QED
    BY <1>n, <2>1, <2>2
<1>6. Len(t) = IF e THEN j + 1 + Len(c) ELSE j
  BY <1>5, <1>j
<1>7. t[1] = item.backend /\ (a = 2 => t[2] = "--name" /\ t[3] = item.name)
  <2>1. 1 \in 1 .. Len(s) - m /\ (a = 2 => 2 \in 1 .. Len(s) - m /\ 3 \in 1 .. Len(s) - m)
    BY <1>n, <1>j
  <2> QED
    BY <1>1, <1>5, <2>1
<1>8. ASSUME NEW q \in 1 .. Len(b) PROVE t[1 + a + q] = b[q]
  <2>1. 1 + a + q \in 1 .. Len(s) - m /\ m + (1 + a + q) = m + 1 + a + q
    BY <1>n, <1>j
  <2> QED
    BY <1>1, <1>5, <2>1
<1>9. ASSUME e PROVE t[j + 1] = "--" /\ \A q \in 1 .. Len(c) : t[j + 1 + q] = c[q]
  <2>0. /\ m \in Nat /\ h \in Nat /\ Len(c) \in Nat /\ j \in Nat /\ h = m + j
        /\ Len(s) - m = j + 1 + Len(c)
    BY <1>9, <1>n, <1>j
  <2>1. j + 1 \in 1 .. Len(s) - m /\ m + (j + 1) = h + 1
    BY <2>0
  <2>2. t[j + 1] = "--"
    BY <1>1, <1>5, <1>9, <2>1
  <2>3. ASSUME NEW q \in 1 .. Len(c) PROVE t[j + 1 + q] = c[q]
    <3>1. j + 1 + q \in 1 .. Len(s) - m /\ m + (j + 1 + q) = h + 1 + q
      BY <2>0
    <3>2. s[h + 1 + q] = c[q]
      BY <1>1, <1>9
    <3> QED
      BY <1>5, <3>1, <3>2
  <2> QED
    BY <2>2, <2>3
<1>10. PICK r : RestOf(item, r) /\ ParseConditionName(t) = {[name |-> item.name, rest |-> r]}
  <2>1. BareOf(item, t)
    BY <1>5, <1>6, <1>7, <1>8, <1>9 DEF BareOf, j, a, b, c, e
  <2> QED
    BY <2>1, ReadName
<1>11. ParseCondition(s) =
         UNION {ParseBackend(named.rest, 1 \notin firsts, named.name) :
                  named \in ParseConditionName(t)}
  BY <1>3, <1>4 DEF ParseCondition, t
<1>12. ParseCondition(s) = ParseBackend(r, item.guard, item.name)
  BY <1>3, <1>10, <1>11
<1> QED
  BY <1>10, <1>12, ReadBackend DEF s
-----------------------------------------------------------------------------
(* Where the loop cuts. A token of list a ends the segment w that precedes *)
(* it.                                                                     *)
Separates(a, p, w) ==
  /\ a[p] = "--"
  /\ p < Len(a)
  /\ IsConditionStart(a, p + 1)
  /\ ~ (p > 1 /\ a[p - 1] \in ValueFlags)
  /\ ~ IsExecCommandSeparator(w)

(* splitConditionSegments' test, for the list and the segment it is at.    *)
LEMMA LoopSeparates == \A p : IsSeparatorBefore(p) <=> Separates(args, p, current)
  BY DEF IsSeparatorBefore, Separates, IsValueForPreviousFlag

(* Nothing is cut inside a segment that is whole.                          *)
LEMMA StaysInside ==
  ASSUME NEW list, Solid(list), NEW m \in 1 .. Len(list),
         Whole(list[m]), list[m][1] # "--", NEW q \in 1 .. Len(list[m])
  PROVE  ~ Separates(Joined(list), Offset(list, m) + q, SubSeq(list[m], 1, q - 1))
<1> DEFINE a == Joined(list)
           o == Offset(list, m)
           s == list[m]
           l == Len(list[m])
<1>1. /\ a \in Seq(Tokens) /\ o \in Nat /\ o + l <= Len(a)
      /\ \A x \in 1 .. l : a[o + x] = s[x]
      /\ IF m = Len(list) THEN o + l = Len(a)
         ELSE Offset(list, m + 1) = o + l + 1 /\ a[Offset(list, m + 1)] = "--"
  BY Layout
<1>2. s \in Seq(Tokens) /\ l = Len(s) /\ l \in Nat /\ q \in 1 .. l /\ Len(a) \in Nat
  <2>1. list[m] \in Seq(Tokens)
    BY DEF Solid
  <2> QED
    BY <1>1, <2>1
<1>3. \A x \in 2 .. l - 1 : ~ Parts(s, x)
  BY DEF Whole
<1>4. s[1] # "--"
  OBVIOUS
<1>5. o + l = Len(a) \/ (o + l + 1 \in Nat /\ a[o + l + 1] = "--")
  BY <1>1, <1>2
<1> SUFFICES ASSUME Separates(a, o + q, SubSeq(s, 1, q - 1)) PROVE FALSE
  OBVIOUS
<1> HIDE DEF a, o, s, l
<1>6. /\ a[o + q] = "--" /\ o + q < Len(a) /\ IsConditionStart(a, o + q + 1)
      /\ ~ (o + q > 1 /\ a[o + q - 1] \in ValueFlags)
      /\ ~ IsExecCommandSeparator(SubSeq(s, 1, q - 1))
  <2>1. a[o + q] = "--" /\ o + q < Len(a)
    BY DEF Separates
  <2>2. IsConditionStart(a, o + q + 1)
    BY DEF Separates
  <2>3. ~ (o + q > 1 /\ a[o + q - 1] \in ValueFlags)
    <3>1. (o + q) - 1 = o + q - 1
      BY <1>1, <1>2
    <3>2. ~ (o + q > 1 /\ a[(o + q) - 1] \in ValueFlags)
      BY DEF Separates
    <3> QED
      BY <3>1, <3>2
  <2>4. ~ IsExecCommandSeparator(SubSeq(s, 1, q - 1))
    BY DEF Separates
  <2> QED
    BY <2>1, <2>2, <2>3, <2>4
<1>7. s[q] = "--" /\ q # 1
  BY <1>1, <1>2, <1>4, <1>6
<1>8. "--" \notin Backends /\ "--" # "guard"
  BY SegmentsAssumption
<1>9. CASE q = l
  <2>1. a[o + q + 1] = "--"
    BY <1>1, <1>2, <1>5, <1>6, <1>9
  <2> QED
    BY <1>6, <1>8, <2>1 DEF IsConditionStart
<1>10. CASE q # l
  <2>1. q \in 2 .. l - 1 /\ q \in Nat /\ q + 1 \in 1 .. l /\ q - 1 \in 1 .. l
    BY <1>2, <1>7, <1>10
  <2>2. a[o + q + 1] = s[q + 1] /\ a[o + q - 1] = s[q - 1] /\ o + q > 1
    <3>1. o + q + 1 = o + (q + 1) /\ o + q - 1 = o + (q - 1) /\ o + q > 1
      BY <1>1, <2>1
    <3> QED
      BY <1>1, <2>1, <3>1
  <2>3. IsConditionStart(s, q + 1)
    <3>1. CASE a[o + q + 1] \in Backends
      BY <2>2, <3>1 DEF IsConditionStart
    <3>2. CASE /\ a[o + q + 1] = "guard" /\ o + q + 1 < Len(a)
               /\ a[o + q + 1 + 1] \in Backends
      <4>1. CASE q + 1 = l
        <5>1. o + q + 1 + 1 = o + l + 1 /\ o + q + 1 = o + l
          BY <1>1, <2>1, <4>1
        <5>2. o + l # Len(a)
          BY <1>2, <3>2, <5>1
        <5>3. a[o + l + 1] = "--"
          BY <1>5, <5>2
        <5> QED
          BY <1>8, <3>2, <5>1, <5>3
      <4>2. CASE q + 1 # l
        <5>1. q + 2 \in 1 .. l /\ o + q + 1 + 1 = o + (q + 2) /\ q + 1 < l /\ q + 1 + 1 = q + 2
          BY <1>1, <1>2, <2>1, <4>2
        <5>2. s[q + 2] \in Backends
          BY <1>1, <3>2, <5>1
        <5>3. q + 1 < Len(s)
          BY <1>2, <5>1
        <5> QED
          BY <2>2, <3>2, <5>1, <5>2, <5>3 DEF IsConditionStart
      <4> QED
        BY <4>1, <4>2
    <3> QED
      BY <1>6, <3>1, <3>2 DEF IsConditionStart
  <2>4. Parts(s, q)
    BY <1>6, <1>7, <2>2, <2>3 DEF Parts
  <2> QED
    BY <1>3, <2>1, <2>4
<1> QED
  BY <1>9, <1>10

(* And a token that would end the segment inside it ends it in the list.   *)
LEMMA PartsSeparate ==
  ASSUME NEW s \in Seq(Tokens), NEW a \in Seq(Tokens), NEW o \in Nat, o + Len(s) <= Len(a),
         \A x \in 1 .. Len(s) : a[o + x] = s[x], NEW q \in 2 .. Len(s) - 1, Parts(s, q)
  PROVE  Separates(a, o + q, SubSeq(s, 1, q - 1))
<1> DEFINE l == Len(s)
           n == Len(a)
<1>1. l \in Nat /\ n \in Nat /\ o + l <= n /\ q \in 2 .. l - 1
  OBVIOUS
<1>2. /\ s[q] = "--" /\ IsConditionStart(s, q + 1) /\ s[q - 1] \notin ValueFlags
      /\ ~ IsExecCommandSeparator(SubSeq(s, 1, q - 1))
  BY DEF Parts
<1>3. \A x \in 1 .. l : a[o + x] = s[x]
  OBVIOUS
<1> HIDE DEF l, n
<1>4. /\ q \in 1 .. l /\ q + 1 \in 1 .. l /\ q - 1 \in 1 .. l
      /\ o + q + 1 = o + (q + 1) /\ o + q - 1 = o + (q - 1) /\ o + q < n
  BY <1>1
<1>5. a[o + q] = "--" /\ a[o + q - 1] \notin ValueFlags /\ a[o + q + 1] = s[q + 1]
  BY <1>2, <1>3, <1>4
<1>6. IsConditionStart(a, o + q + 1)
  <2>1. CASE s[q + 1] \in Backends
    BY <1>5, <2>1 DEF IsConditionStart
  <2>2. CASE s[q + 1] = "guard" /\ q + 1 < Len(s) /\ s[q + 1 + 1] \in Backends
    <3>1. q + 1 + 1 \in 1 .. l /\ o + q + 1 + 1 = o + (q + 1 + 1) /\ o + q + 1 < n
      BY <1>1, <2>2 DEF l
    <3>2. a[o + q + 1 + 1] \in Backends /\ o + q + 1 < Len(a)
      BY <1>3, <2>2, <3>1 DEF n
    <3> QED
      BY <1>5, <2>2, <3>2 DEF IsConditionStart
  <2> QED
    BY <1>2, <2>1, <2>2 DEF IsConditionStart
<1>7. o + q < Len(a)
  BY <1>4 DEF n
<1> QED
  BY <1>2, <1>5, <1>6, <1>7 DEF Separates

(* Between two segments the list is cut.                                   *)
LEMMA EndsBetween ==
  ASSUME NEW list, Solid(list), NEW m \in 1 .. Len(list) - 1,
         IsConditionStart(list[m + 1], 1), Last(list[m]) \notin ValueFlags,
         ~ IsExecCommandSeparator(list[m])
  PROVE  Separates(Joined(list), Offset(list, m) + Len(list[m]) + 1, list[m])
<1> DEFINE a == Joined(list)
           o == Offset(list, m)
           l == Len(list[m])
           k == Len(list[m + 1])
           p == Offset(list, m + 1)
<1>1. m \in 1 .. Len(list) /\ m + 1 \in 1 .. Len(list) /\ m # Len(list)
  BY DEF Solid
<1>2. /\ a \in Seq(Tokens) /\ o \in Nat
      /\ \A x \in 1 .. l : a[o + x] = list[m][x]
      /\ p = o + l + 1 /\ a[p] = "--"
  BY <1>1, Layout
<1>3. p \in Nat /\ p + k <= Len(a) /\ \A x \in 1 .. k : a[p + x] = list[m + 1][x]
  BY <1>1, Layout
<1>4. l \in Nat \ {0} /\ k \in Nat \ {0} /\ Len(a) \in Nat
  <2>1. list[m] \in Seq(Tokens) /\ list[m + 1] \in Seq(Tokens) /\ list[m] # <<>> /\ list[m + 1] # <<>>
    BY <1>1 DEF Solid
  <2> QED
    BY <1>2, <2>1, EmptySeq
<1>5. /\ IsConditionStart(list[m + 1], 1) /\ list[m][l] \notin ValueFlags
      /\ ~ IsExecCommandSeparator(list[m])
  BY DEF Last
<1>k. k = Len(list[m + 1])
  OBVIOUS
<1> HIDE DEF a, o, l, k, p
<1>6. p < Len(a) /\ p - 1 = o + l /\ a[p - 1] = list[m][l] /\ a[p + 1] = list[m + 1][1]
  BY <1>2, <1>3, <1>4
<1>7. IsConditionStart(a, p + 1)
  <2>1. CASE list[m + 1][1] \in Backends
    BY <1>6, <2>1 DEF IsConditionStart
  <2>2. CASE list[m + 1][1] = "guard" /\ 1 < k /\ list[m + 1][1 + 1] \in Backends
    <3>1. 2 \in 1 .. k /\ 1 + 1 = 2 /\ p + 1 + 1 = p + 2 /\ p + 1 < Len(a)
      BY <1>3, <1>4, <2>2
    <3>2. a[p + 1 + 1] \in Backends
      BY <1>3, <2>2, <3>1
    <3> QED
      BY <1>6, <2>2, <3>1, <3>2 DEF IsConditionStart
  <2> QED
    BY <1>5, <1>k, <2>1, <2>2 DEF IsConditionStart
<1>8. Separates(a, p, list[m])
  BY <1>2, <1>5, <1>6, <1>7 DEF Separates
<1> QED
  BY <1>2, <1>8 DEF a, o, l

(* The segment of an exec has its separator.                               *)
LEMMA ExecIsSeparated ==
  ASSUME NEW item \in ItemType
  PROVE  ~ IsExecCommandSeparator(ItemSegment(item))
<1> DEFINE s == ItemSegment(item)
           h == HeadLen(item)
<1>1. h \in Nat \ {0} /\ Len(item.command) \in Nat
  BY ItemFields
<1>2. /\ s \in Seq(Tokens)
      /\ Len(s) = h + IF item.backend = "exec" THEN 1 + Len(item.command) ELSE 0
      /\ item.backend = "exec" => s[h + 1] = "--"
  BY SegmentShape
<1>3. item.guard => s[1] = "guard"
  BY SegmentStarts
<1>4. ~ item.guard => s[1] = item.backend
  BY SegmentStarts
<1> HIDE DEF s, h
<1> SUFFICES ASSUME s[1] = "exec", \A p \in 2 .. Len(s) : s[p] # "--" PROVE FALSE
  BY DEF IsExecCommandSeparator, s
<1>5. item.backend = "exec"
  BY <1>3, <1>4
<1>6. Len(s) = h + (1 + Len(item.command))
  BY <1>2, <1>5
<1>7. h + 1 \in 2 .. Len(s)
  BY <1>1, <1>6
<1> QED
  BY <1>2, <1>5, <1>7

(* A recipe is the list of its segments, joined.                           *)
SegmentsOf(recipe) == [k \in DOMAIN recipe |-> ItemSegment(recipe[k])]

(* recipeSegments is the joining of the items' segments.                   *)
LEMMA RecipeIsJoined ==
  ASSUME NEW recipe \in Recipes
  PROVE  /\ Len(recipe) \in Nat \ {0} /\ DOMAIN recipe = 1 .. Len(recipe)
         /\ \A k \in 1 .. Len(recipe) : recipe[k] \in ItemType /\ WellFormed(recipe[k])
         /\ Solid(SegmentsOf(recipe)) /\ Len(SegmentsOf(recipe)) = Len(recipe)
         /\ \A k \in 1 .. Len(recipe) : SegmentsOf(recipe)[k] = ItemSegment(recipe[k])
         /\ RecipeSegments(recipe) = Joined(SegmentsOf(recipe))
<1> DEFINE n == Len(recipe)
           l == SegmentsOf(recipe)
<1>1. recipe \in Seq(ItemType) /\ recipe # <<>> /\ \A k \in DOMAIN recipe : WellFormed(recipe[k])
  BY RecipesAssumption
<1>2. n \in Nat \ {0} /\ DOMAIN recipe = 1 .. n /\ \A k \in 1 .. n : recipe[k] \in ItemType
  BY <1>1, EmptySeq
<1> HIDE DEF n
<1>3. l = [k \in 1 .. n |-> ItemSegment(recipe[k])]
  BY <1>2 DEF SegmentsOf
<1> HIDE DEF l
<1>4. \A k \in 1 .. n : l[k] = ItemSegment(recipe[k]) /\ l[k] \in Seq(Tokens) /\ l[k] # <<>>
  BY <1>2, <1>3, SegmentShape
<1>5. l \in Seq(Seq(Tokens)) /\ Len(l) = n
  <2>1. l \in [1 .. n -> Seq(Tokens)]
    BY <1>3, <1>4
  <2> QED
    BY <1>2, <2>1
<1>6. Solid(l)
  BY <1>4, <1>5 DEF Solid
<1>7. RecipeSegments(recipe) = Joined(l)
  BY DEF RecipeSegments, Joined, l, SegmentsOf
<1> QED
  BY <1>1, <1>2, <1>4, <1>5, <1>6, <1>7 DEF n, l
-----------------------------------------------------------------------------
(* Readable recipes are read back. What the loop meets in their segments.  *)
LEMMA ReadableRecipe ==
  ASSUME NEW recipe \in Recipes, Readable(recipe), NEW k \in 1 .. Len(recipe),
         NEW s, s = SegmentsOf(recipe)[k]
  PROVE  /\ s \in Seq(Tokens) /\ s # <<>> /\ s[1] # "--" /\ IsConditionStart(s, 1)
         /\ Whole(s)
         /\ ~ IsExecCommandSeparator(s)
         /\ k < Len(recipe) => Last(s) \notin ValueFlags
         /\ ParseCondition(s) = {recipe[k]}
<1>1. /\ k \in DOMAIN recipe /\ recipe[k] \in ItemType /\ WellFormed(recipe[k])
      /\ s = ItemSegment(recipe[k])
  BY RecipeIsJoined
<1>2. /\ ~ ExecFlagIsSeparator(recipe[k]) /\ ~ CommandStartsCondition(recipe[k])
      /\ ~ GuardHidesExec(recipe[k]) /\ ~ NameInBody(recipe[k])
      /\ k < Len(recipe) => ~ EndsInValueFlag(recipe[k])
  BY <1>1 DEF Readable
<1>3. s \in Seq(Tokens) /\ s # <<>>
  BY <1>1, SegmentShape
<1>4. s[1] # "--" /\ IsConditionStart(s, 1)
  BY <1>1, SegmentStarts
<1>5. Whole(s)
  BY <1>1, <1>2, NoSeparatorInside
<1>6. ~ IsExecCommandSeparator(s)
  BY <1>1, ExecIsSeparated
<1>7. k < Len(recipe) => Last(s) \notin ValueFlags
  BY <1>1, <1>2 DEF EndsInValueFlag
<1>8. ParseCondition(s) = {recipe[k]}
  BY <1>1, <1>2, ReadItem
<1> QED
  BY <1>3, <1>4, <1>5, <1>6, <1>7, <1>8

(* The ends of a recipe's list.                                            *)
LEMMA RecipeEnds ==
  ASSUME NEW recipe \in Recipes, NEW a, a = RecipeSegments(recipe),
         NEW s, s = ItemSegment(recipe[Len(recipe)])
  PROVE  /\ a \in Seq(Tokens) /\ a # <<>> /\ a[1] # "--" /\ Len(a) > 0
         /\ s \in Seq(Tokens) /\ Len(s) >= 1 /\ Len(s) <= Len(a)
         /\ a[Len(a)] = s[Len(s)]
         /\ Len(s) > 1 => a[Len(a) - 1] = s[Len(s) - 1]
         /\ s[1] # "--" /\ Last(recipe) = recipe[Len(recipe)]
<1> DEFINE list == SegmentsOf(recipe)
           n == Len(recipe)
           o == Offset(list, n)
           l == Len(s)
<1>1. /\ n \in Nat \ {0} /\ Solid(list) /\ Len(list) = n
      /\ \A k \in 1 .. n : list[k] = ItemSegment(recipe[k]) /\ recipe[k] \in ItemType
      /\ a = Joined(list)
  BY RecipeIsJoined
<1>2. 1 \in 1 .. n /\ n \in 1 .. n /\ 1 \in 1 .. Len(list) /\ n \in 1 .. Len(list) /\ list[n] = s
  BY <1>1
<1>3. /\ a \in Seq(Tokens) /\ o \in Nat /\ o + l = Len(a)
      /\ \A q \in 1 .. l : a[o + q] = s[q]
  BY <1>1, <1>2, Layout
<1>4. s \in Seq(Tokens) /\ s # <<>> /\ s[1] # "--"
  BY <1>1, <1>2, SegmentShape, SegmentStarts
<1>5. Offset(list, 1) = 0 /\ list[1] \in Seq(Tokens) /\ list[1] # <<>> /\ list[1][1] # "--"
  BY <1>1, <1>2, SegmentShape, SegmentStarts DEF Offset
<1>6. \A q \in 1 .. Len(list[1]) : a[0 + q] = list[1][q]
  BY <1>1, <1>2, <1>5, Layout
<1>7. a[1] = list[1][1]
  <2>1. 1 \in 1 .. Len(list[1]) /\ 0 + 1 = 1
    BY <1>5, EmptySeq
  <2> QED
    BY <1>6, <2>1
<1>8. l \in Nat \ {0} /\ Len(a) \in Nat /\ Last(recipe) = recipe[n]
  BY <1>3, <1>4, EmptySeq DEF Last
<1> HIDE DEF list, n, o, l
<1>9. /\ a[Len(a)] = s[l] /\ (l > 1 => a[Len(a) - 1] = s[l - 1]) /\ Len(a) > 0 /\ l <= Len(a)
      /\ l >= 1
  <2>1. l \in 1 .. l /\ (l > 1 => l - 1 \in 1 .. l /\ o + (l - 1) = Len(a) - 1)
    BY <1>3, <1>8
  <2>2. a[Len(a)] = s[l]
    BY <1>3, <2>1
  <2>3. l > 1 => a[Len(a) - 1] = s[l - 1]
    BY <1>3, <2>1
  <2>4. Len(a) > 0 /\ l <= Len(a) /\ l >= 1
    BY <1>3, <1>8
  <2> QED
    BY <2>2, <2>3, <2>4
<1>10. a # <<>>
  BY <1>9, EmptySeq
<1> QED
  BY <1>3, <1>4, <1>5, <1>7, <1>8, <1>9, <1>10 DEF l, n

(* Of a recipe, the list.                                                  *)
Written == items # <<>> => items \in Recipes /\ args = RecipeSegments(items)

(* Where the loop is: inside the m-th segment, or at its end.              *)
Reading(m) ==
  LET list == SegmentsOf(items)
  IN  /\ Len(segments) = m - 1
      /\ \A k \in 1 .. m - 1 : segments[k] = list[k]
      /\ Len(current) <= Len(list[m])
      /\ current = SubSeq(list[m], 1, Len(current))
      /\ i = Offset(list, m) + Len(current) + 1

ReadInv ==
  items # <<>> /\ Readable(items) =>
    /\ status = "split" => \E m \in 1 .. Len(items) : Reading(m)
    /\ status \in {"parse", "parsed"} => segments = SegmentsOf(items)
    /\ status = "parsed" => conditions = items
    /\ status # "error"

(* The recipe and its list do not change.                                  *)
LEMMA InitWritten == Init => Written /\ ReadInv
  BY DEF Init, Written, ReadInv

LEMMA StepWritten == Written /\ [Next]_vars => Written'
<1>1. [Next]_vars => UNCHANGED <<items, args>>
  BY DEF Next, vars, CheckEnds, EndSegment, KeepToken, FinishSplit, ParseConditions, Finished
<1> QED
  BY <1>1 DEF Written

(* Whether the loop cuts is settled by the place it has reached.           *)
LEMMA ReadingToken ==
  ASSUME IInv, Written, items # <<>>, Readable(items), NEW m \in 1 .. Len(items), Reading(m),
         NEW s, s = SegmentsOf(items)[m]
  PROVE  /\ Len(current) < Len(s) =>
              i <= Len(args) /\ ~ IsSeparatorBefore(i) /\ args[i] = s[Len(current) + 1]
         /\ Len(current) >= Len(s) =>
              /\ current = s
              /\ IF m = Len(items) THEN i > Len(args)
                 ELSE /\ i <= Len(args) /\ IsSeparatorBefore(i)
                      /\ i = Offset(SegmentsOf(items), m + 1)
<1> DEFINE list == SegmentsOf(items)
           o == Offset(list, m)
           l == Len(s)
           c == Len(current)
<1>1. items \in Recipes /\ args = RecipeSegments(items)
  BY DEF Written
<1>2. /\ Len(items) \in Nat \ {0} /\ Solid(list) /\ Len(list) = Len(items) /\ args = Joined(list)
  BY <1>1, RecipeIsJoined
<1>3. m \in 1 .. Len(list) /\ s = list[m]
  BY <1>2
<1>4. /\ s \in Seq(Tokens) /\ s # <<>> /\ s[1] # "--" /\ Whole(s)
      /\ ~ IsExecCommandSeparator(s)
      /\ m < Len(items) => Last(s) \notin ValueFlags
  BY <1>1, ReadableRecipe
<1>5. /\ args \in Seq(Tokens) /\ o \in Nat /\ o + l <= Len(args)
      /\ \A q \in 1 .. l : args[o + q] = s[q]
      /\ IF m = Len(list) THEN o + l = Len(args)
         ELSE Offset(list, m + 1) = o + l + 1 /\ args[Offset(list, m + 1)] = "--"
  BY <1>2, <1>3, Layout
<1>6. c <= l /\ current = SubSeq(s, 1, c) /\ i = o + c + 1 /\ c \in Nat
  <2>1. c \in Nat
    BY DEF IInv, TypeOK
  <2> QED
    BY <2>1 DEF Reading
<1>7. l \in Nat \ {0} /\ Len(args) \in Nat
  BY <1>4, <1>5, EmptySeq
<1>p. \A p : IsSeparatorBefore(p) <=> Separates(args, p, current)
  BY LoopSeparates
<1>8. ASSUME c < l
      PROVE  i <= Len(args) /\ ~ IsSeparatorBefore(i) /\ args[i] = s[c + 1]
  <2> DEFINE q == c + 1
  <2> HIDE DEF c, l, o, list
  <2>1. q \in 1 .. l /\ i = o + q /\ q - 1 = c /\ i <= Len(args)
    BY <1>5, <1>6, <1>7, <1>8
  <2>2. ~ Separates(Joined(list), o + q, SubSeq(list[m], 1, q - 1))
    <3>1. Solid(list) /\ m \in 1 .. Len(list) /\ Whole(list[m]) /\ list[m][1] # "--" /\ q \in 1 .. Len(list[m])
      BY <1>2, <1>3, <1>4, <2>1 DEF l
    <3> HIDE DEF q
    <3> QED
      BY <3>1, StaysInside DEF o
  <2>3. ~ Separates(args, i, current)
    BY <1>2, <1>3, <1>6, <2>1, <2>2
  <2> QED
    BY <1>5, <1>p, <2>1, <2>3
<1>9. ASSUME c >= l
      PROVE  /\ current = s
             /\ IF m = Len(items) THEN i > Len(args)
                 ELSE /\ i <= Len(args) /\ IsSeparatorBefore(i)
                      /\ i = Offset(list, m + 1)
  <2> HIDE DEF c, list, o
  <2>1. c = l
    BY <1>6, <1>7, <1>9
  <2>2. current = s
    <3>1. SubSeq(s, 1, Len(s)) = s
      BY <1>4, SubSeqFull
    <3> QED
      BY <1>6, <2>1, <3>1
  <2>3. CASE m = Len(items)
    BY <1>2, <1>5, <1>6, <1>7, <2>1, <2>2, <2>3
  <2>4. CASE m # Len(items)
    <3>1. m \in 1 .. Len(list) - 1 /\ m < Len(items) /\ m + 1 \in 1 .. Len(items) /\ m + 1 \in 1 .. Len(list)
      BY <1>2, <2>4
    <3>2. IsConditionStart(list[m + 1], 1)
      <4>1. list[m + 1] = SegmentsOf(items)[m + 1]
        BY DEF list
      <4> QED
        BY <1>1, <3>1, <4>1, ReadableRecipe
    <3>3. Separates(Joined(list), Offset(list, m) + Len(list[m]) + 1, list[m])
      <4>1. Last(list[m]) \notin ValueFlags /\ ~ IsExecCommandSeparator(list[m])
        BY <1>3, <1>4, <3>1
      <4> QED
        BY <1>2, <3>1, <3>2, <4>1, EndsBetween
    <3>4. i = Offset(list, m) + Len(list[m]) + 1 /\ i = Offset(list, m + 1)
      BY <1>2, <1>3, <1>5, <1>6, <2>1, <2>4 DEF o
    <3>5. IsSeparatorBefore(i)
      BY <1>2, <1>3, <1>p, <2>2, <3>3, <3>4
    <3>6. i <= Len(args)
      <4>1. i < Len(args)
        BY <3>5 DEF IsSeparatorBefore
      <4>2. i \in Nat
        BY DEF IInv, TypeOK
      <4> QED
        BY <1>7, <4>1, <4>2
    <3> QED
      BY <2>2, <2>4, <3>4, <3>5, <3>6
  <2> QED
    BY <2>3, <2>4
<1> QED
  <2>1. c \in Nat /\ l \in Nat
    BY <1>6, <1>7
  <2> QED
    BY <1>8, <1>9, <2>1

(* The ends of a readable recipe are accepted; the loop is at its start.   *)
LEMMA CheckEndsReads ==
  ASSUME IInv, JoinInv, Written, items # <<>>, Readable(items), CheckEnds
  PROVE  status' = "split" /\ 1 \in 1 .. Len(items) /\ Reading(1)'
<1> DEFINE list == SegmentsOf(items)
<1>1. items \in Recipes /\ args = RecipeSegments(items)
  BY DEF Written
<1>2. /\ status = "start" /\ UNCHANGED <<items, args, i, current, segments>>
      /\ i = 1 /\ current = <<>> /\ segments = <<>>
  BY DEF CheckEnds, IInv, BeforeLoop, JoinInv
<1>3. Len(items) \in Nat \ {0} /\ Solid(list) /\ Len(list) = Len(items)
  BY <1>1, RecipeIsJoined
<1>4. Reading(1)'
  <2>1. /\ Len(segments) = 1 - 1 /\ Len(current) = 0 /\ 1 - 1 = 0
        /\ i = Offset(list, 1) + Len(current) + 1
    BY <1>2 DEF Offset
  <2>2. Len(current) <= Len(list[1])
    <3>1. list[1] \in Seq(Tokens)
      BY <1>3 DEF Solid
    <3> QED
      BY <2>1, <3>1
  <2>3. current = SubSeq(list[1], 1, Len(current))
    <3>1. SubSeq(list[1], 1, 0) = <<>>
      BY SubSeqEmpty
    <3> QED
      BY <1>2, <2>1, <3>1
  <2>4. \A k \in 1 .. 1 - 1 : segments[k] = list[k]
    BY <2>1
  <2>5. Reading(1)
    BY <2>1, <2>2, <2>3, <2>4 DEF Reading
  <2> QED
    BY <1>2, <2>5 DEF Reading
<1>5. ~ BadEnds
  <2> DEFINE n == Len(args)
             s == ItemSegment(items[Len(items)])
  <2>1. /\ args \in Seq(Tokens) /\ args # <<>> /\ args[1] # "--" /\ n > 0
        /\ s \in Seq(Tokens) /\ Len(s) >= 1 /\ Len(s) <= n
        /\ args[n] = s[Len(s)]
        /\ Len(s) > 1 => args[n - 1] = s[Len(s) - 1]
        /\ s[1] # "--" /\ Last(items) = items[Len(items)]
    BY <1>1, RecipeEnds
  <2>2. ~ (s[Len(s)] = "--" /\ s[Len(s) - 1] \notin ValueFlags)
    <3>1. ~ EndsInSeparator(items[Len(items)])
      BY <2>1 DEF Readable
    <3> QED
      BY <3>1 DEF EndsInSeparator, Last
  <2> HIDE DEF n, s
  <2>3. ASSUME args[n] = "--" PROVE n > 1 /\ args[n - 1] \in ValueFlags
    <3>0. Len(s) >= 1 /\ Len(s) <= n /\ Len(s) \in Nat /\ n \in Nat
      <4>1. s \in Seq(Tokens) /\ args \in Seq(Tokens)
        BY <2>1
      <4> QED
        BY <2>1, <4>1 DEF n
    <3>1. Len(s) # 1
      BY <2>1, <2>3
    <3> DEFINE l == Len(s)
    <3>l. l >= 1 /\ l <= n /\ l \in Nat /\ n \in Nat /\ l # 1
      BY <3>0, <3>1
    <3> HIDE DEF l
    <3>2. l > 1 /\ n > 1
      BY <3>l
    <3> QED
      BY <2>1, <2>2, <2>3, <3>2 DEF l
  <2> QED
    BY <2>1, <2>3 DEF BadEnds, IsValueForPreviousFlag, n
<1>6. 1 \in 1 .. Len(items)
  BY <1>3
<1> QED
  BY <1>4, <1>5, <1>6 DEF CheckEnds

(* A token that is kept is the next one of the segment.                    *)
LEMMA KeepTokenReads ==
  ASSUME IInv, Written, items # <<>>, Readable(items), KeepToken,
         NEW m \in 1 .. Len(items), Reading(m)
  PROVE  Reading(m)'
<1> DEFINE list == SegmentsOf(items)
           s == list[m]
           c == Len(current)
<1>1. /\ i <= Len(args) /\ ~ IsSeparatorBefore(i) /\ current' = Append(current, args[i])
      /\ i' = i + 1 /\ UNCHANGED <<items, args, segments>>
  BY DEF KeepToken
<1>2. /\ c < Len(s) => args[i] = s[c + 1]
      /\ c >= Len(s) => IF m = Len(items) THEN i > Len(args) ELSE IsSeparatorBefore(i)
  BY ReadingToken
<1>3. items \in Recipes
  BY DEF Written
<1>4. s \in Seq(Tokens) /\ Len(s) \in Nat
  BY <1>3, ReadableRecipe
<1>5. c \in Nat /\ Len(args) \in Nat /\ i \in Nat /\ current \in Seq(STRING) /\ args \in Seq(STRING)
  BY DEF IInv, TypeOK
<1>6. /\ Len(segments) = m - 1
      /\ \A k \in 1 .. m - 1 : segments[k] = list[k]
      /\ current = SubSeq(s, 1, c)
      /\ i = Offset(list, m) + c + 1
  BY DEF Reading
<1>o. Offset(list, m) \in Nat
  <2>1. Solid(list) /\ m \in 1 .. Len(list)
    BY <1>3, RecipeIsJoined
  <2> QED
    BY <2>1, Layout
<1> HIDE DEF list, s, c
<1>7. c < Len(s) /\ args[i] = s[c + 1]
  BY <1>1, <1>2, <1>4, <1>5
<1>8. SubSeq(s, 1, c + 1) = current \o <<s[c + 1]>>
  <2>1. 1 \in 1 .. Len(s) /\ c + 1 \in 1 .. Len(s) /\ (c + 1) - 1 = c
    BY <1>4, <1>5, <1>7
  <2>2. SubSeq(s, 1, c + 1) = SubSeq(s, 1, (c + 1) - 1) \o <<s[c + 1]>>
    BY <1>4, <2>1, SubSeqRecursiveSecond
  <2> QED
    BY <1>6, <2>1, <2>2
<1>9. current' = current \o <<s[c + 1]>> /\ Len(current') = c + 1
  <2>1. args[i] \in STRING
    BY <1>1, <1>5, <1>6, <1>o
  <2>2. Append(current, args[i]) = current \o <<args[i]>>
    BY <1>5, <2>1, AppendIsConcat
  <2>3. Len(Append(current, args[i])) = Len(current) + 1
    BY <1>5, <2>1, AppendProperties
  <2> QED
    BY <1>1, <1>7, <2>2, <2>3 DEF c
<1>10. list = SegmentsOf(items)' /\ s = list[m]
  BY <1>1 DEF list, s, SegmentsOf
<1>11. Len(current') <= Len(s)
  BY <1>4, <1>5, <1>7, <1>9
<1>12. i' = Offset(list, m) + Len(current') + 1
  <2>1. i' = i + 1 /\ i = Offset(list, m) + c + 1 /\ Len(current') = c + 1
    BY <1>1, <1>6, <1>9
  <2>2. Offset(list, m) \in Nat /\ c \in Nat
    BY <1>5, <1>o
  <2> QED
    BY <2>1, <2>2
<1> QED
  BY <1>1, <1>6, <1>8, <1>9, <1>10, <1>11, <1>12 DEF Reading

(* A segment is ended where it was joined to the next one.                 *)
LEMMA EndSegmentReads ==
  ASSUME IInv, Written, items # <<>>, Readable(items), EndSegment,
         NEW m \in 1 .. Len(items), Reading(m)
  PROVE  status' = "split" /\ m + 1 \in 1 .. Len(items) /\ Reading(m + 1)'
<1> DEFINE list == SegmentsOf(items)
           s == list[m]
           c == Len(current)
<1>1. /\ i <= Len(args) /\ IsSeparatorBefore(i) /\ UNCHANGED <<items, args>> /\ status = "split"
  BY DEF EndSegment
<1>2. /\ c < Len(s) => ~ IsSeparatorBefore(i)
      /\ c >= Len(s) =>
              /\ current = s
              /\ IF m = Len(items) THEN i > Len(args)
                 ELSE i = Offset(list, m + 1)
  BY ReadingToken
<1>3. items \in Recipes
  BY DEF Written
<1>4. /\ s \in Seq(Tokens) /\ Len(s) \in Nat /\ s # <<>>
      /\ Len(items) \in Nat /\ Len(list) = Len(items) /\ Solid(list)
  BY <1>3, ReadableRecipe, RecipeIsJoined
<1>5. /\ c \in Nat /\ Len(args) \in Nat /\ i \in Nat
      /\ segments \in Seq(Seq(STRING)) /\ current \in Seq(STRING)
  BY DEF IInv, TypeOK
<1>6. /\ Len(segments) = m - 1
      /\ \A k \in 1 .. m - 1 : segments[k] = list[k]
  BY DEF Reading
<1>a. list[m] = s
  OBVIOUS
<1> HIDE DEF list, s, c
<1>7. c >= Len(s) /\ m # Len(items) /\ current = s /\ i = Offset(list, m + 1)
  BY <1>1, <1>2, <1>4, <1>5
<1>8. /\ segments' = Append(segments, s) /\ current' = <<>> /\ i' = i + 1 /\ status' = "split"
  BY <1>1, <1>4, <1>7 DEF EndSegment
<1>9. m + 1 \in 1 .. Len(items) /\ (m + 1) - 1 = m /\ m \in Nat
  BY <1>4, <1>7
<1>10. Len(segments') = m /\ \A k \in 1 .. m : segments'[k] = list[k]
  <2>1. /\ Len(Append(segments, current)) = Len(segments) + 1
        /\ \A k \in 1 .. Len(segments) : Append(segments, current)[k] = segments[k]
        /\ Append(segments, current)[Len(segments) + 1] = current
    BY <1>5, AppendProperties
  <2>2. Len(segments') = m /\ segments'[m] = s
    BY <1>6, <1>7, <1>8, <1>9, <2>1
  <2>3. \A k \in 1 .. m - 1 : segments'[k] = list[k]
    BY <1>6, <1>7, <1>8, <2>1
  <2>4. s = list[m]
    BY <1>a
  <2> QED
    BY <1>9, <2>2, <2>3, <2>4
<1>11. list = SegmentsOf(items)'
  BY <1>1 DEF list, SegmentsOf
<1>12. Len(current') = 0 /\ 0 <= Len(list[m + 1]) /\ SubSeq(list[m + 1], 1, 0) = <<>>
  <2>1. list[m + 1] \in Seq(Tokens)
    BY <1>4, <1>9 DEF Solid
  <2>2. Len(list[m + 1]) \in Nat
    BY <2>1
  <2> QED
    BY <1>8, <2>2, SubSeqEmpty
<1>13. i' = Offset(list, m + 1) + Len(current') + 1
  BY <1>5, <1>7, <1>8, <1>12
<1> QED
  BY <1>8, <1>9, <1>10, <1>11, <1>12, <1>13 DEF Reading

(* The loop ends behind the last segment.                                  *)
LEMMA FinishSplitReads ==
  ASSUME IInv, Written, items # <<>>, Readable(items), FinishSplit,
         NEW m \in 1 .. Len(items), Reading(m)
  PROVE  status' = "parse" /\ segments' = SegmentsOf(items)
<1> DEFINE list == SegmentsOf(items)
           s == list[m]
           c == Len(current)
<1>1. i > Len(args)
  BY DEF FinishSplit
<1>2. /\ c < Len(s) => i <= Len(args)
      /\ c >= Len(s) =>
              /\ current = s
              /\ m # Len(items) => i <= Len(args)
  BY ReadingToken
<1>3. items \in Recipes
  BY DEF Written
<1>4. /\ s \in Seq(Tokens) /\ Len(s) \in Nat /\ s # <<>>
      /\ Len(items) \in Nat /\ Len(list) = Len(items) /\ Solid(list)
  BY <1>3, ReadableRecipe, RecipeIsJoined
<1>5. /\ c \in Nat /\ Len(args) \in Nat /\ i \in Nat
      /\ segments \in Seq(Seq(STRING)) /\ current \in Seq(STRING)
  BY DEF IInv, TypeOK
<1>6. /\ Len(segments) = m - 1
      /\ \A k \in 1 .. m - 1 : segments[k] = list[k]
  BY DEF Reading
<1>a. list[m] = s
  OBVIOUS
<1> HIDE DEF list, s, c
<1>7. c >= Len(s) /\ m = Len(items) /\ current = s
  BY <1>1, <1>2, <1>4, <1>5
<1>8. segments' = Append(segments, current) /\ status' = "parse"
  BY <1>4, <1>7 DEF FinishSplit
<1>9. /\ Len(Append(segments, current)) = Len(segments) + 1
      /\ \A k \in 1 .. Len(segments) : Append(segments, current)[k] = segments[k]
      /\ Append(segments, current)[Len(segments) + 1] = current
  BY <1>5, AppendProperties
<1>10. Append(segments, current) \in Seq(Seq(Tokens)) /\ list \in Seq(Seq(Tokens))
  <2>1. Append(segments, current) \in Seq(Seq(STRING))
    BY <1>5
  <2> QED
    BY <1>4, <2>1, StringsAreTokens DEF Solid
<1>11. Len(Append(segments, current)) = Len(list) /\ Len(segments) + 1 = m /\ Len(segments) \in Nat
  BY <1>4, <1>6, <1>7, <1>9
<1>12. ASSUME NEW k \in 1 .. Len(Append(segments, current))
       PROVE  Append(segments, current)[k] = list[k]
  <2>1. CASE k = m
    BY <1>7, <1>9, <1>11, <1>a, <2>1
  <2>2. CASE k # m
    <3>1. k \in 1 .. m - 1 /\ k \in 1 .. Len(segments)
      BY <1>9, <1>11, <2>2
    <3> QED
      BY <1>6, <1>9, <3>1
  <2> QED
    BY <2>1, <2>2
<1>13. Append(segments, current) = list
  BY <1>10, <1>11, <1>12, SeqEqual
<1> QED
  BY <1>8, <1>13 DEF list

(* Every segment is parsed into its item.                                  *)
LEMMA ParseConditionsReads ==
  ASSUME Written, items # <<>>, Readable(items), ParseConditions, segments = SegmentsOf(items)
  PROVE  status' = "parsed" /\ conditions' = items
<1>1. items \in Recipes
  BY DEF Written
<1>2. /\ DOMAIN items = 1 .. Len(items) /\ Len(items) \in Nat
      /\ DOMAIN SegmentsOf(items) = 1 .. Len(items)
      /\ items = [k \in DOMAIN items |-> items[k]]
  <2>1. items \in Seq(ItemType)
    BY <1>1, RecipesAssumption
  <2> QED
    BY <2>1 DEF SegmentsOf
<1>3. \A k \in 1 .. Len(items) : ParseCondition(segments[k]) = {items[k]}
  BY <1>1, ReadableRecipe
<1>d. DOMAIN segments = 1 .. Len(items)
  BY <1>2
<1> DEFINE parsed == [k \in DOMAIN segments |-> ParseCondition(segments[k])]
<1>4. \A k \in DOMAIN segments : parsed[k] = {items[k]}
  BY <1>3, <1>d
<1> HIDE DEF parsed
<1>5. ~ (\E k \in DOMAIN segments : parsed[k] = {})
  BY <1>4
<1>6. status' = "parsed" /\ conditions' = [k \in DOMAIN segments |-> CHOOSE x \in parsed[k] : TRUE]
  BY <1>5 DEF ParseConditions, parsed
<1>7. \A k \in DOMAIN segments : (CHOOSE x \in parsed[k] : TRUE) = items[k]
  BY <1>4
<1>8. conditions' = [k \in DOMAIN segments |-> items[k]]
  BY <1>6, <1>7
<1> QED
  BY <1>2, <1>6, <1>8, <1>d

(* Every step keeps a readable recipe's place.                             *)
LEMMA StepReadInv == IInv /\ JoinInv /\ Written /\ ReadInv /\ [Next]_vars => ReadInv'
<1> SUFFICES ASSUME IInv, JoinInv, Written, ReadInv, [Next]_vars,
                    items' # <<>>, Readable(items)'
             PROVE  /\ status' = "split" => \E m \in 1 .. Len(items') : Reading(m)'
                    /\ status' \in {"parse", "parsed"} => segments' = SegmentsOf(items)'
                    /\ status' = "parsed" => conditions' = items'
                    /\ status' # "error"
  BY DEF ReadInv
<1>1. items' = items
  BY DEF Next, vars, CheckEnds, EndSegment, KeepToken, FinishSplit, ParseConditions, Finished
<1>2. items # <<>> /\ Readable(items) /\ SegmentsOf(items)' = SegmentsOf(items)
  BY <1>1 DEF Readable, SegmentsOf
<1>3. /\ status = "split" => \E m \in 1 .. Len(items) : Reading(m)
      /\ status \in {"parse", "parsed"} => segments = SegmentsOf(items)
      /\ status = "parsed" => conditions = items
      /\ status # "error"
  BY <1>2 DEF ReadInv
<1>4. CASE CheckEnds
  BY <1>1, <1>2, <1>4, CheckEndsReads
<1>5. CASE EndSegment
  <2>1. PICK m \in 1 .. Len(items) : Reading(m)
    BY <1>3, <1>5 DEF EndSegment
  <2>2. status' = "split" /\ m + 1 \in 1 .. Len(items) /\ Reading(m + 1)'
    BY <1>2, <1>5, <2>1, EndSegmentReads
  <2> QED
    BY <1>1, <2>2
<1>6. CASE KeepToken
  <2>1. PICK m \in 1 .. Len(items) : Reading(m)
    BY <1>3, <1>6 DEF KeepToken
  <2>2. status' = "split"
    BY <1>6 DEF KeepToken
  <2>3. Reading(m)'
    BY <1>2, <1>6, <2>1, KeepTokenReads
  <2> QED
    BY <1>1, <2>2, <2>3
<1>7. CASE FinishSplit
  <2>1. PICK m \in 1 .. Len(items) : Reading(m)
    BY <1>3, <1>7 DEF FinishSplit
  <2>2. status' = "parse" /\ segments' = SegmentsOf(items)
    BY <1>2, <1>7, <2>1, FinishSplitReads
  <2> QED
    BY <1>2, <2>2
<1>8. CASE ParseConditions
  <2>1. segments = SegmentsOf(items) /\ segments' = segments
    BY <1>3, <1>8 DEF ParseConditions
  <2>2. status' = "parsed" /\ conditions' = items
    BY <1>2, <1>8, <2>1, ParseConditionsReads
  <2> QED
    BY <1>1, <1>2, <2>1, <2>2
<1>9. CASE Finished \/ UNCHANGED vars
  <2>1. UNCHANGED vars
    BY <1>9 DEF Finished
  <2>2. \A m : Reading(m)' <=> Reading(m)
    BY <2>1 DEF vars, Reading, SegmentsOf
  <2> QED
    BY <1>1, <1>2, <1>3, <2>1, <2>2 DEF vars
<1> QED
  BY <1>4, <1>5, <1>6, <1>7, <1>8, <1>9 DEF Next
-----------------------------------------------------------------------------
(* Only readable recipes are read back. The cuts the loop has not made.    *)
CutInv ==
  /\ status \notin {"start", "error"} => ~ BadEnds
  /\ status = "start" => segments = <<>> /\ current = <<>> /\ i = 1
  /\ status = "split" =>
       LET o == i - 1 - Len(current)
       IN  /\ o \in Nat
           /\ \A q \in 1 .. Len(current) :
                /\ args[o + q] = current[q]
                /\ ~ Separates(args, o + q, SubSeq(current, 1, q - 1))
  /\ \A k \in 1 .. Len(segments) :
       /\ Whole(segments[k])
       /\ status = "split" \/ k < Len(segments) => Last(segments[k]) \notin ValueFlags
  /\ status = "parsed" =>
       /\ DOMAIN conditions = DOMAIN segments
       /\ \A k \in DOMAIN segments : conditions[k] \in ParseCondition(segments[k])

LEMMA InitCutInv == Init => CutInv
<1> SUFFICES ASSUME Init PROVE CutInv
  OBVIOUS
<1>1. status = "start" /\ segments = <<>> /\ current = <<>> /\ i = 1
  BY DEF Init
<1>2. 1 .. Len(segments) = {}
  BY <1>1
<1> QED
  BY <1>1, <1>2 DEF CutInv

(* A segment without a cut is whole.                                       *)
LEMMA UncutIsWhole ==
  ASSUME IInv, CutInv, status = "split"
  PROVE  /\ Whole(current)
         /\ current # <<>> => i > 1 /\ args[i - 1] = Last(current)
<1> DEFINE c == Len(current)
           o == i - 1 - c
           n == Len(args)
<1>1. /\ current \in Seq(Tokens) /\ args \in Seq(Tokens) /\ i \in 1 .. n + 1 /\ c \in Nat
      /\ n \in Nat
  BY StringsAreTokens DEF IInv, TypeOK
<1>2. /\ o \in Nat
      /\ \A q \in 1 .. c : args[o + q] = current[q]
      /\ \A q \in 1 .. c : ~ Separates(args, o + q, SubSeq(current, 1, q - 1))
  BY DEF CutInv
<1>4. current # <<>> => i > 1 /\ args[i - 1] = Last(current)
  <2> SUFFICES ASSUME current # <<>> PROVE i > 1 /\ args[i - 1] = Last(current)
    OBVIOUS
  <2>1. c # 0
    BY <1>1, EmptySeq
  <2>2. Last(current) = current[c]
    BY DEF Last
  <2>3. o = i - 1 - c
    OBVIOUS
  <2> HIDE DEF c, o, n
  <2>4. c \in 1 .. c /\ o + c = i - 1 /\ i > 1
    BY <1>1, <1>2, <2>1, <2>3
  <2> QED
    BY <1>2, <2>2, <2>4
<1>3. Whole(current)
  <2> SUFFICES ASSUME NEW q \in 2 .. Len(current) - 1, Parts(current, q) PROVE FALSE
    BY DEF Whole
  <2>1. o = i - 1 - c
    OBVIOUS
  <2>2. q \in 1 .. c
    BY <1>1
  <2> HIDE DEF o
  <2>3. o + Len(current) <= Len(args) /\ \A x \in 1 .. Len(current) : args[o + x] = current[x]
    BY <1>1, <1>2, <2>1
  <2>4. Separates(args, o + q, SubSeq(current, 1, q - 1))
    BY <1>1, <1>2, <2>3, PartsSeparate
  <2> QED
    BY <1>2, <2>2, <2>4
<1> QED
  BY <1>3, <1>4

(* A prefix does not change with what is appended.                         *)
LEMMA PrefixStays ==
  ASSUME NEW c \in Seq(Tokens), NEW x \in Tokens, NEW n \in 0 .. Len(c)
  PROVE  SubSeq(Append(c, x), 1, n) = SubSeq(c, 1, n)
<1> DEFINE d == Append(c, x)
<1>1. /\ d \in Seq(Tokens) /\ Len(d) = Len(c) + 1 /\ Len(c) \in Nat
      /\ \A k \in 1 .. Len(c) : d[k] = c[k]
  BY AppendProperties
<1> HIDE DEF d
<1>2. 1 \in Nat \ {0} /\ n \in Nat /\ n <= Len(c) /\ n <= Len(d) /\ 1 <= n + 1 /\ n + 1 - 1 = n
  BY <1>1
<1>3. /\ SubSeq(c, 1, n) \in Seq(Tokens) /\ Len(SubSeq(c, 1, n)) = n + 1 - 1
      /\ \A q \in 1 .. n + 1 - 1 : SubSeq(c, 1, n)[q] = c[1 + q - 1]
  BY <1>2, Slice
<1>4. /\ SubSeq(d, 1, n) \in Seq(Tokens) /\ Len(SubSeq(d, 1, n)) = n + 1 - 1
      /\ \A q \in 1 .. n + 1 - 1 : SubSeq(d, 1, n)[q] = d[1 + q - 1]
  BY <1>1, <1>2, Slice
<1>5. \A q \in 1 .. n : 1 + q - 1 = q /\ d[q] = c[q]
  BY <1>1, <1>2
<1>6. \A q \in 1 .. n : SubSeq(d, 1, n)[q] = SubSeq(c, 1, n)[q]
  BY <1>2, <1>3, <1>4, <1>5
<1>7. Len(SubSeq(d, 1, n)) = Len(SubSeq(c, 1, n)) /\ Len(SubSeq(d, 1, n)) = n
  BY <1>2, <1>3, <1>4
<1> QED
  BY <1>3, <1>4, <1>6, <1>7, SeqEqual DEF d

(* A finished segment joins the others.                                    *)
LEMMA CutAppends ==
  ASSUME IInv, CutInv, status = "split", current # <<>>
  PROVE  /\ Len(Append(segments, current)) = Len(segments) + 1 /\ Len(segments) \in Nat
         /\ \A k \in 1 .. Len(segments) + 1 : Whole(Append(segments, current)[k])
         /\ \A k \in 1 .. Len(segments) : Last(Append(segments, current)[k]) \notin ValueFlags
         /\ Last(Append(segments, current)[Len(segments) + 1]) = args[i - 1] /\ i > 1
<1>1. segments \in Seq(Seq(STRING)) /\ current \in Seq(STRING)
  BY DEF IInv, TypeOK
<1>2. /\ Len(Append(segments, current)) = Len(segments) + 1 /\ Len(segments) \in Nat
      /\ \A k \in 1 .. Len(segments) : Append(segments, current)[k] = segments[k]
      /\ Append(segments, current)[Len(segments) + 1] = current
  BY <1>1, AppendProperties
<1>3. \A k \in 1 .. Len(segments) : Whole(segments[k]) /\ Last(segments[k]) \notin ValueFlags
  BY DEF CutInv
<1>4. Whole(current) /\ i > 1 /\ args[i - 1] = Last(current)
  BY UncutIsWhole
<1>5. ASSUME NEW k \in 1 .. Len(segments) + 1 PROVE Whole(Append(segments, current)[k])
  <2>1. CASE k \in 1 .. Len(segments)
    BY <1>2, <1>3, <2>1
  <2>2. CASE k = Len(segments) + 1
    BY <1>2, <1>4, <2>2
  <2> QED
    BY <1>2, <2>1, <2>2
<1>6. \A k \in 1 .. Len(segments) : Last(Append(segments, current)[k]) \notin ValueFlags
  BY <1>2, <1>3
<1> QED
  BY <1>2, <1>4, <1>5, <1>6

(* A token that is kept does not separate.                                 *)
LEMMA KeepTokenCuts == ASSUME IInv, CutInv, KeepToken PROVE CutInv'
<1> DEFINE c == Len(current)
           o == i - 1 - c
           d == Append(current, args[i])
<1>1. /\ status = "split" /\ i <= Len(args) /\ ~ IsSeparatorBefore(i)
      /\ current' = d /\ i' = i + 1 /\ UNCHANGED <<args, segments, status>>
  BY DEF KeepToken
<1>2. /\ current \in Seq(Tokens) /\ args \in Seq(Tokens) /\ i \in 1 .. Len(args) + 1 /\ c \in Nat
      /\ i \in Nat /\ args[i] \in Tokens
  <2>1. current \in Seq(Tokens) /\ args \in Seq(Tokens) /\ i \in 1 .. Len(args) + 1
    BY StringsAreTokens DEF IInv, TypeOK
  <2>2. i \in 1 .. Len(args)
    BY <1>1, <2>1
  <2> QED
    BY <2>1, <2>2
<1>3. /\ o \in Nat
      /\ \A q \in 1 .. c : args[o + q] = current[q] /\ ~ Separates(args, o + q, SubSeq(current, 1, q - 1))
  BY <1>1 DEF CutInv
<1>4. /\ d \in Seq(Tokens) /\ Len(d) = c + 1
      /\ \A k \in 1 .. c : d[k] = current[k]
      /\ d[c + 1] = args[i]
  BY <1>2, AppendProperties
<1>5. \A n \in 0 .. c : SubSeq(d, 1, n) = SubSeq(current, 1, n)
  BY <1>2, PrefixStays
<1>6. SubSeq(current, 1, c) = current
  BY <1>2, SubSeqFull
<1>o. o = i - 1 - c
  OBVIOUS
<1>7. ~ Separates(args, i, current)
  BY <1>1, LoopSeparates
<1> HIDE DEF c, o, d
<1>8. ASSUME NEW q \in 1 .. c + 1
      PROVE  args[o + q] = d[q] /\ ~ Separates(args, o + q, SubSeq(d, 1, q - 1))
  <2>1. CASE q \in 1 .. c
    <3>1. q - 1 \in 0 .. c
      BY <1>2, <2>1
    <3> QED
      BY <1>3, <1>4, <1>5, <2>1, <3>1
  <2>2. CASE q = c + 1
    <3>1. o + q = i /\ q - 1 = c /\ c \in 0 .. c
      BY <1>2, <1>o, <2>2
    <3> QED
      BY <1>4, <1>5, <1>6, <1>7, <2>2, <3>1
  <2> QED
    BY <1>2, <2>1, <2>2
<1>9. i' - 1 - Len(current') = o
  <2>1. i' = i + 1 /\ Len(current') = c + 1
    BY <1>1, <1>4
  <2> QED
    BY <1>2, <1>o, <2>1
<1>10. status' = "split" /\ ~ BadEnds'
  BY <1>1 DEF CutInv, BadEnds, IsValueForPreviousFlag
<1>11. \A k \in 1 .. Len(segments') : Whole(segments'[k]) /\ Last(segments'[k]) \notin ValueFlags
  BY <1>1 DEF CutInv
<1>12. \A q \in 1 .. Len(current') :
         args'[o + q] = current'[q] /\ ~ Separates(args', o + q, SubSeq(current', 1, q - 1))
  BY <1>1, <1>4, <1>8
<1> QED
  BY <1>3, <1>9, <1>10, <1>11, <1>12 DEF CutInv

(* Every step keeps the finished segments whole.                           *)
LEMMA StepCutInv == IInv /\ JoinInv /\ CutInv /\ [Next]_vars => CutInv'
<1> SUFFICES ASSUME IInv, JoinInv, CutInv, [Next]_vars PROVE CutInv'
  OBVIOUS
<1>0. args' = args /\ (BadEnds' <=> BadEnds)
  BY DEF Next, vars, CheckEnds, EndSegment, KeepToken, FinishSplit, ParseConditions, Finished,
         BadEnds, IsValueForPreviousFlag
<1>1. CASE CheckEnds
  <2>1. /\ status = "start" /\ UNCHANGED <<i, current, segments>>
        /\ segments = <<>> /\ current = <<>> /\ i = 1
        /\ status' = IF BadEnds THEN "error" ELSE "split"
    BY <1>1 DEF CheckEnds, CutInv
  <2>2. Len(segments') = 0 /\ Len(current') = 0 /\ i' - 1 - Len(current') = 0
    <3>1. segments' = <<>> /\ current' = <<>> /\ i' = 1
      BY <2>1
    <3>2. Len(segments') = 0 /\ Len(current') = 0
      BY <3>1
    <3>3. 1 - 1 - 0 = 0
      OBVIOUS
    <3> QED
      BY <3>1, <3>2, <3>3, Zenon
  <2> QED
    BY <1>0, <2>1, <2>2 DEF CutInv
<1>2. CASE EndSegment
  <2>1. status = "split" /\ ~ BadEnds /\ IsSeparatorBefore(i)
    BY <1>2 DEF EndSegment, CutInv
  <2>2. CASE current = <<>>
    <3>1. status' = "error" /\ segments' = segments
      BY <1>2, <2>2 DEF EndSegment
    <3> QED
      BY <2>1, <3>1 DEF CutInv
  <2>3. CASE current # <<>>
    <3>1. /\ segments' = Append(segments, current) /\ current' = <<>> /\ i' = i + 1
          /\ status' = "split"
      BY <1>2, <2>1, <2>3 DEF EndSegment
    <3>2. /\ Len(segments') = Len(segments) + 1 /\ Len(segments) \in Nat
          /\ \A k \in 1 .. Len(segments) + 1 : Whole(segments'[k])
          /\ \A k \in 1 .. Len(segments) : Last(segments'[k]) \notin ValueFlags
          /\ Last(segments'[Len(segments) + 1]) = args[i - 1] /\ i > 1
      BY <2>1, <2>3, <3>1, CutAppends
    <3>3. args[i - 1] \notin ValueFlags
      BY <2>1, <3>2 DEF IsSeparatorBefore, IsValueForPreviousFlag
    <3>4. \A k \in 1 .. Len(segments') : Whole(segments'[k]) /\ Last(segments'[k]) \notin ValueFlags
      BY <3>2, <3>3
    <3>5. Len(current') = 0 /\ i' - 1 - Len(current') \in Nat
      <4>1. i \in Nat
        BY DEF IInv, TypeOK
      <4> QED
        BY <3>1, <4>1
    <3>6. 1 .. Len(current') = {}
      BY <3>5
    <3> QED
      BY <1>0, <2>1, <3>1, <3>4, <3>5, <3>6 DEF CutInv
  <2> QED
    BY <2>2, <2>3
<1>3. CASE KeepToken
  BY <1>3, KeepTokenCuts
<1>4. CASE FinishSplit
  <2>1. status = "split" /\ ~ BadEnds
    BY <1>4 DEF FinishSplit, CutInv
  <2>2. CASE current = <<>>
    <3>1. status' = "error" /\ segments' = segments
      BY <1>4, <2>2 DEF FinishSplit
    <3> QED
      BY <2>1, <3>1 DEF CutInv
  <2>3. CASE current # <<>>
    <3>1. segments' = Append(segments, current) /\ status' = "parse"
      BY <1>4, <2>3 DEF FinishSplit
    <3>2. /\ Len(segments') = Len(segments) + 1 /\ Len(segments) \in Nat
          /\ \A k \in 1 .. Len(segments) + 1 : Whole(segments'[k])
          /\ \A k \in 1 .. Len(segments) : Last(segments'[k]) \notin ValueFlags
      BY <2>1, <2>3, <3>1, CutAppends
    <3>3. \A k \in 1 .. Len(segments') :
            Whole(segments'[k]) /\ (k < Len(segments') => Last(segments'[k]) \notin ValueFlags)
      BY <3>2
    <3> QED
      BY <1>0, <2>1, <3>1, <3>3 DEF CutInv
  <2> QED
    BY <2>2, <2>3
<1>5. CASE ParseConditions
  <2>1. status = "parse" /\ ~ BadEnds /\ UNCHANGED segments /\ status' \in {"parsed", "error"}
    BY <1>5 DEF ParseConditions, CutInv
  <2>2. \A k \in 1 .. Len(segments) :
          Whole(segments[k]) /\ (k < Len(segments) => Last(segments[k]) \notin ValueFlags)
    BY DEF CutInv
  <2>3. ASSUME status' = "parsed"
        PROVE  /\ DOMAIN conditions' = DOMAIN segments
               /\ \A k \in DOMAIN segments : conditions'[k] \in ParseCondition(segments[k])
    <3> DEFINE parsed == [k \in DOMAIN segments |-> ParseCondition(segments[k])]
    <3>1. /\ \A k \in DOMAIN segments : parsed[k] # {}
          /\ conditions' = [k \in DOMAIN segments |-> CHOOSE c \in parsed[k] : TRUE]
      BY <1>5, <2>3 DEF ParseConditions
    <3>2. \A k \in DOMAIN segments : parsed[k] = ParseCondition(segments[k])
      OBVIOUS
    <3> HIDE DEF parsed
    <3> QED
      BY <3>1, <3>2
  <2> QED
    BY <1>0, <2>1, <2>2, <2>3 DEF CutInv
<1>6. CASE Finished \/ UNCHANGED vars
  <2>1. UNCHANGED vars
    BY <1>6 DEF Finished
  <2> QED
    BY <1>0, <2>1 DEF vars, CutInv
<1> QED
  BY <1>1, <1>2, <1>3, <1>4, <1>5, <1>6 DEF Next
-----------------------------------------------------------------------------
(* Two ways to cut a list, of which one has segments no shorter than the   *)
(* other, are the same.                                                    *)
LEMMA SameLengths ==
  ASSUME NEW a, Solid(a), NEW b, Solid(b), Len(a) = Len(b), Joined(a) = Joined(b),
         \A k \in 1 .. Len(a) : Len(a[k]) <= Len(b[k])
  PROVE  \A k \in 0 .. Len(a) : Len(Upto(a, k)) = Len(Upto(b, k))
<1> DEFINE n == Len(a)
           A(k) == Len(Upto(a, k))
           B(k) == Len(Upto(b, k))
           S == {k \in Nat : k <= n => A(k) <= B(k)}
           T == {k \in Nat : k <= n => B(n - k) <= A(n - k)}
<1>1. n \in Nat /\ Len(b) = n
  BY DEF Solid
<1>2. \A k \in 0 .. n : A(k) \in Nat /\ B(k) \in Nat
  BY <1>1, UptoGrows
<1>3. \A k \in 1 .. n : Len(a[k]) \in Nat /\ Len(b[k]) \in Nat /\ Len(a[k]) <= Len(b[k])
  BY <1>1 DEF Solid
<1>4. ASSUME NEW k \in 1 .. n
      PROVE  A(k) - A(k - 1) <= B(k) - B(k - 1)
  <2>1. k - 1 \in 0 .. n /\ k \in 0 .. n
    BY <1>1
  <2>2. A(k) = Offset(a, k) + Len(a[k]) /\ B(k) = Offset(b, k) + Len(b[k])
    BY <1>1, UptoStep
  <2>3. CASE k = 1
    <3>1. A(k) = Len(a[k]) /\ B(k) = Len(b[k])
      BY <1>3, <2>2, <2>3 DEF Offset
    <3>2. A(k - 1) = 0 /\ B(k - 1) = 0
      <4>1. Upto(a, 0) = <<>> /\ Upto(b, 0) = <<>>
        BY UptoUnfolds
      <4> QED
        BY <2>3, <4>1
    <3> HIDE DEF A, B
    <3> QED
      BY <1>3, <3>1, <3>2
  <2>4. CASE k # 1
    <3>1. A(k) = A(k - 1) + 1 + Len(a[k]) /\ B(k) = B(k - 1) + 1 + Len(b[k])
      BY <2>2, <2>4 DEF Offset
    <3> HIDE DEF A, B
    <3>2. A(k - 1) \in Nat /\ B(k - 1) \in Nat
      BY <1>2, <2>1
    <3> QED
      BY <1>3, <3>1, <3>2
  <2> QED
    BY <2>3, <2>4
<1>5. A(0) = 0 /\ B(0) = 0
  <2>1. Upto(a, 0) = <<>> /\ Upto(b, 0) = <<>>
    BY UptoUnfolds
  <2> QED
    BY <2>1
<1>6. A(n) = B(n)
  BY <1>1, UptoUnfolds
<1> HIDE DEF A, B, n
<1>7. 0 \in S
  BY <1>5
<1>8. ASSUME NEW k \in Nat, k \in S PROVE k + 1 \in S
  <2> SUFFICES ASSUME k + 1 <= n PROVE A(k + 1) <= B(k + 1)
    OBVIOUS
  <2>1. /\ k + 1 \in 1 .. n /\ (k + 1) - 1 = k /\ k \in 0 .. n /\ k + 1 \in 0 .. n
        /\ k <= n
    BY <1>1
  <2>2. A(k + 1) - A(k) <= B(k + 1) - B(k)
    BY <1>4, <2>1
  <2>3. A(k) \in Nat /\ B(k) \in Nat /\ A(k + 1) \in Nat /\ B(k + 1) \in Nat
    BY <1>2, <2>1
  <2>4. A(k) <= B(k)
    BY <1>8, <2>1
  <2> QED
    BY <2>2, <2>3, <2>4
<1>9. 0 \in T
  <2>1. n - 0 = n /\ n \in 0 .. n
    BY <1>1
  <2> QED
    BY <1>2, <1>6, <2>1
<1>10. ASSUME NEW k \in Nat, k \in T PROVE k + 1 \in T
  <2> SUFFICES ASSUME k + 1 <= n PROVE B(n - (k + 1)) <= A(n - (k + 1))
    OBVIOUS
  <2> DEFINE j == n - k
  <2>1. j \in 1 .. n /\ n - (k + 1) = j - 1 /\ j - 1 \in 0 .. n /\ j \in 0 .. n /\ k <= n
    BY <1>1
  <2>4. B(j) <= A(j)
    BY <1>10, <2>1
  <2> HIDE DEF j
  <2>2. A(j) - A(j - 1) <= B(j) - B(j - 1)
    BY <1>4, <2>1
  <2>3. A(j) \in Nat /\ B(j) \in Nat /\ A(j - 1) \in Nat /\ B(j - 1) \in Nat
    BY <1>2, <2>1
  <2>5. B(j - 1) <= A(j - 1)
    BY <2>2, <2>3, <2>4
  <2> QED
    BY <2>1, <2>5
<1> HIDE DEF S, T
<1>11. \A k \in Nat : k \in S
  BY <1>7, <1>8, SetInduction
<1>12. \A k \in Nat : k \in T
  BY <1>9, <1>10, SetInduction
<1>13. ASSUME NEW k \in 0 .. n PROVE A(k) = B(k)
  <2>1. k \in Nat /\ n - k \in Nat /\ n - (n - k) = k /\ k <= n /\ n - k <= n
    BY <1>1
  <2>2. A(k) <= B(k)
    BY <1>11, <2>1 DEF S
  <2>3. B(k) <= A(k)
    BY <1>12, <2>1 DEF T
  <2>4. A(k) \in Nat /\ B(k) \in Nat
    BY <1>2
  <2> QED
    BY <2>2, <2>3, <2>4
<1> QED
  BY <1>13 DEF A, B, n

(* Lengths that are the same make the segments the same.                   *)
LEMMA SameSegments ==
  ASSUME NEW a, Solid(a), NEW b, Solid(b), Len(a) = Len(b), Joined(a) = Joined(b),
         \A k \in 1 .. Len(a) : Len(a[k]) <= Len(b[k])
  PROVE  a = b
<1>1. Len(a) \in Nat /\ Len(b) = Len(a) /\ a \in Seq(Seq(Tokens)) /\ b \in Seq(Seq(Tokens))
  BY DEF Solid
<1>2. \A k \in 0 .. Len(a) : Len(Upto(a, k)) = Len(Upto(b, k))
  BY SameLengths
<1>3. ASSUME NEW k \in 1 .. Len(a) PROVE a[k] = b[k]
  <2>1. k \in 1 .. Len(b) /\ k \in 0 .. Len(a) /\ k - 1 \in 0 .. Len(a)
    BY <1>1
  <2>2. Offset(a, k) = Offset(b, k)
    BY <1>2, <2>1 DEF Offset
  <2>3. /\ Len(Upto(a, k)) = Offset(a, k) + Len(a[k]) /\ Offset(a, k) \in Nat
        /\ Len(Upto(b, k)) = Offset(b, k) + Len(b[k])
    BY <2>1, UptoStep
  <2>4. a[k] \in Seq(Tokens) /\ b[k] \in Seq(Tokens) /\ Len(a[k]) \in Nat /\ Len(b[k]) \in Nat
    BY <2>1 DEF Solid
  <2>5. Len(a[k]) = Len(b[k])
    <3>1. Offset(a, k) + Len(a[k]) = Offset(a, k) + Len(b[k])
      BY <1>2, <2>1, <2>2, <2>3
    <3> QED
      BY <2>3, <2>4, <3>1
  <2>6. \A q \in 1 .. Len(a[k]) : Joined(a)[Offset(a, k) + q] = a[k][q]
    BY Layout
  <2>7. \A q \in 1 .. Len(b[k]) : Joined(b)[Offset(b, k) + q] = b[k][q]
    BY <2>1, Layout
  <2>8. \A q \in 1 .. Len(a[k]) : a[k][q] = b[k][q]
    BY <2>2, <2>5, <2>6, <2>7
  <2> QED
    BY <2>4, <2>5, <2>8, SeqEqual
<1> QED
  BY <1>1, <1>3, SeqEqual

(* What is parsed into the recipe was readable.                            *)
LEMMA ParsedIsReadable ==
  ASSUME IInv, JoinInv, CutInv, Written, items # <<>>, status = "parsed", conditions = items
  PROVE  Readable(items)
<1> DEFINE list == SegmentsOf(items)
           n == Len(items)
<1>1. items \in Recipes /\ args = RecipeSegments(items)
  BY DEF Written
<1>2. /\ n \in Nat \ {0} /\ DOMAIN items = 1 .. n
      /\ \A k \in 1 .. n : items[k] \in ItemType /\ WellFormed(items[k])
      /\ Solid(list) /\ Len(list) = n
      /\ \A k \in 1 .. n : list[k] = ItemSegment(items[k])
      /\ args = Joined(list)
  BY <1>1, RecipeIsJoined
<1>3. /\ Solid(segments) /\ Len(segments) \in Nat /\ DOMAIN segments = 1 .. Len(segments)
      /\ Joined(segments) = args
  <2>1. segments \in Seq(Seq(Tokens)) /\ \A k \in DOMAIN segments : segments[k] # <<>>
    BY StringsAreTokens DEF IInv, TypeOK
  <2>2. Joined(segments) = args
    BY DEF JoinInv
  <2> QED
    BY <2>1, <2>2 DEF Solid
<1>4. /\ ~ BadEnds /\ DOMAIN items = DOMAIN segments
      /\ \A k \in DOMAIN segments : items[k] \in ParseCondition(segments[k])
      /\ \A k \in 1 .. Len(segments) :
           Whole(segments[k]) /\ (k < Len(segments) => Last(segments[k]) \notin ValueFlags)
  BY DEF CutInv
<1> HIDE DEF list, n
<1>5. Len(segments) = n
  <2> DEFINE z == Len(segments)
  <2>1. n \in Nat \ {0} /\ z \in Nat /\ 1 .. n = 1 .. z
    BY <1>2, <1>3, <1>4
  <2> HIDE DEF z
  <2>2. n \in 1 .. z
    BY <2>1
  <2>3. z \in 1 .. n
    BY <2>1, <2>2
  <2>4. z = n
    BY <2>1, <2>2, <2>3
  <2> QED
    BY <2>4 DEF z
<1>6. \A k \in 1 .. n : items[k] \in ParseCondition(segments[k]) /\ segments[k] \in Seq(Tokens)
                        /\ segments[k] # <<>>
  <2> TAKE k \in 1 .. n
  <2>1. k \in DOMAIN segments /\ k \in 1 .. Len(segments)
    BY <1>3, <1>5
  <2>2. segments[k] \in Seq(Tokens) /\ segments[k] # <<>>
    BY <1>3, <2>1 DEF Solid
  <2> QED
    BY <1>4, <2>1, <2>2
<1>7. \A k \in 1 .. Len(list) : Len(list[k]) <= Len(segments[k])
  BY <1>2, <1>6, ParsedLength
<1>8. list = segments
  <2>1. Len(list) = Len(segments) /\ Joined(list) = Joined(segments) /\ Solid(list) /\ Solid(segments)
    BY <1>2, <1>3, <1>5
  <2> QED
    BY <1>7, <2>1, SameSegments
<1>9. ASSUME NEW k \in 1 .. n
      PROVE  /\ ~ ExecFlagIsSeparator(items[k])
             /\ ~ CommandStartsCondition(items[k])
             /\ ~ GuardHidesExec(items[k])
             /\ ~ NameInBody(items[k])
             /\ k < n => ~ EndsInValueFlag(items[k])
  <2>1. segments[k] = ItemSegment(items[k])
    BY <1>2, <1>8
  <2>2. Whole(segments[k]) /\ (k < n => Last(segments[k]) \notin ValueFlags)
    BY <1>4, <1>5
  <2>3. ~ CommandStartsCondition(items[k]) /\ ~ GuardHidesExec(items[k])
    BY <1>2, <2>1, <2>2, SeparatorInside
  <2>4. ~ ExecFlagIsSeparator(items[k]) /\ ~ NameInBody(items[k])
    BY <1>6, ParseExcludes
  <2> QED
    BY <2>1, <2>2, <2>3, <2>4 DEF EndsInValueFlag
<1>10. ~ EndsInSeparator(Last(items))
  <2> DEFINE s == ItemSegment(items[Len(items)])
             l == Len(s)
             z == Len(args)
  <2>1. /\ args \in Seq(Tokens) /\ args # <<>> /\ s \in Seq(Tokens) /\ l >= 1
        /\ args[z] = s[l]
        /\ l > 1 => args[z - 1] = s[l - 1]
        /\ s[1] # "--" /\ Last(items) = items[Len(items)]
    BY <1>1, RecipeEnds
  <2>2. l \in Nat /\ z \in Nat
    BY <2>1
  <2>3. args[z] = "--" => z > 1 /\ args[z - 1] \in ValueFlags
    BY <1>4 DEF BadEnds, IsValueForPreviousFlag
  <2> HIDE DEF s, l, z
  <2>4. s[l] = "--" => s[l - 1] \in ValueFlags
    <3> SUFFICES ASSUME s[l] = "--" PROVE s[l - 1] \in ValueFlags
      OBVIOUS
    <3>1. l # 1
      BY <2>1
    <3>2. l >= 1
      BY <2>1
    <3>3. l > 1
      BY <2>2, <3>1, <3>2
    <3> QED
      BY <2>1, <2>3, <3>3
  <2> QED
    BY <2>1, <2>4 DEF EndsInSeparator, Last, s, l
<1> QED
  BY <1>2, <1>9, <1>10 DEF Readable, n

(* A recipe is parsed into the conditions it states if and only if none of *)
(* its tokens is mistaken, for every recipe, every set of backends and     *)
(* every set of flags: Readable is the whole list of surprises.            *)
THEOREM RecipesReadBack == Spec => []ReadBack
<1>1. IInv /\ JoinInv /\ CutInv /\ Written /\ ReadInv => ReadBack
  <2> SUFFICES ASSUME IInv, JoinInv, CutInv, Written, ReadInv,
                      status \in {"parsed", "error"}, items # <<>>
               PROVE  Readable(items) <=> status = "parsed" /\ conditions = items
    BY DEF ReadBack
  <2>1. Readable(items) => status = "parsed" /\ conditions = items
    BY DEF ReadInv
  <2>2. status = "parsed" /\ conditions = items => Readable(items)
    BY ParsedIsReadable
  <2> QED
    BY <2>1, <2>2
<1>2. Spec => [](JoinInv /\ CutInv /\ Written /\ ReadInv)
  <2>1. Init => JoinInv /\ CutInv /\ Written /\ ReadInv
    BY InitJoinInv, InitCutInv, InitWritten
  <2>2. /\ IInv /\ JoinInv /\ CutInv /\ Written /\ ReadInv /\ [Next]_vars
        => (JoinInv /\ CutInv /\ Written /\ ReadInv)'
    BY StepJoinInv, StepCutInv, StepWritten, StepReadInv
  <2> QED
    BY Invariance, <2>1, <2>2, PTL DEF Spec
<1> QED
  BY Invariance, <1>1, <1>2, PTL
=============================================================================
