---------------------------- MODULE TextsProofs ----------------------------
(* Proofs about the operations on texts, for any inputs: the decision of     *)
(* Cors for any origin, entries and symbols, the keys and URLs of uploads    *)
(* for any names, directories and servers, and the encodings for any bytes,  *)
(* any alphabet and the padding that is modelled.                            *)
(*                                                                           *)
(* Loops of the code are recursive functions here.  That such a function     *)
(* exists is proved first, by building it (Iterated); only then does its     *)
(* definition say what it is.                                                *)
EXTENDS Texts, SequenceTheorems, FiniteSetTheorems, WellFoundedInduction, TLAPS

-----------------------------------------------------------------------------
(* The loop of wildcardMatch.                                                *)

Text == value \in Seq(Symbols) /\ pattern \in Seq(Symbols)

WalkTypes ==
    /\ Text
    /\ InBounds
    /\ starIdx \in 0..Len(pattern)
    /\ verdict \in {"none", "true", "false"}
    /\ starIdx = 0 => matchIdx = 1

\* The value from v on can be read as the pattern from p on.
Fits(v, p) ==
    \E begin \in Readings(value, pattern, p) : Begins(value, pattern, v, p, begin)

\* Once it has answered, wildcardMatch was right.
WalkDecides == verdict # "none" => (verdict = "true" <=> Fits(1, 1))

\* Going back to the last star gives a reading that fits.
LaterFits == starIdx # 0 /\ \E x \in matchIdx + 1..Len(value) + 1 : Fits(x, starIdx + 1)

\* What the pattern reads as has not been passed by: it fits from here on, or
\* from where the last star stands for more.
NothingMissed ==
    verdict = "none" => (Fits(1, 1) <=> Fits(valueIdx, patternIdx) \/ LaterFits)

\* From the last star to here the pattern is symbols alone, or the value has
\* ended: wherever else that part is read it takes up as many symbols.
Between ==
    starIdx # 0 =>
        \A x \in matchIdx..Len(value) + 1 :
            Fits(x, starIdx + 1) =>
                /\ x + valueIdx - matchIdx <= Len(value) + 1
                /\ Fits(x + valueIdx - matchIdx, patternIdx)

WalkInv == WalkTypes /\ NothingMissed /\ Between /\ WalkDecides

\* How a reading begins.
LEMMA FitsUnfold ==
    ASSUME Text, NEW v \in 1..Len(value) + 1, NEW p \in 1..Len(pattern)
    PROVE  Fits(v, p) <=>
               \E x \in 1..Len(value) + 1 :
                   /\ IF pattern[p] = Star THEN v <= x
                      ELSE v <= Len(value) /\ pattern[p] = value[v] /\ x = v + 1
                   /\ Fits(x, p + 1)
<1> DEFINE n == Len(pattern)
           m == Len(value)
<1>0. n \in Nat /\ m \in Nat
    BY DEF Text
<1> HIDE DEF n, m
<1>1. ASSUME Fits(v, p)
      PROVE  \E x \in 1..m + 1 :
                 /\ IF pattern[p] = Star THEN v <= x
                    ELSE v <= m /\ pattern[p] = value[v] /\ x = v + 1
                 /\ Fits(x, p + 1)
    <2>1. PICK b \in [p..n + 1 -> 1..m + 1] : Begins(value, pattern, v, p, b)
        BY <1>1 DEF Fits, Readings, n, m
    <2> DEFINE c == [i \in p + 1..n + 1 |-> b[i]]
    <2>2. c \in [p + 1..n + 1 -> 1..m + 1]
        BY <1>0, <2>1
    <2>3. p + 1 \in p + 1..n + 1 /\ n + 1 \in p + 1..n + 1 /\ p \in p..n
        BY <1>0 DEF n
    <2>4. Begins(value, pattern, b[p + 1], p + 1, c)
        BY <1>0, <2>1, <2>3 DEF Begins, n, m
    <2>5. b[p + 1] \in 1..m + 1
        BY <1>0, <2>1, <2>3
    <2>6. Fits(b[p + 1], p + 1)
        BY <2>2, <2>4 DEF Fits, Readings, n, m
    <2> QED
        BY <2>1, <2>3, <2>5, <2>6 DEF Begins, n, m
<1>2. ASSUME NEW x \in 1..m + 1, Fits(x, p + 1),
             IF pattern[p] = Star THEN v <= x
             ELSE v <= m /\ pattern[p] = value[v] /\ x = v + 1
      PROVE  Fits(v, p)
    <2>1. PICK b \in [p + 1..n + 1 -> 1..m + 1] : Begins(value, pattern, x, p + 1, b)
        BY <1>2 DEF Fits, Readings, n, m
    <2> DEFINE c == [i \in p..n + 1 |-> IF i = p THEN v ELSE b[i]]
    <2>2. c \in [p..n + 1 -> 1..m + 1]
        BY <1>0, <2>1 DEF m
    <2>3. \A i \in p + 1..n + 1 : c[i] = b[i]
        BY <1>0
    <2>4. p \in p..n /\ c[p] = v /\ p + 1 \in p + 1..n + 1 /\ n + 1 \in p + 1..n + 1
        BY <1>0 DEF n
    <2>5. b[p + 1] = x /\ b[n + 1] = m + 1
        BY <2>1 DEF Begins, n, m
    <2>6. ASSUME NEW i \in p..n
          PROVE  IF pattern[i] = Star THEN c[i] <= c[i + 1]
                 ELSE c[i] <= m /\ pattern[i] = value[c[i]] /\ c[i + 1] = c[i] + 1
        <3>1. CASE i = p
            BY <1>2, <2>3, <2>4, <2>5, <3>1
        <3>2. CASE i # p
            <4>1. i \in p + 1..n /\ i \in p + 1..n + 1 /\ i + 1 \in p + 1..n + 1
                BY <1>0, <3>2
            <4>2. c[i] = b[i] /\ c[i + 1] = b[i + 1]
                BY <2>3, <4>1
            <4> QED
                BY <2>1, <4>1, <4>2 DEF Begins, n, m
        <3> QED
            BY <3>1, <3>2
    <2>7. Begins(value, pattern, v, p, c)
        BY <2>3, <2>4, <2>5, <2>6 DEF Begins, n, m
    <2> QED
        BY <2>2, <2>7 DEF Fits, Readings, n, m
<1> QED
    BY <1>1, <1>2 DEF m

LEMMA FitsStar ==
    ASSUME Text, NEW v \in 1..Len(value) + 1, NEW p \in 1..Len(pattern), pattern[p] = Star
    PROVE  Fits(v, p) <=> Fits(v, p + 1) \/ \E x \in v + 1..Len(value) + 1 : Fits(x, p + 1)
<1>1. Len(value) \in Nat
    BY DEF Text
<1>2. ASSUME NEW x \in 1..Len(value) + 1, v <= x PROVE x = v \/ x \in v + 1..Len(value) + 1
    BY <1>1, <1>2
<1>3. ASSUME NEW x \in v + 1..Len(value) + 1 PROVE x \in 1..Len(value) + 1 /\ v <= x
    BY <1>1, <1>3
<1>4. Fits(v, p) <=> \E x \in 1..Len(value) + 1 : v <= x /\ Fits(x, p + 1)
    BY FitsUnfold
<1> QED
    BY <1>2, <1>3, <1>4

LEMMA FitsSymbol ==
    ASSUME Text, NEW v \in 1..Len(value) + 1, NEW p \in 1..Len(pattern), pattern[p] # Star
    PROVE  Fits(v, p) <=> v <= Len(value) /\ pattern[p] = value[v] /\ Fits(v + 1, p + 1)
<1>1. Len(value) \in Nat
    BY DEF Text
<1>2. v <= Len(value) => v + 1 \in 1..Len(value) + 1
    BY <1>1
<1>3. Fits(v, p) <=> \E x \in 1..Len(value) + 1 :
          v <= Len(value) /\ pattern[p] = value[v] /\ x = v + 1 /\ Fits(x, p + 1)
    BY FitsUnfold
<1> QED
    BY <1>2, <1>3

\* Nothing is left of the pattern: it fits the end of the value only.
LEMMA FitsEnd ==
    ASSUME Text, NEW v \in 1..Len(value) + 1
    PROVE  Fits(v, Len(pattern) + 1) <=> v = Len(value) + 1
<1> DEFINE n == Len(pattern)
           m == Len(value)
<1>0. n \in Nat /\ m \in Nat
    BY DEF Text
<1>1. Fits(v, n + 1) => v = m + 1
    BY DEF Fits, Readings, Begins
<1>2. ASSUME v = m + 1 PROVE Fits(v, n + 1)
    <2> DEFINE b == [i \in n + 1..n + 1 |-> m + 1]
    <2>1. b \in [n + 1..n + 1 -> 1..m + 1] /\ b[n + 1] = m + 1
        BY <1>0
    <2>2. Begins(value, pattern, v, n + 1, b)
        BY <1>0, <1>2, <2>1 DEF Begins
    <2> QED
        BY <2>1, <2>2 DEF Fits, Readings
<1> QED
    BY <1>1, <1>2

\* A call begins with everything still to try.
Called ==
    /\ Text /\ valueIdx = 1 /\ patternIdx = 1 /\ starIdx = 0 /\ matchIdx = 1
    /\ verdict = "none"

LEMMA CalledInv == Called => WalkInv
<1> SUFFICES ASSUME Called PROVE WalkInv
    OBVIOUS
<1>1. Len(value) \in Nat /\ Len(pattern) \in Nat
    BY DEF Called, Text
<1>2. WalkTypes
    BY <1>1 DEF Called, WalkTypes, InBounds
<1> QED
    BY <1>2 DEF Called, WalkInv, NothingMissed, Between, LaterFits, WalkDecides

\* The arguments do not change, and with them what fits.
LEMMA SameTexts ==
    ASSUME WalkTypes, [WalkNext]_walkVars
    PROVE  /\ value' = value /\ pattern' = pattern /\ Text'
           /\ \A v, p : Fits(v, p)' <=> Fits(v, p)
<1>1. value' = value /\ pattern' = pattern
    BY DEF WalkNext, walkVars, MeetStar, MatchSymbol, BackToStar, NoStar, SkipStar,
           WalkEnds, Answer
<1> QED
    BY <1>1 DEF WalkTypes, Text, Fits, Readings, Begins

\* A pass keeps the indices in their bounds and moves on.
LEMMA PassMoves ==
    ASSUME WalkTypes, [WalkNext]_walkVars
    PROVE  WalkTypes' /\ [InBounds' /\ Further]_walkVars
<1>1. /\ Len(value) \in Nat /\ Len(pattern) \in Nat
      /\ Text' /\ value' = value /\ pattern' = pattern
    BY SameTexts DEF WalkTypes, Text
<1>2. CASE NoStar \/ WalkEnds
    <2>1. /\ verdict = "none" /\ verdict' \in {"true", "false"}
          /\ UNCHANGED <<value, pattern, valueIdx, patternIdx, starIdx, matchIdx>>
        BY <1>2 DEF NoStar, WalkEnds, Walking, Answer
    <2> QED
        BY <2>1 DEF WalkTypes, Text, InBounds, Further
<1>3. CASE MeetStar
    BY <1>1, <1>3 DEF WalkTypes, MeetStar, Walking, More, AtStar, InBounds, Further
<1>4. CASE MatchSymbol
    BY <1>1, <1>4 DEF WalkTypes, MatchSymbol, Walking, More, AtSymbol, InBounds, Further
<1>5. CASE BackToStar
    BY <1>1, <1>5 DEF WalkTypes, BackToStar, Walking, More, InBounds, Further
<1>6. CASE SkipStar
    BY <1>1, <1>6 DEF WalkTypes, SkipStar, Walking, AtStar, InBounds, Further
<1>7. CASE UNCHANGED walkVars
    BY <1>1, <1>7 DEF walkVars, WalkTypes, InBounds
<1> QED
    BY <1>2, <1>3, <1>4, <1>5, <1>6, <1>7 DEF WalkNext

\* The star that is met takes the place of the one before: whatever that one
\* could stand for, this one can make up for it.
LEMMA MeetStarKeeps ==
    ASSUME WalkInv, MeetStar
    PROVE  NothingMissed' /\ Between'
<1> DEFINE v == valueIdx
           p == patternIdx
           m == Len(value)
<1>1. /\ Text /\ m \in Nat /\ v \in 1..m + 1 /\ p \in 1..Len(pattern) /\ pattern[p] = Star
      /\ matchIdx \in 1..m + 1 /\ matchIdx <= v /\ v <= m
    BY DEF WalkInv, WalkTypes, Text, InBounds, MeetStar, AtStar, More
<1>2. /\ value' = value /\ pattern' = pattern /\ \A x, q : Fits(x, q)' <=> Fits(x, q)
    BY SameTexts DEF WalkInv, WalkNext
<1>3. valueIdx' = v /\ patternIdx' = p + 1 /\ starIdx' = p /\ matchIdx' = v /\ verdict' = "none"
          /\ verdict = "none"
    BY DEF MeetStar, Walking
<1>4. Fits(v, p) <=> Fits(v, p + 1) \/ \E x \in v + 1..m + 1 : Fits(x, p + 1)
    BY <1>1, FitsStar
<1>5. ASSUME LaterFits PROVE Fits(v, p)
    <2>1. PICK x \in matchIdx + 1..m + 1 : Fits(x, starIdx + 1)
        BY <1>5 DEF LaterFits
    <2> DEFINE y == x + v - matchIdx
    <2>2. x \in matchIdx..m + 1 /\ starIdx # 0
        BY <1>1, <1>5, <2>1 DEF LaterFits
    <2>3. Fits(y, p) /\ y <= m + 1
        BY <2>1, <2>2 DEF WalkInv, Between
    <2>4. y \in v + 1..m + 1 /\ y \in 1..m + 1
        BY <1>1, <2>1, <2>3
    <2>5. PICK z \in 1..m + 1 : y <= z /\ Fits(z, p + 1)
        BY <1>1, <2>3, <2>4, FitsUnfold
    <2>6. z \in v + 1..m + 1
        BY <1>1, <2>4, <2>5
    <2> QED
        BY <1>4, <2>5, <2>6
<1>6. Fits(1, 1) <=> Fits(v, p)
    BY <1>3, <1>5 DEF WalkInv, NothingMissed
<1>7. LaterFits' <=> \E x \in v + 1..m + 1 : Fits(x, p + 1)
    BY <1>1, <1>2, <1>3 DEF LaterFits
<1>8. NothingMissed'
    BY <1>2, <1>3, <1>4, <1>6, <1>7 DEF NothingMissed
<1>9. Between'
    BY <1>1, <1>2, <1>3 DEF Between
<1> QED
    BY <1>8, <1>9

LEMMA MatchSymbolKeeps ==
    ASSUME WalkInv, MatchSymbol
    PROVE  NothingMissed' /\ Between'
<1> DEFINE v == valueIdx
           p == patternIdx
           m == Len(value)
<1>1. /\ Text /\ m \in Nat /\ v \in 1..m + 1 /\ p \in 1..Len(pattern) /\ pattern[p] # Star
      /\ matchIdx \in 1..m + 1 /\ matchIdx <= v /\ v <= m /\ pattern[p] = value[v]
    BY DEF WalkInv, WalkTypes, Text, InBounds, MatchSymbol, AtSymbol, AtStar, More
<1>2. /\ value' = value /\ pattern' = pattern /\ \A x, q : Fits(x, q)' <=> Fits(x, q)
    BY SameTexts DEF WalkInv, WalkNext
<1>3. /\ valueIdx' = v + 1 /\ patternIdx' = p + 1 /\ UNCHANGED <<starIdx, matchIdx, verdict>>
      /\ verdict = "none"
    BY DEF MatchSymbol, Walking
<1>4. Fits(v, p) <=> Fits(v + 1, p + 1)
    BY <1>1, FitsSymbol
<1>5. LaterFits' <=> LaterFits
    BY <1>2, <1>3 DEF LaterFits
<1>6. NothingMissed'
    BY <1>2, <1>3, <1>4, <1>5 DEF WalkInv, NothingMissed
<1>7. ASSUME starIdx # 0, NEW x \in matchIdx..m + 1, Fits(x, starIdx + 1)
      PROVE  /\ x + (v + 1) - matchIdx <= m + 1
             /\ Fits(x + (v + 1) - matchIdx, p + 1)
    <2> DEFINE y == x + v - matchIdx
    <2>1. y <= m + 1 /\ Fits(y, p)
        BY <1>7 DEF WalkInv, Between
    <2>2. y \in 1..m + 1
        BY <1>1, <2>1
    <2>3. y <= m /\ Fits(y + 1, p + 1)
        BY <1>1, <2>1, <2>2, FitsSymbol
    <2>4. y + 1 = x + (v + 1) - matchIdx
        BY <1>1
    <2> QED
        BY <1>1, <2>2, <2>3, <2>4
<1>8. Between'
    BY <1>2, <1>3, <1>7 DEF Between
<1> QED
    BY <1>6, <1>8

\* What does not fit here leaves what fits from a later symbol on.
LEMMA BackToStarKeeps ==
    ASSUME WalkInv, BackToStar
    PROVE  NothingMissed' /\ Between'
<1> DEFINE v == valueIdx
           p == patternIdx
           m == Len(value)
<1>1. /\ Text /\ m \in Nat /\ v \in 1..m + 1 /\ p \in 1..Len(pattern) + 1 /\ Len(pattern) \in Nat
      /\ matchIdx \in 1..m + 1 /\ matchIdx <= v /\ v <= m /\ starIdx \in 1..Len(pattern)
    BY DEF WalkInv, WalkTypes, Text, InBounds, BackToStar, More
<1>2. /\ value' = value /\ pattern' = pattern /\ \A x, q : Fits(x, q)' <=> Fits(x, q)
    BY SameTexts DEF WalkInv, WalkNext
<1>3. /\ valueIdx' = matchIdx + 1 /\ patternIdx' = starIdx + 1 /\ matchIdx' = matchIdx + 1
      /\ UNCHANGED <<starIdx, verdict>> /\ verdict = "none"
    BY DEF BackToStar, Walking
<1>4. ~Fits(v, p)
    <2>1. CASE p \in 1..Len(pattern)
        BY <1>1, <2>1, FitsSymbol DEF BackToStar, AtStar, AtSymbol
    <2>2. CASE p = Len(pattern) + 1
        BY <1>1, <2>2, FitsEnd
    <2> QED
        BY <1>1, <2>1, <2>2
<1>5. \A x : x \in matchIdx + 1..m + 1 <=> x = matchIdx + 1 \/ x \in matchIdx + 2..m + 1
    BY <1>1
<1>6. LaterFits <=> Fits(matchIdx + 1, starIdx + 1) \/ LaterFits'
    BY <1>1, <1>2, <1>3, <1>5 DEF LaterFits
<1>7. NothingMissed'
    BY <1>2, <1>3, <1>4, <1>6 DEF WalkInv, NothingMissed
<1>8. Between'
    BY <1>1, <1>2, <1>3 DEF Between
<1> QED
    BY <1>7, <1>8

LEMMA SkipStarKeeps ==
    ASSUME WalkInv, SkipStar
    PROVE  NothingMissed' /\ Between'
<1> DEFINE p == patternIdx
           m == Len(value)
<1>1. /\ Text /\ m \in Nat /\ valueIdx = m + 1 /\ p \in 1..Len(pattern) /\ pattern[p] = Star
      /\ matchIdx \in 1..m + 1
    BY DEF WalkInv, WalkTypes, Text, InBounds, SkipStar, AtStar, More
<1>2. /\ value' = value /\ pattern' = pattern /\ \A x, q : Fits(x, q)' <=> Fits(x, q)
    BY SameTexts DEF WalkInv, WalkNext
<1>3. /\ patternIdx' = p + 1 /\ UNCHANGED <<valueIdx, starIdx, matchIdx, verdict>>
      /\ verdict = "none"
    BY DEF SkipStar, Walking
<1>4. Fits(m + 1, p) <=> Fits(m + 1, p + 1)
    BY <1>1, FitsStar
<1>5. LaterFits' <=> LaterFits
    BY <1>2, <1>3 DEF LaterFits
<1>6. NothingMissed'
    BY <1>1, <1>2, <1>3, <1>4, <1>5 DEF WalkInv, NothingMissed
<1>7. ASSUME starIdx # 0, NEW x \in matchIdx..m + 1, Fits(x, starIdx + 1)
      PROVE  /\ x + valueIdx - matchIdx <= m + 1
             /\ Fits(x + valueIdx - matchIdx, p + 1)
    <2> DEFINE y == x + valueIdx - matchIdx
    <2>1. y <= m + 1 /\ Fits(y, p)
        BY <1>7 DEF WalkInv, Between
    <2>2. y = m + 1
        BY <1>1, <2>1
    <2> QED
        BY <1>4, <2>1, <2>2
<1>8. Between'
    BY <1>2, <1>3, <1>7 DEF Between
<1> QED
    BY <1>6, <1>8

\* Whoever answers has nothing left to try.
LEMMA AnswerKeeps ==
    ASSUME WalkInv, NoStar \/ WalkEnds
    PROVE  NothingMissed' /\ Between' /\ WalkDecides'
<1> DEFINE v == valueIdx
           p == patternIdx
           m == Len(value)
<1>1. /\ Text /\ m \in Nat /\ v \in 1..m + 1 /\ p \in 1..Len(pattern) + 1 /\ Len(pattern) \in Nat
      /\ matchIdx \in 1..m + 1 /\ matchIdx <= v
    BY DEF WalkInv, WalkTypes, Text, InBounds
<1>2. /\ value' = value /\ pattern' = pattern /\ \A x, q : Fits(x, q)' <=> Fits(x, q)
    BY SameTexts DEF WalkInv, WalkNext
<1>3. /\ UNCHANGED <<valueIdx, patternIdx, starIdx, matchIdx>>
      /\ verdict = "none" /\ verdict' # "none"
    BY DEF NoStar, WalkEnds, Walking, Answer
<1>4. NothingMissed' /\ Between'
    BY <1>2, <1>3 DEF WalkInv, NothingMissed, Between
<1>5. Fits(1, 1)' <=> Fits(1, 1)
    BY <1>2
<1>6. (verdict' = "true" <=> Fits(1, 1)) => WalkDecides'
    BY <1>2, <1>5 DEF WalkDecides
<1>8. CASE NoStar
    <2>1. ~Fits(v, p)
        <3>1. CASE p \in 1..Len(pattern)
            BY <1>1, <1>8, <3>1, FitsSymbol DEF NoStar, AtStar, AtSymbol
        <3>2. CASE p = Len(pattern) + 1
            BY <1>1, <1>8, <3>2, FitsEnd DEF NoStar, More
        <3> QED
            BY <1>1, <3>1, <3>2
    <2>2. ~Fits(1, 1)
        BY <1>3, <1>8, <2>1 DEF WalkInv, NothingMissed, LaterFits, NoStar
    <2> QED
        BY <1>4, <1>6, <1>8, <2>2 DEF NoStar, Answer
<1>9. CASE WalkEnds
    <2>1. v = m + 1 /\ ~AtStar
        BY <1>1, <1>9 DEF WalkEnds, More
    <2>2. Fits(v, p) <=> p = Len(pattern) + 1
        <3>1. CASE p \in 1..Len(pattern)
            BY <1>1, <2>1, <3>1, FitsSymbol DEF AtStar
        <3>2. CASE p = Len(pattern) + 1
            BY <1>1, <2>1, <3>2, FitsEnd
        <3> QED
            BY <1>1, <3>1, <3>2
    <2>3. ~LaterFits
        <3>1. SUFFICES ASSUME LaterFits PROVE FALSE
            OBVIOUS
        <3>2. PICK x \in matchIdx + 1..m + 1 : Fits(x, starIdx + 1)
            BY <3>1 DEF LaterFits
        <3>3. x + v - matchIdx <= m + 1
            BY <1>1, <3>1, <3>2 DEF WalkInv, Between, LaterFits
        <3> QED
            BY <1>1, <2>1, <3>2, <3>3
    <2>4. Fits(1, 1) <=> p = Len(pattern) + 1
        BY <1>3, <2>2, <2>3 DEF WalkInv, NothingMissed
    <2> QED
        BY <1>4, <1>6, <1>9, <2>4 DEF WalkEnds, Walking, Answer
<1> QED
    BY <1>8, <1>9

LEMMA WalkInvStep == WalkInv /\ [WalkNext]_walkVars => WalkInv'
<1> SUFFICES ASSUME WalkInv, [WalkNext]_walkVars PROVE WalkInv'
    OBVIOUS
<1>1. WalkTypes' /\ \A x, q : Fits(x, q)' <=> Fits(x, q)
    BY PassMoves, SameTexts DEF WalkInv
<1>2. CASE NoStar \/ WalkEnds
    BY <1>1, <1>2, AnswerKeeps DEF WalkInv
<1>3. ASSUME MeetStar \/ MatchSymbol \/ BackToStar \/ SkipStar PROVE WalkDecides'
    BY <1>3 DEF MeetStar, MatchSymbol, BackToStar, SkipStar, Walking, WalkDecides
<1>4. CASE MeetStar \/ MatchSymbol \/ BackToStar \/ SkipStar
    BY <1>1, <1>3, <1>4, MeetStarKeeps, MatchSymbolKeeps, BackToStarKeeps, SkipStarKeeps
       DEF WalkInv
<1>5. CASE UNCHANGED walkVars
    <2>1. UNCHANGED <<value, pattern, valueIdx, patternIdx, starIdx, matchIdx, verdict>>
        BY <1>5 DEF walkVars
    <2>2. NothingMissed' /\ Between' /\ WalkDecides'
        BY <1>1, <2>1 DEF WalkInv, NothingMissed, Between, LaterFits, WalkDecides
    <2> QED
        BY <1>1, <2>2 DEF WalkInv
<1> QED
    BY <1>2, <1>4, <1>5 DEF WalkNext
-----------------------------------------------------------------------------
(* The allowed origins.                                                      *)

CorsTypes ==
    /\ corsPc \in {"idle", "entry", "walk", "answered"}
    /\ origin \in Seq(Symbols)
    /\ allowOrigins \in Seq(Seq(Symbols))
    /\ allowCredentials \in BOOLEAN
    /\ entry \in 1..Len(allowOrigins) + 1

\* The entries before this one do not take the origin.
PassedOver ==
    \A i \in 1..entry - 1 : allowOrigins[i] # <<Star>> /\ ~Takes(allowOrigins[i])

\* wildcardMatch has been called for this entry.
Comparing ==
    /\ entry <= Len(allowOrigins)
    /\ Allowed # <<Star>> /\ Comparable(Allowed) /\ Contains(Allowed, Star)
    /\ value = Lower(Part(Allowed)) /\ pattern = Lower(Allowed)
    /\ WalkInv

\* The inductive invariant.
CorsInv ==
    /\ CorsTypes
    /\ corsPc \in {"entry", "walk"} => PassedOver
    /\ corsPc = "walk" => Comparing
    /\ corsPc = "idle" => entry = 1
    /\ OriginAllowed

LEMMA LowerText == ASSUME NEW s \in Seq(Symbols) PROVE Lower(s) \in Seq(Symbols)
<1>1. Len(s) \in Nat /\ \A i \in 1..Len(s) : s[i] \in Symbols
    OBVIOUS
<1>2. Lower(s) \in [1..Len(s) -> Symbols]
    BY <1>1, SymbolsAssumption DEF Lower
<1> QED
    BY <1>1, <1>2

LEMMA HostText == ASSUME NEW s \in Seq(Symbols) PROVE ExtractHost(s) \in Seq(Symbols)
<1> DEFINE ends == {i \in 2..Len(s) : s[i] = Sep /\ \A j \in 1..i - 1 : s[j] # Sep}
           first == CHOOSE i \in ends : TRUE
<1>1. NoText \in Seq(Symbols)
    BY DEF NoText
<1>2. ASSUME ends # {} PROVE SubSeq(s, first + 1, Len(s)) \in Seq(Symbols)
    <2>1. first \in 2..Len(s)
        BY <1>2
    <2>2. \A i \in first + 1..Len(s) : s[i] \in Symbols
        BY <2>1
    <2> HIDE DEF first
    <2> QED
        BY <2>1, <2>2, SubSeqProperties
<1>3. ExtractHost(s) = IF ends = {} THEN NoText ELSE SubSeq(s, first + 1, Len(s))
    BY DEF ExtractHost
<1> QED
    BY <1>1, <1>2, <1>3

\* An answer is right once it is known whether an entry is "*" or takes the
\* origin.
LEMMA AnswerRight ==
    ASSUME CorsTypes, NEW to, SetHeaders(to),
           to # NoText <=> \E i \in 1..Len(allowOrigins) :
                               allowOrigins[i] = <<Star>> \/ Takes(allowOrigins[i]),
           to # NoText =>
               \/ to = origin
               \/ /\ to = <<Star>> /\ \E i \in 1..Len(allowOrigins) : allowOrigins[i] = <<Star>>
                  /\ ~(allowCredentials /\ origin # NoText)
    PROVE  CorsInv'
<1>1. /\ corsPc' = "answered" /\ UNCHANGED <<request, entry, walkVars>>
      /\ headers'.allowOrigin = to
      /\ headers'.allowCredentials = (to # NoText /\ allowCredentials)
    BY DEF SetHeaders
<1>2. origin' = origin /\ allowOrigins' = allowOrigins /\ allowCredentials' = allowCredentials
          /\ entry' = entry
    BY <1>1 DEF request
<1>3. CorsTypes'
    BY <1>1, <1>2 DEF CorsTypes
<1>4. \A allowed : Takes(allowed)' <=> Takes(allowed)
    BY <1>2 DEF Takes, Comparable, Part
<1>5. OriginAllowed'
    BY <1>1, <1>2, <1>4 DEF OriginAllowed
<1> QED
    BY <1>1, <1>3, <1>5 DEF CorsInv

LEMMA NextEntryKeeps ==
    ASSUME CorsInv, corsPc \in {"entry", "walk"}, entry <= Len(allowOrigins), NextEntry,
           Allowed # <<Star>>, ~Takes(Allowed)
    PROVE  CorsInv'
<1>1. /\ corsPc' = "entry" /\ entry' = entry + 1
      /\ origin' = origin /\ allowOrigins' = allowOrigins /\ allowCredentials' = allowCredentials
    BY DEF NextEntry, request
<1>2. CorsTypes'
    BY <1>1 DEF CorsInv, CorsTypes
<1>3. \A allowed : Takes(allowed)' <=> Takes(allowed)
    BY <1>1 DEF Takes, Comparable, Part
<1>4. ASSUME NEW i \in 1..entry PROVE allowOrigins[i] # <<Star>> /\ ~Takes(allowOrigins[i])
    <2>1. CASE i = entry
        BY <2>1 DEF Allowed
    <2>2. CASE i # entry
        <3>1. i \in 1..entry - 1
            BY <2>2 DEF CorsInv, CorsTypes
        <3> QED
            BY <3>1 DEF CorsInv, PassedOver
    <2> QED
        BY <2>1, <2>2
<1>5. PassedOver'
    BY <1>1, <1>3, <1>4 DEF PassedOver, CorsInv, CorsTypes
<1> QED
    BY <1>1, <1>2, <1>5 DEF CorsInv, OriginAllowed

LEMMA CorsInitInv == CorsInit => CorsInv
<1> SUFFICES ASSUME CorsInit PROVE CorsInv
    OBVIOUS
<1>1. NoText \in Seq(Symbols) /\ <<NoText>> \in Seq(Seq(Symbols)) /\ Len(<<NoText>>) = 1
    BY DEF NoText
<1>2. CorsTypes
    <2>1. allowCredentials \in BOOLEAN
        BY DEF CorsInit
    <2>2. origin \in Seq(Symbols) /\ allowOrigins \in Seq(Seq(Symbols)) /\ entry \in 1..Len(allowOrigins) + 1
        BY <1>1 DEF CorsInit
    <2> QED
        BY <2>1, <2>2 DEF CorsInit, CorsTypes
<1> QED
    BY <1>2 DEF CorsInit, CorsInv, OriginAllowed

LEMMA ApplyKeeps ==
    ASSUME CorsInv, NEW o \in Origins, NEW list \in AllowLists, NEW credentials \in BOOLEAN,
           Apply(o, list, credentials)
    PROVE  CorsInv'
<1>1. o \in Seq(Symbols) /\ list \in Seq(Seq(Symbols)) /\ <<NoText>> \in Seq(Seq(Symbols))
    BY OriginsAssumption DEF NoText
<1>2. Compiled(list) \in Seq(Seq(Symbols))
    BY <1>1 DEF Compiled
<1>3. entry' = 1 /\ corsPc' = "entry"
    BY DEF Apply, CorsInv
<1>4. CorsTypes'
    BY <1>1, <1>2, <1>3 DEF Apply, CorsTypes
<1> QED
    BY <1>3, <1>4 DEF CorsInv, PassedOver, OriginAllowed

\* The steps at an entry.
LEMMA EntryKeeps ==
    ASSUME CorsInv, NoEntryLeft \/ AnyOrigin \/ Incomparable \/ CompareSpelling
    PROVE  CorsInv'
<1>1. CorsTypes /\ corsPc = "entry" /\ PassedOver
    BY DEF CorsInv, NoEntryLeft, AnyOrigin, Incomparable, CompareSpelling, AtEntry
<1>2. CASE NoEntryLeft
    <2>1. entry - 1 = Len(allowOrigins)
        BY <1>1, <1>2 DEF NoEntryLeft, CorsTypes
    <2> QED
        BY <1>1, <1>2, <2>1, AnswerRight DEF NoEntryLeft, PassedOver
<1>3. CASE AnyOrigin
    <2> DEFINE to == IF allowCredentials /\ origin # NoText THEN origin ELSE <<Star>>
    <2>1. entry \in 1..Len(allowOrigins) /\ allowOrigins[entry] = <<Star>> /\ SetHeaders(to)
        BY <1>1, <1>3 DEF AnyOrigin, AtEntry, Allowed, CorsTypes
    <2>2. to # NoText
        BY DEF NoText
    <2> HIDE DEF to
    <2>3. to = origin \/ (to = <<Star>> /\ ~(allowCredentials /\ origin # NoText))
        BY DEF to
    <2> QED
        BY <1>1, <2>1, <2>2, <2>3, AnswerRight
<1>4. CASE Incomparable
    BY <1>1, <1>4, NextEntryKeeps DEF Incomparable, AtEntry, Takes
<1>5. CASE CompareSpelling
    <2>1. Takes(Allowed) <=> EqualFold(Part(Allowed), Allowed)
        BY <1>5 DEF CompareSpelling, Takes
    <2>2. entry \in 1..Len(allowOrigins) /\ origin # NoText /\ ~Contains(Allowed, Star)
        BY <1>1, <1>5 DEF CompareSpelling, AtEntry, CorsTypes, Comparable
    <2>3. Allowed # <<Star>>
        BY <2>2 DEF Contains
    <2>4. CASE Takes(Allowed)
        BY <1>1, <1>5, <2>1, <2>2, <2>4, AnswerRight DEF CompareSpelling, Allowed
    <2>5. CASE ~Takes(Allowed)
        BY <1>1, <1>5, <2>1, <2>2, <2>3, <2>5, NextEntryKeeps DEF CompareSpelling
    <2> QED
        BY <2>4, <2>5
<1> QED
    BY <1>2, <1>3, <1>4, <1>5

LEMMA ComparePatternKeeps ==
    ASSUME CorsInv, ComparePattern
    PROVE  CorsInv'
<1>1. CorsTypes /\ PassedOver /\ entry \in 1..Len(allowOrigins)
    BY DEF CorsInv, CorsTypes, ComparePattern, AtEntry
<1>2. /\ origin' = origin /\ allowOrigins' = allowOrigins /\ allowCredentials' = allowCredentials
      /\ entry' = entry /\ corsPc' = "walk"
    BY DEF ComparePattern, request
<1>3. \A allowed : Takes(allowed)' <=> Takes(allowed)
    BY <1>2 DEF Takes, Comparable, Part
<1>4. Allowed \in Seq(Symbols) /\ Part(Allowed) \in Seq(Symbols)
    BY <1>1, HostText DEF CorsTypes, Allowed, Part
<1>5. Called'
    BY <1>4, LowerText DEF ComparePattern, CallWalk, Called, Text
<1>6. WalkInv'
    BY <1>5, CalledInv, PTL
<1>7. Allowed' = Allowed /\ Part(Allowed)' = Part(Allowed) /\ Comparable(Allowed)'
    BY <1>2 DEF Allowed, Part, Comparable, ComparePattern
<1>8. Comparing'
    BY <1>1, <1>2, <1>6, <1>7 DEF Comparing, ComparePattern, CallWalk
<1>9. CorsTypes'
    BY <1>1, <1>2 DEF CorsTypes
<1>10. PassedOver'
    BY <1>1, <1>2, <1>3 DEF PassedOver
<1> QED
    BY <1>2, <1>8, <1>9, <1>10 DEF CorsInv, OriginAllowed

LEMMA WalkKeeps ==
    ASSUME CorsInv, Walk
    PROVE  CorsInv'
<1>1. /\ origin' = origin /\ allowOrigins' = allowOrigins /\ allowCredentials' = allowCredentials
      /\ entry' = entry /\ corsPc = "walk" /\ corsPc' = "walk"
    BY DEF Walk, request
<1>2. /\ CorsTypes /\ PassedOver /\ Comparing
    BY <1>1 DEF CorsInv
<1>3. value' = value /\ pattern' = pattern /\ WalkInv'
    BY <1>2, SameTexts, WalkInvStep DEF Comparing, Walk, WalkInv
<1>4. \A allowed : Takes(allowed)' <=> Takes(allowed)
    BY <1>1 DEF Takes, Comparable, Part
<1>5. Allowed' = Allowed /\ Part(Allowed)' = Part(Allowed) /\ Comparable(Allowed)'
    BY <1>1, <1>2 DEF Allowed, Part, Comparable, Comparing
<1>6. Comparing'
    BY <1>1, <1>2, <1>3, <1>5 DEF Comparing
<1>7. CorsTypes'
    BY <1>1, <1>2 DEF CorsTypes
<1>8. PassedOver'
    BY <1>1, <1>2, <1>4 DEF PassedOver
<1> QED
    BY <1>1, <1>6, <1>7, <1>8 DEF CorsInv, OriginAllowed

\* wildcardMatch has decided whether the entry takes the origin.
LEMMA WalkReturnsKeeps ==
    ASSUME CorsInv, WalkReturns
    PROVE  CorsInv'
<1>1. /\ CorsTypes /\ PassedOver /\ Comparing /\ corsPc = "walk"
      /\ entry \in 1..Len(allowOrigins)
    BY DEF CorsInv, CorsTypes, Comparing, WalkReturns
<1>2. verdict = "true" <=> Reads(value, pattern)
    BY <1>1 DEF WalkReturns, Comparing, WalkInv, WalkDecides, Fits, Reads
<1>3. Takes(Allowed) <=> verdict = "true"
    BY <1>1, <1>2 DEF Comparing, Takes
<1>4. origin # NoText /\ Allowed # <<Star>>
    BY <1>1 DEF Comparing, Comparable
<1>5. CASE verdict = "true"
    <2>1. SetHeaders(origin) /\ Takes(allowOrigins[entry])
        BY <1>3, <1>5 DEF WalkReturns, Allowed
    <2> QED
        BY <1>1, <1>4, <2>1, AnswerRight
<1>6. CASE verdict # "true"
    BY <1>1, <1>3, <1>4, <1>6, NextEntryKeeps DEF WalkReturns
<1> QED
    BY <1>5, <1>6

LEMMA CorsInvStep == CorsInv /\ [CorsNext]_corsVars => CorsInv'
<1> SUFFICES ASSUME CorsInv, [CorsNext]_corsVars PROVE CorsInv'
    OBVIOUS
<1>1. CASE CorsNext
    BY <1>1, ApplyKeeps, EntryKeeps, ComparePatternKeeps, WalkKeeps, WalkReturnsKeeps DEF CorsNext
<1>2. CASE UNCHANGED corsVars
    <2>1. /\ UNCHANGED <<corsPc, origin, allowOrigins, allowCredentials, entry, headers>>
          /\ UNCHANGED walkVars
        BY <1>2 DEF corsVars
    <2>2. \A allowed : Takes(allowed)' <=> Takes(allowed)
        BY <2>1 DEF Takes, Comparable, Part
    <2>3. corsPc = "walk" => Comparing'
        <3>1. Comparing => WalkInv'
            BY <2>1, WalkInvStep DEF Comparing
        <3>2. Allowed' = Allowed /\ Part(Allowed)' = Part(Allowed)
                  /\ (Comparable(Allowed)' <=> Comparable(Allowed))
            BY <2>1 DEF Allowed, Part, Comparable
        <3> QED
            BY <2>1, <3>1, <3>2 DEF CorsInv, Comparing, walkVars
    <2>4. CorsTypes'
        BY <2>1 DEF CorsInv, CorsTypes
    <2>5. PassedOver => PassedOver'
        BY <2>1, <2>2 DEF PassedOver
    <2>6. OriginAllowed'
        BY <2>1, <2>2 DEF CorsInv, OriginAllowed
    <2> QED
        BY <2>1, <2>3, <2>4, <2>5, <2>6 DEF CorsInv
<1> QED
    BY <1>1, <1>2

LEMMA CorsAlways == CorsSpec => []CorsInv
    BY CorsInitInv, CorsInvStep, PTL DEF CorsSpec

(* An origin is allowed exactly when an entry is "*", spells it or can be    *)
(* read as it, for any list and any symbols: what wildcardMatch no longer    *)
(* tries cannot have been the only way.                                      *)
THEOREM OriginsDecided == CorsSpec => []OriginAllowed
<1>1. CorsInv => OriginAllowed
    BY DEF CorsInv
<1> QED
    BY <1>1, CorsAlways, PTL

(* Every pass of wildcardMatch's loops moves on within bounds, so they end.  *)
THEOREM WalkMovesOn == CorsSpec => MovesOn
<1>1. CorsInv /\ [CorsNext]_corsVars
          => [corsPc = "walk" /\ corsPc' = "walk" => InBounds' /\ Further]_corsVars
    <2> SUFFICES ASSUME CorsInv, CorsNext, corsVars' # corsVars, corsPc = "walk", corsPc' = "walk"
                 PROVE  InBounds' /\ Further
        OBVIOUS
    <2>1. Walk
        BY DEF CorsNext, Apply, NoEntryLeft, AnyOrigin, Incomparable, CompareSpelling, AtEntry,
               ComparePattern, WalkReturns, SetHeaders, NextEntry
    <2>2. WalkTypes /\ WalkNext
        BY <2>1 DEF CorsInv, Comparing, WalkInv, Walk
    <2>3. walkVars' # walkVars
        BY <2>1 DEF Walk, corsVars, request
    <2> QED
        BY <2>2, <2>3, PassMoves
<1> QED
    BY <1>1, CorsAlways, PTL DEF CorsSpec, MovesOn

-----------------------------------------------------------------------------
(* Induction on the natural numbers.                                         *)

\* There is a smallest number in every set of numbers: intervals are well-
\* founded.
LEMMA LeastNumber ==
    ASSUME NEW T \in SUBSET Nat, T # {}
    PROVE  \E n \in T : \A m \in T : n <= m
<1> DEFINE U == {1..n : n \in T}
           R == StrictSubsetOrdering(Nat)
           F == FiniteSubsetsOf(Nat)
<1>1. IsWellFoundedOn(R, F)
    BY FS_StrictSubsetOrderingWellFounded
<1>2. ASSUME NEW n \in T PROVE 1..n \in F
    BY FS_Interval DEF FiniteSubsetsOf
<1>3. U \subseteq F /\ U # {}
    BY <1>2
<1>4. PICK x \in U : \A y \in U : ~ (<<y, x>> \in R)
  <2> HIDE DEF U, R, F
  <2> QED
      BY <1>1, <1>3, WFMin
<1>5. PICK n \in T : x = 1..n
    BY <1>4
<1>6. ASSUME NEW m \in T, m < n PROVE FALSE
  <2>1. 1..m \in U /\ 1..m \subseteq 1..n /\ n \in 1..n /\ n \notin 1..m
      BY <1>6
  <2>2. <<1..m, 1..n>> \in R
      BY <2>1 DEF StrictSubsetOrdering
  <2> QED
      BY <2>1, <2>2, <1>4, <1>5
<1> QED
    BY <1>6

\* Induction over a set, which takes no operator as a parameter.
LEMMA NatSet ==
    ASSUME NEW S, 0 \in S, \A n \in Nat : n \in S => n + 1 \in S
    PROVE  Nat \subseteq S
<1> SUFFICES ASSUME Nat \ S # {} PROVE FALSE
    OBVIOUS
<1>1. PICK n \in Nat \ S : \A m \in Nat \ S : n <= m
    BY LeastNumber
<1>2. n # 0 /\ n - 1 \in Nat
    BY <1>1
<1>3. n - 1 \in S
    BY <1>1, <1>2
<1>4. (n - 1) + 1 \in S
    BY <1>2, <1>3
<1> QED
    BY <1>1, <1>2, <1>4

\* f[i] is what i steps of h make of a.
Iterates(f, m, a, h) == f[0] = a /\ \A i \in 1..m : f[i] = h[i][f[i - 1]]

LEMMA Iterated ==
    ASSUME NEW m \in Nat, NEW S, NEW a \in S, NEW h \in [1..m -> [S -> S]]
    PROVE  \E f \in [0..m -> S] : Iterates(f, m, a, h)
<1> USE DEF Iterates
<1> DEFINE Loop(n, f) == f \in [0..n -> S] /\ f[0] = a /\ \A i \in 1..n : f[i] = h[i][f[i - 1]]
           M == {n \in Nat : n <= m => \E f : Loop(n, f)}
<1>1. 0 \in M
  <2>1. Loop(0, [i \in 0..0 |-> a])
      OBVIOUS
  <2> QED
      BY <2>1
<1>2. ASSUME NEW n \in Nat, n \in M PROVE n + 1 \in M
  <2> SUFFICES ASSUME n + 1 <= m PROVE \E f : Loop(n + 1, f)
      OBVIOUS
  <2>1. PICK f : Loop(n, f)
      BY <1>2
  <2> DEFINE g == [i \in 0..n + 1 |-> IF i = n + 1 THEN h[n + 1][f[n]] ELSE f[i]]
  <2>2. /\ \A i \in 0..n : g[i] = f[i] /\ f[i] \in S
        /\ g[n + 1] = h[n + 1][f[n]] /\ h[n + 1][f[n]] \in S
    <3>1. h[n + 1] \in [S -> S] /\ f[n] \in S
        BY <2>1
    <3> QED
        BY <2>1, <3>1
  <2>3. g \in [0..n + 1 -> S]
      BY <2>2
  <2>4. ASSUME NEW i \in 1..n + 1 PROVE g[i] = h[i][g[i - 1]]
    <3>1. i - 1 \in 0..n /\ (i = n + 1 \/ i \in 1..n)
        OBVIOUS
    <3> HIDE DEF g
    <3> QED
        BY <3>1, <2>1, <2>2
  <2>5. g[0] = a
      BY <2>1, <2>2
  <2> HIDE DEF g
  <2> QED
      BY <2>3, <2>4, <2>5
<1>3. Nat \subseteq M
  <2> HIDE DEF M
  <2> QED
      BY <1>1, <1>2, NatSet
<1> QED
    BY <1>3

-----------------------------------------------------------------------------
(* Clean paths and keys.                                                     *)

LEMMA Blanks ==
    K!Blank \notin {".", "..", "srv", "files", "80", "443"}
    BY Zenon DEF K!Blank

\* Any segment a key or its URL may hold.
Segments == STRING \cup {"srv", "files", "pct20", "sp", "a", "uuid", "md5"}

LEMMA SegmentsHold ==
    STRING \subseteq Segments /\ {"srv", "files", "pct20", "sp", "a", "uuid", "md5"} \subseteq Segments
    BY DEF Segments

Paths == [abs : BOOLEAN, segs : Seq(Segments)]

\* Clean is a loop over the segments.
LEMMA CleanLoop ==
    ASSUME NEW p \in Paths
    PROVE  \E out : /\ out[0] = <<>>
                    /\ \A i \in 1..Len(p.segs) : out[i] = K!Follow(p.abs, out[i - 1], p.segs[i])
                    /\ K!Clean(p) = K!Path(p.abs, out[Len(p.segs)])
<1> DEFINE Loop(m, f) == f = [i \in 0..m |-> IF i = 0 THEN <<>> ELSE K!Follow(p.abs, f[i - 1], p.segs[i])]
           M == {m \in Nat : \E f : Loop(m, f)}
<1>1. 0 \in M
  <2>1. Loop(0, [i \in 0..0 |-> <<>>])
      OBVIOUS
  <2> QED
      BY <2>1
<1>2. ASSUME NEW m \in Nat, m \in M PROVE m + 1 \in M
  <2>1. PICK f : Loop(m, f)
      BY <1>2
  <2> DEFINE g == [i \in 0..m + 1 |-> IF i = m + 1 THEN K!Follow(p.abs, f[m], p.segs[m + 1]) ELSE f[i]]
  <2>2. \A i \in 0..m : g[i] = f[i]
      OBVIOUS
  <2>3. ASSUME NEW i \in 0..m + 1
        PROVE  g[i] = IF i = 0 THEN <<>> ELSE K!Follow(p.abs, g[i - 1], p.segs[i])
    <3>1. CASE i = 0
        BY <3>1, <2>1
    <3>2. CASE i \in 1..m
      <4>1. f[i] = K!Follow(p.abs, f[i - 1], p.segs[i])
          BY <2>1, <3>2
      <4>2. i - 1 \in 0..m /\ i # 0 /\ i \in 0..m
          BY <3>2
      <4> HIDE DEF g
      <4> QED
          BY <4>1, <4>2, <2>2
    <3>3. CASE i = m + 1
      <4>1. g[i] = K!Follow(p.abs, f[m], p.segs[m + 1])
          BY <3>3
      <4>2. i - 1 = m /\ i # 0 /\ m \in 0..m
          BY <3>3
      <4> HIDE DEF g
      <4> QED
          BY <4>1, <4>2, <3>3, <2>2
    <3> QED
        BY <3>1, <3>2, <3>3
  <2>4. g = [i \in 0..m + 1 |-> g[i]]
      OBVIOUS
  <2>5. Loop(m + 1, g)
    <3> HIDE DEF g
    <3> QED
        BY <2>3, <2>4
  <2> HIDE DEF g, Loop
  <2> QED
      BY <2>5
<1>3. PICK f : Loop(Len(p.segs), f)
  <2>1. Nat \subseteq M
    <3> HIDE DEF M
    <3> QED
        BY <1>1, <1>2, NatSet
  <2>2. Len(p.segs) \in Nat
      BY DEF Paths
  <2> QED
      BY <2>1, <2>2
<1>4. \E out : /\ K!Clean(p) = K!Path(p.abs, out[Len(p.segs)])
               /\ Loop(Len(p.segs), out)
    BY <1>3, Zenon DEF K!Clean
<1>5. PICK out : /\ K!Clean(p) = K!Path(p.abs, out[Len(p.segs)])
                 /\ Loop(Len(p.segs), out)
    BY <1>4
<1>6. out[0] = <<>>
    BY <1>5 DEF Paths
<1>7. ASSUME NEW i \in 1..Len(p.segs) PROVE out[i] = K!Follow(p.abs, out[i - 1], p.segs[i])
    BY <1>5 DEF Paths
<1> QED
    BY <1>5, <1>6, <1>7

\* Segments that are names: none of them is removed by Clean.
Named(segs) == \A i \in 1..Len(segs) : segs[i] \notin {K!Blank, ".", ".."}
\* What Clean leaves: no blanks, and ".." only at the front of a relative path.
Tidy(root, segs) ==
    /\ segs \in Seq(Segments)
    /\ \A i \in 1..Len(segs) :
          /\ segs[i] \notin {K!Blank, "."}
          /\ segs[i] = ".." => ~root /\ \A j \in 1..i : segs[j] = ".."

LEMMA FollowTidy ==
    ASSUME NEW root \in BOOLEAN, NEW out, Tidy(root, out), NEW s \in Segments
    PROVE  Tidy(root, K!Follow(root, out, s))
<1> USE DEF Tidy
<1>1. out \in Seq(Segments)
    OBVIOUS
<1>2. CASE s \in {K!Blank, "."}
  <2>1. K!Follow(root, out, s) = out
      BY <1>2, Blanks DEF K!Follow
  <2> QED
      BY <2>1
<1>3. CASE s = ".." /\ out # <<>> /\ K!Last(out) # ".."
  <2> DEFINE front == SubSeq(out, 1, Len(out) - 1)
  <2>1. K!Follow(root, out, s) = front
      BY <1>3 DEF K!Follow, K!Front
  <2>2. Len(out) - 1 \in Nat /\ Len(out) - 1 <= Len(out)
    <3>1. Len(out) \in Nat /\ Len(out) # 0
        BY <1>3, <1>1
    <3> QED
        BY <3>1
  <2>2a. front \in Seq(Segments) /\ Len(front) = Len(out) - 1
    <3>1. \A i \in 1..Len(out) - 1 : out[i] \in Segments
        BY <2>2, <1>1
    <3>2. ASSUME NEW k \in Nat, k = Len(out) - 1
          PROVE  SubSeq(out, 1, k) \in Seq(Segments) /\ Len(SubSeq(out, 1, k)) = k
        BY <3>1, <3>2
    <3> QED
        BY <2>2, <3>2
  <2>3. \A i \in 1..Len(front) : front[i] = out[i] /\ i \in 1..Len(out)
      BY <2>2, <2>2a, <1>1
  <2>4. Tidy(root, front)
    <3> HIDE DEF front
    <3> QED
        BY <2>2a, <2>3
  <2> QED
      BY <2>1, <2>4
<1>4. CASE s = ".." /\ out = <<>> /\ root
  <2>1. K!Follow(root, out, s) = out
      BY <1>4 DEF K!Follow
  <2> QED
      BY <2>1
<1>5. ASSUME s \notin {K!Blank, "."}, s = ".." => \A j \in 1..Len(out) : out[j] = "..",
             s = ".." => ~(out = <<>> /\ root) /\ ~(out # <<>> /\ K!Last(out) # "..") /\ ~root
      PROVE  Tidy(root, K!Follow(root, out, s))
  <2> DEFINE more == Append(out, s)
  <2>1. K!Follow(root, out, s) = more
      BY <1>5 DEF K!Follow
  <2>2. more \in Seq(Segments) /\ Len(more) = Len(out) + 1 /\ more[Len(out) + 1] = s
      BY <1>1
  <2>3. \A i \in 1..Len(out) : more[i] = out[i]
      BY <1>1
  <2>4. ASSUME NEW i \in 1..Len(more)
        PROVE  /\ more[i] \notin {K!Blank, "."}
               /\ more[i] = ".." => ~root /\ \A j \in 1..i : more[j] = ".."
    <3> HIDE DEF more
    <3>1. CASE i = Len(out) + 1
        BY <3>1, <1>5, <2>2, <2>3, <1>1
    <3>2. CASE i \in 1..Len(out)
        BY <3>2, <2>2, <2>3, <1>1
    <3> QED
        BY <3>1, <3>2, <2>2, <1>1
  <2> QED
      BY <2>1, <2>2, <2>4
<1>6. CASE s \notin {K!Blank, ".", ".."}
    BY <1>6, <1>5
<1>7. CASE s = ".." /\ out = <<>> /\ ~root
  <2>1. \A j \in 1..Len(out) : out[j] = ".."
      BY <1>7
  <2> QED
      BY <1>7, <1>5, <2>1, Blanks
<1>8. CASE s = ".." /\ out # <<>> /\ K!Last(out) = ".."
  <2>1. Len(out) \in 1..Len(out) /\ out[Len(out)] = ".."
      BY <1>8, <1>1 DEF K!Last
  <2>2. ~root /\ \A j \in 1..Len(out) : out[j] = ".."
      BY <2>1
  <2>3. ~(out # <<>> /\ K!Last(out) # "..")
      BY <1>8
  <2> QED
      BY <1>8, <1>5, <2>2, <2>3, Blanks
<1> QED
    BY <1>2, <1>3, <1>4, <1>6, <1>7, <1>8

LEMMA CleanTidy ==
    ASSUME NEW p \in Paths
    PROVE  K!Clean(p).abs = p.abs /\ Tidy(p.abs, K!Clean(p).segs)
<1>1. PICK out : /\ out[0] = <<>>
                 /\ \A i \in 1..Len(p.segs) : out[i] = K!Follow(p.abs, out[i - 1], p.segs[i])
                 /\ K!Clean(p) = K!Path(p.abs, out[Len(p.segs)])
    BY CleanLoop
<1>2. p.abs \in BOOLEAN /\ p.segs \in Seq(Segments) /\ Len(p.segs) \in Nat
    BY DEF Paths
<1> DEFINE T == {i \in Nat : i <= Len(p.segs) => Tidy(p.abs, out[i])}
<1>3. 0 \in T
  <2>1. Tidy(p.abs, <<>>)
      BY DEF Tidy
  <2> QED
      BY <1>1, <2>1
<1>4. ASSUME NEW i \in Nat, i \in T PROVE i + 1 \in T
  <2> SUFFICES ASSUME i + 1 <= Len(p.segs) PROVE Tidy(p.abs, out[i + 1])
      OBVIOUS
  <2>1. i + 1 \in 1..Len(p.segs) /\ p.segs[i + 1] \in Segments /\ (i + 1) - 1 = i
      BY <1>2
  <2>2. out[i + 1] = K!Follow(p.abs, out[i], p.segs[i + 1])
      BY <2>1, <1>1
  <2>3. Tidy(p.abs, out[i])
      BY <1>4, <1>2
  <2> QED
      BY <2>1, <2>2, <2>3, <1>2, FollowTidy
<1>5. Nat \subseteq T
  <2> HIDE DEF T
  <2> QED
      BY <1>3, <1>4, NatSet
<1>6. Tidy(p.abs, out[Len(p.segs)])
    BY <1>5, <1>2
<1> QED
    BY <1>1, <1>6 DEF K!Path

\* A path of names is clean.
LEMMA CleanNamed ==
    ASSUME NEW p \in Paths, Named(p.segs)
    PROVE  K!Clean(p) = p
<1>1. PICK out : /\ out[0] = <<>>
                 /\ \A i \in 1..Len(p.segs) : out[i] = K!Follow(p.abs, out[i - 1], p.segs[i])
                 /\ K!Clean(p) = K!Path(p.abs, out[Len(p.segs)])
    BY CleanLoop
<1>2. p.abs \in BOOLEAN /\ p.segs \in Seq(Segments) /\ Len(p.segs) \in Nat
    BY DEF Paths
<1> DEFINE T == {i \in Nat : i <= Len(p.segs) => out[i] = SubSeq(p.segs, 1, i)}
<1>3. 0 \in T
  <2>1. SubSeq(p.segs, 1, 0) = <<>>
      BY <1>2
  <2> QED
      BY <1>1, <2>1
<1>4. ASSUME NEW i \in Nat, i \in T PROVE i + 1 \in T
  <2> SUFFICES ASSUME i + 1 <= Len(p.segs) PROVE out[i + 1] = SubSeq(p.segs, 1, i + 1)
      OBVIOUS
  <2>1. i + 1 \in 1..Len(p.segs) /\ (i + 1) - 1 = i
      BY <1>2
  <2>2. out[i + 1] = K!Follow(p.abs, out[i], p.segs[i + 1])
      BY <2>1, <1>1
  <2>3. out[i] = SubSeq(p.segs, 1, i)
      BY <1>4, <1>2
  <2>4. p.segs[i + 1] \notin {K!Blank, ".", ".."}
      BY <2>1 DEF Named
  <2>5. out[i + 1] = Append(SubSeq(p.segs, 1, i), p.segs[i + 1])
      BY <2>2, <2>3, <2>4 DEF K!Follow
  <2> QED
      BY <2>1, <2>5, <1>2
<1>5. Nat \subseteq T
  <2> HIDE DEF T
  <2> QED
      BY <1>3, <1>4, NatSet
<1>6. out[Len(p.segs)] = SubSeq(p.segs, 1, Len(p.segs))
    BY <1>5, <1>2
<1>7. SubSeq(p.segs, 1, Len(p.segs)) = p.segs
    BY <1>2
<1> QED
    BY <1>1, <1>6, <1>7 DEF K!Path, Paths

\* A clean path that does not climb is one of names.
LEMMA TidyNamed ==
    ASSUME NEW root, NEW segs, Tidy(root, segs), root \/ segs = <<>> \/ Head(segs) # ".."
    PROVE  Named(segs)
<1> USE DEF Tidy
<1> SUFFICES ASSUME NEW i \in 1..Len(segs), segs[i] = ".." PROVE FALSE
    BY DEF Named
<1>1. ~root /\ segs # <<>> /\ segs[1] = ".."
    OBVIOUS
<1> QED
    BY <1>1

LEMMA CleanPath ==
    ASSUME NEW p \in Paths
    PROVE  K!Clean(p) \in Paths /\ K!Clean(p).abs = p.abs
<1>1. \E segs : K!Clean(p) = K!Path(p.abs, segs)
    BY CleanLoop
<1> QED
    BY <1>1, CleanTidy DEF Tidy, Paths, K!Path

LEMMA NamedConcat ==
    ASSUME NEW s \in Seq(Segments), NEW t \in Seq(Segments), Named(s), Named(t)
    PROVE  Named(s \o t)
<1> SUFFICES ASSUME NEW i \in 1..Len(s \o t) PROVE (s \o t)[i] \notin {K!Blank, ".", ".."}
    BY DEF Named
<1>1. CASE i <= Len(s)
    BY <1>1 DEF Named
<1>2. CASE ~(i <= Len(s))
  <2>1. (s \o t)[i] = t[i - Len(s)] /\ i - Len(s) \in 1..Len(t)
      BY <1>2
  <2> QED
      BY <2>1 DEF Named
<1> QED
    BY <1>1, <1>2

LEMMA JoinPath ==
    ASSUME NEW p \in Paths, NEW q \in Paths
    PROVE  /\ K!Join(p, q) \in Paths
           /\ K!Join(p, q).abs = IF p = K!NoPath THEN q.abs ELSE p.abs
           /\ Tidy(K!Join(p, q).abs, K!Join(p, q).segs)
           /\ Named(p.segs) /\ Named(q.segs) => Named(K!Join(p, q).segs)
<1> DEFINE r == IF p = K!NoPath THEN q ELSE K!Path(p.abs, p.segs \o q.segs)
<1>1. r \in Paths /\ r.abs = IF p = K!NoPath THEN q.abs ELSE p.abs
    BY DEF Paths, K!Path
<1>2. ASSUME Named(p.segs), Named(q.segs) PROVE Named(r.segs)
  <2>1. CASE p = K!NoPath
      BY <2>1, <1>2
  <2>2. CASE p # K!NoPath
    <3>1. r.segs = p.segs \o q.segs /\ p.segs \in Seq(Segments) /\ q.segs \in Seq(Segments)
        BY <2>2 DEF Paths, K!Path
    <3> QED
        BY <3>1, <1>2, NamedConcat
  <2> QED
      BY <2>1, <2>2
<1>3. K!Join(p, q) = K!Clean(r)
    BY DEF K!Join
<1> HIDE DEF r
<1> QED
    BY <1>1, <1>2, <1>3, CleanPath, CleanTidy, CleanNamed

LEMMA TrimPath ==
    ASSUME NEW p \in Paths
    PROVE  /\ K!TrimSlash(p) \in Paths /\ (~p.abs => K!TrimSlash(p) = p)
           /\ K!TrimSlash(p).abs <=> TwoSlashes(p)
<1>1. p.abs \in BOOLEAN /\ p.segs \in Seq(Segments)
    BY DEF Paths
<1>2. CASE ~p.abs
    BY <1>1, <1>2 DEF K!TrimSlash, TwoSlashes
<1>3. CASE p.abs /\ Len(p.segs) > 1 /\ Head(p.segs) = K!Blank
  <2>1. Tail(p.segs) \in Seq(Segments)
    <3>1. p.segs # <<>>
        BY <1>1, <1>3
    <3> QED
        BY <3>1, <1>1, HeadTailProperties
  <2> QED
      BY <2>1, <1>3 DEF K!TrimSlash, K!Path, Paths, TwoSlashes
<1>4. CASE p.abs /\ ~(Len(p.segs) > 1 /\ Head(p.segs) = K!Blank)
    BY <1>1, <1>4 DEF K!TrimSlash, K!Path, Paths, TwoSlashes
<1> QED
    BY <1>1, <1>2, <1>3, <1>4

\* A directory that is accepted is one of names, for any spelling of it.
LEMMA NormalDir ==
    ASSUME NEW raw \in Paths, NEW rejectAbs \in BOOLEAN,
           K!NormalizeUploadDir(raw, rejectAbs) # K!Reject
    PROVE  /\ K!NormalizeUploadDir(raw, rejectAbs) \in Paths
           /\ Named(K!NormalizeUploadDir(raw, rejectAbs).segs)
           /\ rejectAbs => ~K!NormalizeUploadDir(raw, rejectAbs).abs
           /\ ~rejectAbs => (K!NormalizeUploadDir(raw, rejectAbs).abs <=> TwoSlashes(raw))
<1> DEFINE dir == K!Clean(K!TrimSlash(raw))
<1>1. CASE raw = K!NoPath
    BY <1>1 DEF K!NormalizeUploadDir, K!NoPath, K!Path, Paths, Named, TwoSlashes
<1>2. CASE raw # K!NoPath
  <2>1. K!NormalizeUploadDir(raw, rejectAbs) = dir /\ ~K!Climbs(dir) /\ ~(rejectAbs /\ raw.abs)
      BY <1>2 DEF K!NormalizeUploadDir
  <2>2. /\ dir \in Paths /\ Tidy(dir.abs, dir.segs) /\ (~raw.abs => ~dir.abs)
        /\ dir.abs <=> TwoSlashes(raw)
      BY TrimPath, CleanPath, CleanTidy
  <2> HIDE DEF dir
  <2>3. Named(dir.segs)
      BY <2>1, <2>2, TidyNamed DEF K!Climbs
  <2> QED
      BY <2>1, <2>2, <2>3
<1> QED
    BY <1>1, <1>2

\* A key lies under the prefix it was configured with and has only names; a slash
\* begins it when two begin the prefix.
LEMMA JoinedKey ==
    ASSUME NEW prefixDir \in Paths, NEW bizDir \in Paths, NEW fileName \in Paths, NEW key,
           key = K!JoinUploadKey(prefixDir, bizDir, fileName), key # K!Reject
    PROVE  /\ key \in Paths /\ KeyUnderPrefix(key, prefixDir)
           /\ key.abs <=> TwoSlashes(prefixDir)
<1> DEFINE file == K!Clean(fileName)
           prefix == K!NormalizeUploadDir(prefixDir, FALSE)
           biz == K!NormalizeUploadDir(bizDir, TRUE)
           joined == K!Join(K!Join(prefix, biz), file)
<1>1. /\ key = joined
      /\ ~fileName.abs /\ ~K!Climbs(file)
      /\ prefix # K!Reject /\ biz # K!Reject
      /\ ~(prefix # K!NoPath /\ key # prefix /\ (prefix.segs = <<>> \/ ~K!Under(prefix, key)))
    BY DEF K!JoinUploadKey
<1>2. /\ prefix \in Paths /\ Named(prefix.segs)
      /\ biz \in Paths /\ Named(biz.segs) /\ ~biz.abs
      /\ prefix.abs <=> TwoSlashes(prefixDir)
    BY <1>1, NormalDir
<1>3. file \in Paths /\ Tidy(file.abs, file.segs) /\ ~file.abs
    BY <1>1, CleanPath, CleanTidy
<1> HIDE DEF file, prefix, biz
<1>4. Named(file.segs)
    BY <1>1, <1>3, TidyNamed DEF K!Climbs
<1>5. key \in Paths /\ Named(key.segs)
    BY <1>1, <1>2, <1>3, <1>4, JoinPath
<1>6. K!Under(prefix, key)
  <2>1. CASE prefix = K!NoPath
    <3>1. ~key.abs
        BY <2>1, <1>1, <1>2, <1>3, JoinPath
    <3>2. prefix.segs = <<>> /\ prefix.abs = FALSE
        BY <2>1 DEF K!NoPath, K!Path
    <3>3. K!IsPrefix(prefix.segs, key.segs)
        BY <3>2, <1>5 DEF K!IsPrefix, Paths
    <3> QED
        BY <3>1, <3>2, <3>3, <1>5 DEF K!Under, Paths
  <2>2. CASE key = prefix
      BY <2>2, <1>5 DEF K!Under, K!IsPrefix, Paths
  <2>3. CASE prefix # K!NoPath /\ key # prefix
      BY <1>1, <2>3
  <2> QED
      BY <2>1, <2>2, <2>3
<1>7. key.abs <=> TwoSlashes(prefixDir)
  <2>1. ~K!NoPath.abs
      BY DEF K!NoPath, K!Path
  <2>2. K!Join(prefix, biz) \in Paths /\ (K!Join(prefix, biz).abs <=> prefix.abs)
      BY <1>2, <2>1, JoinPath
  <2> DEFINE dir == K!Join(prefix, biz)
  <2> HIDE DEF dir
  <2>3. key.abs <=> dir.abs
      BY <1>1, <1>3, <2>1, <2>2, JoinPath DEF dir
  <2> QED
      BY <1>2, <2>2, <2>3 DEF dir
<1> QED
    BY <1>5, <1>6, <1>7 DEF KeyUnderPrefix, Named, prefix

LEMMA PrefixOf ==
    ASSUME NEW S, NEW s \in Seq(S), NEW t \in Seq(S), Len(s) <= Len(t), \A i \in 1..Len(s) : s[i] = t[i]
    PROVE  K!IsPrefix(s, t)
<1>1. SubSeq(s, 1, Len(s)) \in Seq(S) /\ SubSeq(t, 1, Len(s)) \in Seq(S)
    OBVIOUS
<1>2. Len(SubSeq(s, 1, Len(s))) = Len(s) /\ Len(SubSeq(t, 1, Len(s))) = Len(s)
    OBVIOUS
<1>3. \A i \in 1..Len(s) : SubSeq(s, 1, Len(s))[i] = s[i] /\ SubSeq(t, 1, Len(s))[i] = t[i]
    OBVIOUS
<1>4. SubSeq(s, 1, Len(s)) = SubSeq(t, 1, Len(s))
    BY <1>1, <1>2, <1>3, SeqEqual
<1> QED
    BY <1>4 DEF K!IsPrefix

LEMMA PrefixOfConcat ==
    ASSUME NEW S, NEW s \in Seq(S), NEW t \in Seq(S)
    PROVE  K!IsPrefix(s, s \o t)
<1>1. s \o t \in Seq(S) /\ Len(s) <= Len(s \o t) /\ \A i \in 1..Len(s) : s[i] = (s \o t)[i]
    OBVIOUS
<1> QED
    BY <1>1, PrefixOf

\* The local client keeps such a key inside its root.
LEMMA KeyInRoot ==
    ASSUME NEW key \in Paths, Named(key.segs)
    PROVE  K!FixFilePath(Root, key) = K!Path(TRUE, Root.segs \o key.segs)
<1> DEFINE p == K!Path(TRUE, Root.segs \o key.segs)
<1>0. Root.segs = <<"srv", "files">> /\ Root.abs = TRUE
    BY DEF Root, K!Path
<1>1. Root.segs \in Seq(Segments) /\ Root.abs = TRUE
  <2>1. <<"srv", "files">> \in Seq(Segments)
      BY SegmentsHold
  <2> QED
      BY <1>0, <2>1, Zenon
<1>2. Named(Root.segs)
    BY <1>0, Blanks DEF Named
<1>3. key.segs \in Seq(Segments)
    BY DEF Paths
<1>4. p \in Paths /\ p.segs = Root.segs \o key.segs /\ p.abs = TRUE
    BY <1>1, <1>3 DEF Paths, K!Path
<1>5. K!Clean(key) = key /\ K!Clean(p) = p
    BY <1>1, <1>2, <1>3, <1>4, NamedConcat, CleanNamed
<1>6. K!IsPrefix(Root.segs, p.segs)
    BY <1>1, <1>3, <1>4, PrefixOfConcat
<1>7. K!Under(Root, p)
    BY <1>1, <1>4, <1>6 DEF K!Under
<1> QED
    BY <1>5, <1>7 DEF K!FixFilePath

\* An unescape undoes an escape of what is not an escape itself, and only of that.
LEMMA EscapedBack ==
    /\ \A s \in Segments : K!Escape(s) \in Segments /\ K!Unescape(s) \in Segments
    /\ \A s \in Segments : s # "sp" => K!Escape(s) = s
    /\ \A s \in Segments : s \notin {"pct61", "pct20"} <=> K!Unescape(K!Escape(s)) = s
<1>1. ASSUME NEW s \in Segments PROVE K!Escape(s) \in Segments /\ K!Unescape(s) \in Segments
  <2>1. K!Escape(s) \in {"pct20", s} /\ K!Unescape(s) \in {"sp", "a", s}
      BY DEF K!Escape, K!Unescape
  <2>2. "pct20" \in Segments /\ "sp" \in Segments /\ "a" \in Segments
      BY SegmentsHold
  <2> QED
      BY <2>1, <2>2, Zenon
<1>2. \A s \in Segments : s # "sp" => K!Escape(s) = s
    BY DEF K!Escape
<1>3. \A s \in Segments : s \notin {"pct61", "pct20"} <=> K!Unescape(K!Escape(s)) = s
    BY DEF K!Escape, K!Unescape
<1> QED
    BY <1>1, <1>2, <1>3

\* A URL is the server's path and the key, escaped and not cleaned away.
LEMMA UrlOfKey ==
    ASSUME NEW server \in Servers, NEW key \in Paths, Named(key.segs)
    PROVE  LET all == server.segs \o key.segs
           IN  K!GenerateURL(server, key) = [server EXCEPT !.segs = [i \in 1..Len(all) |-> K!Escape(all[i])]]
<1> DEFINE p == K!Path(TRUE, server.segs \o key.segs)
<1>1. server.segs \in Seq(STRING \ {K!Blank, ".", "..", "sp"})
    BY ServersAssumption
<1>2. server.segs \in Seq(Segments) /\ Named(server.segs)
  <2>1. \A i \in 1..Len(server.segs) : server.segs[i] \in STRING \ {K!Blank, ".", "..", "sp"}
      BY <1>1
  <2>2. \A i \in 1..Len(server.segs) : server.segs[i] \in Segments
      BY <2>1, SegmentsHold, Zenon
  <2>3. server.segs \in Seq(Segments)
      BY <1>1, <2>2
  <2> QED
      BY <2>1, <2>3 DEF Named
<1>3. key.segs \in Seq(Segments)
    BY DEF Paths
<1>4. p \in Paths /\ p.segs = server.segs \o key.segs
    BY <1>2, <1>3 DEF Paths, K!Path
<1>5. K!Clean(p) = p
    BY <1>2, <1>3, <1>4, NamedConcat, CleanNamed
<1> QED
    BY <1>4, <1>5 DEF K!GenerateURL, K!Url

\* SameHost compares the ports that a URL leads to.
LEMMA PortsMeet ==
    ASSUME NEW server, NEW other, NEW target,
           target.host = other.host, target.scheme = other.scheme, target.port = other.port
    PROVE  K!SameHost(target, server) <=> LeadsTo(server, other)
<1>1. \A scheme : K!DefaultPort(scheme) # K!Blank
    BY Blanks DEF K!DefaultPort
<1>2. K!EffectivePort(server) = IF server.port = K!Blank THEN K!DefaultPort(server.scheme) ELSE server.port
    BY DEF K!EffectivePort
<1>3. K!EffectivePort(other) = IF other.port = K!Blank THEN K!DefaultPort(other.scheme) ELSE other.port
    BY DEF K!EffectivePort
<1> QED
    BY <1>1, <1>2, <1>3 DEF K!SameHost, LeadsTo

\* A URL of a key gives the key back to its own server and to no other, without
\* the slash that begins it, and only if no name in it reads as an escape.
LEMMA KeyComesBack ==
    ASSUME NEW server \in Servers, NEW other \in Servers, NEW key \in Paths, Named(key.segs), NEW url,
           url = [K!GenerateURL(server, key) EXCEPT !.scheme = other.scheme, !.host = other.host,
                                                    !.port = other.port]
    PROVE  IF LeadsTo(server, other)
           THEN /\ Plain(key) => K!ExtractKey(server, url, TRUE) = K!Path(FALSE, key.segs)
                /\ (K!ExtractKey(server, url, TRUE) = key) <=> (Plain(key) /\ ~key.abs)
           ELSE K!ExtractKey(server, url, TRUE) = K!Reject
<1> DEFINE base == server.segs
           all == base \o key.segs
           esc == [i \in 1..Len(all) |-> K!Escape(all[i])]
           rest == SubSeq(esc, Len(base) + 1, Len(esc))
           read == K!Unescaped(rest)
<1>1. server \in [scheme : {"http", "https"}, host : STRING, port : STRING,
                   segs : Seq(STRING \ {K!Blank, ".", "..", "sp"})]
    BY ServersAssumption
<1>2. base \in Seq(Segments) /\ \A i \in 1..Len(base) : K!Escape(base[i]) = base[i]
  <2>1. \A i \in 1..Len(base) : base[i] \in STRING \ {K!Blank, ".", "..", "sp"}
      BY <1>1
  <2>2. \A i \in 1..Len(base) : base[i] \in Segments
      BY <2>1, SegmentsHold, Zenon
  <2>3. base \in Seq(Segments)
      BY <1>1, <2>2
  <2> QED
      BY <2>1, <2>2, <2>3, EscapedBack
<1>3. key.segs \in Seq(Segments)
    BY DEF Paths
<1>4. /\ all \in Seq(Segments) /\ Len(all) = Len(base) + Len(key.segs)
      /\ \A i \in 1..Len(base) : all[i] = base[i]
      /\ \A i \in 1..Len(key.segs) : all[Len(base) + i] = key.segs[i]
  <2> HIDE DEF base
  <2> QED
      BY <1>2, <1>3
<1>5. esc \in Seq(Segments) /\ Len(esc) = Len(all) /\ \A i \in 1..Len(all) : esc[i] = K!Escape(all[i])
  <2> HIDE DEF all, base
  <2>0. all \in Seq(Segments)
      BY <1>4
  <2>1. ASSUME NEW i \in 1..Len(all) PROVE K!Escape(all[i]) \in Segments
    <3>1. all[i] \in Segments
        BY <2>0
    <3> QED
        BY <3>1, EscapedBack, Zenon
  <2>2. esc \in [1..Len(all) -> Segments]
      BY <2>1
  <2>3. Len(all) \in Nat
      BY <2>0
  <2>4. \A i \in 1..Len(all) : esc[i] = K!Escape(all[i])
      OBVIOUS
  <2> HIDE DEF esc
  <2> QED
      BY <2>2, <2>3, <2>4
<1>6. url.segs = esc /\ url.host = other.host /\ url.scheme = other.scheme /\ url.port = other.port
  <2>1. K!GenerateURL(server, key) = [server EXCEPT !.segs = esc]
      BY UrlOfKey
  <2> HIDE DEF esc
  <2> QED
      BY <1>1, <2>1
<1>7. K!IsPrefix(base, url.segs)
  <2> HIDE DEF base, all, esc
  <2>1. Len(base) <= Len(esc) /\ \A i \in 1..Len(base) : base[i] = esc[i]
      BY <1>2, <1>3, <1>4, <1>5
  <2> QED
      BY <1>2, <1>5, <1>6, <2>1, PrefixOf
<1>8. K!SameHost(url, server) <=> LeadsTo(server, other)
  <2>1. url.host = other.host /\ url.scheme = other.scheme /\ url.port = other.port
      BY <1>6
  <2> HIDE <1>6
  <2> HIDE DEF base, all, esc, rest, read
  <2>2. ASSUME NEW target, target.host = other.host, target.scheme = other.scheme, target.port = other.port
        PROVE  K!SameHost(target, server) <=> LeadsTo(server, other)
      BY <2>2, PortsMeet
  <2> QED
      BY <2>1, <2>2
<1>9. K!ExtractKey(server, url, TRUE) = IF LeadsTo(server, other) THEN K!Path(FALSE, read) ELSE K!Reject
  <2> HIDE DEF esc, all
  <2>1. rest = SubSeq(url.segs, Len(server.segs) + 1, Len(url.segs))
      BY <1>6
  <2>2. CASE K!SameHost(url, server)
    <3>1. K!ExtractKey(server, url, TRUE) = K!Path(FALSE, read)
      <4>1. K!IsPrefix(server.segs, url.segs)
          BY <1>7
      <4>2. K!ExtractKey(server, url, TRUE) =
                K!Path(FALSE, K!Unescaped(SubSeq(url.segs, Len(server.segs) + 1, Len(url.segs))))
          BY <4>1, <2>2 DEF K!ExtractKey
      <4> QED
          BY <4>2, <2>1
    <3> HIDE DEF read
    <3> QED
        BY <3>1, <2>2, <1>8
  <2>3. CASE ~K!SameHost(url, server)
    <3>1. K!ExtractKey(server, url, TRUE) = K!Reject
        BY <2>3, Zenon DEF K!ExtractKey
    <3> HIDE DEF read
    <3> QED
        BY <3>1, <2>3, <1>8
  <2> QED
      BY <2>2, <2>3
<1>10. Plain(key) <=> read = key.segs
  <2>1. /\ rest \in Seq(Segments) /\ Len(rest) = Len(key.segs)
        /\ \A i \in 1..Len(key.segs) : rest[i] = esc[Len(base) + i]
    <3> HIDE DEF base, all, esc
    <3>1. Len(base) \in Nat /\ Len(key.segs) \in Nat /\ Len(esc) = Len(base) + Len(key.segs)
        BY <1>2, <1>3, <1>4, <1>5
    <3>2. \A i \in Len(base) + 1..Len(esc) : esc[i] \in Segments
        BY <3>1, <1>5
    <3> QED
        BY <3>1, <3>2, SubSeqProperties
  <2>2. ASSUME NEW i \in 1..Len(key.segs)
        PROVE  key.segs[i] \notin {"pct61", "pct20"} <=> K!Unescape(rest[i]) = key.segs[i]
    <3>1. rest[i] = K!Escape(key.segs[i])
      <4> HIDE DEF base, all, esc, rest
      <4>1. Len(base) \in Nat /\ Len(key.segs) \in Nat /\ Len(base) + i \in 1..Len(all)
          BY <1>2, <1>3, <1>4
      <4> QED
          BY <1>4, <1>5, <2>1, <4>1
    <3>2. key.segs[i] \in Segments
        BY <1>3
    <3> QED
        BY <3>1, <3>2, EscapedBack
  <2>3. Len(rest) = Len(key.segs)
      BY <2>1
  <2> HIDE DEF rest
  <2>4. read = [i \in 1..Len(key.segs) |-> K!Unescape(rest[i])]
      BY <2>3 DEF K!Unescaped
  <2>5. (\A i \in 1..Len(key.segs) : K!Unescape(rest[i]) = key.segs[i]) <=> read = key.segs
    <3>1. key.segs = [i \in 1..Len(key.segs) |-> key.segs[i]]
        BY <1>3
    <3> QED
        BY <2>4, <3>1
  <2> QED
      BY <2>2, <2>5 DEF Plain
<1> HIDE DEF read
<1>11. K!Path(FALSE, read) = key <=> ~key.abs /\ read = key.segs
    BY DEF K!Path, Paths
<1> QED
    BY <1>9, <1>10, <1>11

LEMMA NamedFile ==
    ASSUME NEW name \in Paths, NEW strategy, K!BuildUploadFileName(name, strategy) # K!Reject
    PROVE  K!BuildUploadFileName(name, strategy) \in Paths
<1>1. ASSUME NEW s \in Segments PROVE K!Path(FALSE, <<s>>) \in Paths
    BY DEF K!Path, Paths
<1>2. K!LastNamed(name.segs) \subseteq Segments
    BY DEF K!LastNamed, Paths
<1>3. \E s \in Segments : K!BuildUploadFileName(name, strategy) = K!Path(FALSE, <<s>>)
  <2>1. CASE strategy = "random_ext"
      BY <2>1, SegmentsHold DEF K!BuildUploadFileName
  <2>2. CASE strategy = "hash_ext"
      BY <2>2, SegmentsHold DEF K!BuildUploadFileName
  <2>3. CASE strategy \notin {"random_ext", "hash_ext"}
    <3>1. K!LastNamed(name.segs) # {}
        BY <2>3 DEF K!BuildUploadFileName
    <3>2. (CHOOSE s \in K!LastNamed(name.segs) : TRUE) \in Segments
        BY <3>1, <1>2
    <3> QED
        BY <2>3, <3>2 DEF K!BuildUploadFileName
  <2> QED
      BY <2>1, <2>2, <2>3
<1> QED
    BY <1>1, <1>3

LEMMA NamePaths ==
    Names \subseteq Paths
<1>1. ASSUME NEW p \in Names PROVE p \in Paths
  <2>1. p \in [abs : BOOLEAN, segs : Seq(STRING)]
      BY NamesAssumption
  <2>2. ASSUME NEW i \in 1..Len(p.segs) PROVE p.segs[i] \in Segments
    <3>1. p.segs[i] \in STRING
        BY <2>1
    <3> QED
        BY <3>1, SegmentsHold, Zenon
  <2>3. p.segs \in Seq(Segments)
      BY <2>1, <2>2
  <2> QED
      BY <2>1, <2>3 DEF Paths
<1> QED
    BY <1>1

LEMMA AuthorizeKeeps ==
    AuthorizeUpload => KeyLeadsBack'
<1> SUFFICES ASSUME NEW prefix \in Names, NEW dir \in Names, NEW name \in Names,
                    NEW strategy \in Strategies, NEW server \in Servers, NEW file, NEW key,
                    file = K!BuildUploadFileName(name, strategy),
                    key = IF file = K!Reject THEN K!Reject ELSE K!JoinUploadKey(prefix, dir, file),
                    call' = [op |-> "key", prefix |-> prefix, key |-> key, server |-> server,
                             url |-> K!GenerateURL(server, key)]
             PROVE  KeyLeadsBack'
    BY DEF AuthorizeUpload
<1>1. /\ call'.op = "key" /\ call'.prefix = prefix /\ call'.key = key /\ call'.server = server
      /\ call'.url = K!GenerateURL(server, key)
    OBVIOUS
<1>2. SUFFICES ASSUME key # K!Reject
               PROVE  /\ KeyUnderPrefix(key, prefix)
                      /\ K!FixFilePath(Root, key) = K!Path(TRUE, Root.segs \o key.segs)
                      /\ \A other \in Servers :
                            LET url == [K!GenerateURL(server, key) EXCEPT !.scheme = other.scheme,
                                                !.host = other.host, !.port = other.port]
                                k == K!ExtractKey(server, url, TRUE)
                            IN  IF LeadsTo(server, other)
                                THEN /\ Plain(key) => k = K!Path(FALSE, key.segs)
                                     /\ (k = key) <=> (Plain(key) /\ ~TwoSlashes(prefix))
                                ELSE k = K!Reject
    BY <1>1 DEF KeyLeadsBack
<1>3. prefix \in Paths /\ dir \in Paths /\ file \in Paths
    BY <1>2, NamePaths, NamedFile
<1>4. key \in Paths /\ KeyUnderPrefix(key, prefix) /\ (key.abs <=> TwoSlashes(prefix))
    BY <1>2, <1>3, JoinedKey
<1>5. Named(key.segs)
    BY <1>4 DEF KeyUnderPrefix, Named
<1>6. K!FixFilePath(Root, key) = K!Path(TRUE, Root.segs \o key.segs)
    BY <1>4, <1>5, KeyInRoot
<1> QED
    BY <1>4, <1>5, <1>6, KeyComesBack

\* Whatever the prefix, the directory, the name and the strategy are, a key
\* that GenerateUploadAuth hands out lies under the prefix and inside the local
\* root.  On the servers that its URL leads to ExtractKeyFromURL reads back the
\* key itself exactly if no name in it reads as an escape and the prefix does not
\* begin with two slashes; such a prefix costs it the slash it begins with.  The
\* other servers refuse the URL.
THEOREM KeysLeadBack == TextsSpec => []KeyLeadsBack
<1>1. TextsInit => KeyLeadsBack
  <2> SUFFICES ASSUME TextsInit PROVE KeyLeadsBack
      OBVIOUS
  <2>1. call.op # "key"
      BY DEF TextsInit
  <2> QED
      BY <2>1, Zenon DEF KeyLeadsBack
<1>2. KeyLeadsBack /\ [TextsNext]_textsVars => KeyLeadsBack'
  <2> SUFFICES ASSUME KeyLeadsBack, [TextsNext]_textsVars PROVE KeyLeadsBack'
      OBVIOUS
  <2>1. CASE EncodeData
    <3>1. call'.op # "key"
        BY <2>1 DEF EncodeData
    <3> QED
        BY <3>1, Zenon DEF KeyLeadsBack
  <2>2. CASE EncodeNumber
    <3>1. call'.op # "key"
        BY <2>2 DEF EncodeNumber
    <3> QED
        BY <3>1, Zenon DEF KeyLeadsBack
  <2>3. CASE AuthorizeUpload
      BY <2>3, AuthorizeKeeps
  <2>4. CASE UNCHANGED call
      BY <2>4 DEF KeyLeadsBack
  <2> QED
      BY <2>1, <2>2, <2>3, <2>4 DEF TextsNext, textsVars
<1> QED
    BY <1>1, <1>2, PTL DEF TextsSpec

-----------------------------------------------------------------------------
(* Digits and their value.                                                   *)

\* The number a text of digits stands for in base b, digit by digit.
Values(s, b) == LET v[i \in 0..Len(s)] == IF i = 0 THEN 0 ELSE v[i - 1] * b + s[i] IN v
Value(s, b) == Values(s, b)[Len(s)]

LEMMA Product ==
    ASSUME NEW x \in Nat, NEW y \in Nat
    PROVE  x * y \in Nat
    OBVIOUS

LEMMA Monotone ==
    ASSUME NEW x \in Nat, NEW y \in Nat, NEW p \in Nat, x <= y
    PROVE  x * p <= y * p
    OBVIOUS

LEMMA Element ==
    ASSUME NEW S, NEW s \in Seq(S), NEW i \in 1..Len(s)
    PROVE  s[i] \in S
    OBVIOUS

LEMMA ValuesLoop ==
    ASSUME NEW b \in Nat, NEW s \in Seq(Nat)
    PROVE  /\ Values(s, b)[0] = 0
           /\ \A i \in 0..Len(s) - 1 : Values(s, b)[i + 1] = Values(s, b)[i] * b + s[i + 1]
           /\ \A i \in 0..Len(s) : Values(s, b)[i] \in Nat
<1> DEFINE h == [i \in 1..Len(s) |-> [x \in Nat |-> x * b + s[i]]]
<1>1. h \in [1..Len(s) -> [Nat -> Nat]]
  <2>1. ASSUME NEW i \in 1..Len(s), NEW x \in Nat PROVE x * b + s[i] \in Nat
    <3>1. x * b \in Nat /\ s[i] \in Nat
        BY Product
    <3> QED
        BY <3>1
  <2> QED
      BY <2>1
<1>2. PICK f \in [0..Len(s) -> Nat] : Iterates(f, Len(s), 0, h)
  <2> HIDE DEF h
  <2>1. Len(s) \in Nat
      OBVIOUS
  <2>2. 0 \in Nat
      OBVIOUS
  <2> QED
      BY <1>1, <2>1, <2>2, Iterated
<1>3. ASSUME NEW i \in 1..Len(s) PROVE f[i] = f[i - 1] * b + s[i]
  <2>1. f[i] = h[i][f[i - 1]]
      BY <1>2 DEF Iterates
  <2>2. f[i - 1] \in Nat
    <3>1. i - 1 \in 0..Len(s)
        OBVIOUS
    <3> HIDE DEF h
    <3> QED
        BY <3>1
  <2>3. h[i] = [x \in Nat |-> x * b + s[i]]
      OBVIOUS
  <2> HIDE DEF h
  <2> QED
      BY <2>1, <2>2, <2>3
<1>4. f = [i \in 0..Len(s) |-> IF i = 0 THEN 0 ELSE f[i - 1] * b + s[i]]
    BY <1>2, <1>3 DEF Iterates
<1> DEFINE v == Values(s, b)
<1>5. v = [i \in 0..Len(s) |-> IF i = 0 THEN 0 ELSE v[i - 1] * b + s[i]]
    BY <1>4, Zenon DEF Values
<1> HIDE DEF v
<1>6. v[0] = 0
    BY <1>5
<1>7. ASSUME NEW i \in 0..Len(s) - 1 PROVE v[i + 1] = v[i] * b + s[i + 1]
  <2>1. i + 1 \in 0..Len(s) /\ i + 1 # 0 /\ (i + 1) - 1 = i
      OBVIOUS
  <2> QED
      BY <1>5, <2>1
<1> DEFINE T == {i \in Nat : i <= Len(s) => v[i] \in Nat}
<1>8. 0 \in T
    BY <1>6
<1>9. ASSUME NEW i \in Nat, i \in T PROVE i + 1 \in T
  <2> SUFFICES ASSUME i + 1 <= Len(s) PROVE v[i + 1] \in Nat
      OBVIOUS
  <2>1. v[i] \in Nat /\ i \in 0..Len(s) - 1 /\ s[i + 1] \in Nat
      BY <1>9
  <2>2. v[i] * b \in Nat
      BY <2>1, Product
  <2>3. v[i + 1] = v[i] * b + s[i + 1]
      BY <2>1, <1>7
  <2> QED
      BY <2>1, <2>2, <2>3
<1>10. Nat \subseteq T
  <2> HIDE DEF T
  <2> QED
      BY <1>8, <1>9, NatSet
<1>11. \A i \in 0..Len(s) : v[i] \in Nat
    BY <1>10
<1> QED
    BY <1>6, <1>7, <1>11, Zenon DEF v

\* The loop over the digits has one result.
LEMMA SameValues ==
    ASSUME NEW b \in Nat, NEW s \in Seq(Nat), NEW v, NEW n \in 0..Len(s), v[0] = 0,
           \A i \in 0..n - 1 : v[i + 1] = v[i] * b + s[i + 1]
    PROVE  v[n] = Values(s, b)[n]
<1> DEFINE T == {i \in Nat : i <= n => v[i] = Values(s, b)[i]}
<1>1. 0 \in T
    BY ValuesLoop
<1>2. ASSUME NEW i \in Nat, i \in T PROVE i + 1 \in T
  <2> SUFFICES ASSUME i + 1 <= n PROVE v[i + 1] = Values(s, b)[i + 1]
      OBVIOUS
  <2>1. v[i] = Values(s, b)[i] /\ i \in 0..Len(s) - 1 /\ i \in 0..n - 1
      BY <1>2
  <2> QED
      BY <2>1, ValuesLoop
<1>3. Nat \subseteq T
  <2> HIDE DEF T
  <2> QED
      BY <1>1, <1>2, NatSet
<1> QED
    BY <1>3

LEMMA ValueNat ==
    ASSUME NEW b \in Nat, NEW s \in Seq(Nat)
    PROVE  Value(s, b) \in Nat
    BY ValuesLoop DEF Value

LEMMA ValueEmpty ==
    ASSUME NEW b \in Nat
    PROVE  Value(<<>>, b) = 0
<1>1. <<>> \in Seq(Nat) /\ Len(<<>>) = 0
    OBVIOUS
<1> QED
    BY <1>1, ValuesLoop DEF Value

LEMMA ValueAppend ==
    ASSUME NEW b \in Nat, NEW s \in Seq(Nat), NEW d \in Nat
    PROVE  Value(Append(s, d), b) = Value(s, b) * b + d
<1> DEFINE t == Append(s, d)
<1>1. t \in Seq(Nat) /\ Len(t) = Len(s) + 1 /\ t[Len(s) + 1] = d /\ \A i \in 1..Len(s) : t[i] = s[i]
    OBVIOUS
<1> HIDE DEF t
<1>2. Values(t, b)[Len(s)] = Values(s, b)[Len(s)]
  <2>1. ASSUME NEW i \in 0..Len(s) - 1 PROVE Values(t, b)[i + 1] = Values(t, b)[i] * b + s[i + 1]
    <3>1. i \in 0..Len(t) - 1 /\ t[i + 1] = s[i + 1]
        BY <1>1
    <3> QED
        BY <1>1, <3>1, ValuesLoop
  <2>2. Values(t, b)[0] = 0 /\ Len(s) \in 0..Len(s)
      BY <1>1, ValuesLoop
  <2> QED
      BY <2>1, <2>2, SameValues
<1>3. Values(t, b)[Len(s) + 1] = Values(t, b)[Len(s)] * b + t[Len(s) + 1]
  <2>1. Len(s) \in 0..Len(t) - 1
      BY <1>1
  <2> QED
      BY <1>1, <2>1, ValuesLoop
<1> QED
    BY <1>1, <1>2, <1>3 DEF Value, t

LEMMA Quotient ==
    ASSUME NEW x \in Nat, NEW p \in Nat \ {0}
    PROVE  x = (x \div p) * p + (x % p) /\ x % p \in 0..p - 1 /\ x \div p \in Nat
    OBVIOUS

\* A quotient and a remainder are the only ones.
LEMMA OneQuotient ==
    ASSUME NEW x \in Nat, NEW y \in Nat, NEW p \in Nat \ {0}, NEW q \in 0..p - 1, NEW r \in 0..p - 1,
           x * p + q = y * p + r
    PROVE  x = y /\ q = r
    OBVIOUS

\* Texts of one length that stand for one number are the same.
LEMMA SameDigits ==
    ASSUME NEW b \in Nat \ {0}, NEW s \in Seq(0..b - 1), NEW t \in Seq(0..b - 1),
           Len(s) = Len(t), Value(s, b) = Value(t, b)
    PROVE  s = t
<1>0. s \in Seq(Nat) /\ t \in Seq(Nat) /\ b \in Nat
    OBVIOUS
<1> DEFINE n == Len(s)
           T == {k \in Nat : k <= n => /\ Values(s, b)[n - k] = Values(t, b)[n - k]
                                        /\ \A i \in 1..n : i > n - k => s[i] = t[i]}
<1>1. 0 \in T
    BY DEF Value
<1>2. ASSUME NEW k \in Nat, k \in T PROVE k + 1 \in T
  <2> SUFFICES ASSUME k + 1 <= n
               PROVE  /\ Values(s, b)[n - (k + 1)] = Values(t, b)[n - (k + 1)]
                      /\ \A i \in 1..n : i > n - (k + 1) => s[i] = t[i]
      OBVIOUS
  <2> DEFINE j == n - (k + 1)
  <2>1. j \in 0..n - 1 /\ n - k = j + 1 /\ j \in 0..Len(s) /\ j \in 0..Len(t)
      OBVIOUS
  <2>2. Values(s, b)[j + 1] = Values(t, b)[j + 1] /\ \A i \in 1..n : i > j + 1 => s[i] = t[i]
      BY <1>2, <2>1
  <2> HIDE DEF j
  <2>3. /\ Values(s, b)[j + 1] = Values(s, b)[j] * b + s[j + 1]
        /\ Values(t, b)[j + 1] = Values(t, b)[j] * b + t[j + 1]
      BY <1>0, <2>1, ValuesLoop
  <2>4. Values(s, b)[j] \in Nat /\ Values(t, b)[j] \in Nat
      BY <1>0, <2>1, ValuesLoop
  <2>5. s[j + 1] \in 0..b - 1 /\ t[j + 1] \in 0..b - 1
    <3>1. j + 1 \in 1..Len(s) /\ j + 1 \in 1..Len(t)
        BY <2>1
    <3> QED
        BY <3>1, Element, Zenon
  <2>6. Values(s, b)[j] = Values(t, b)[j] /\ s[j + 1] = t[j + 1]
    <3>1. \A x, y \in Nat, q, r \in 0..b - 1 : x * b + q = y * b + r => x = y /\ q = r
        BY OneQuotient
    <3>2. Values(s, b)[j] * b + s[j + 1] = Values(t, b)[j] * b + t[j + 1]
        BY <2>2, <2>3
    <3> DEFINE x == Values(s, b)[j]
               y == Values(t, b)[j]
               q == s[j + 1]
               r == t[j + 1]
    <3>3. x \in Nat /\ y \in Nat /\ q \in 0..b - 1 /\ r \in 0..b - 1 /\ x * b + q = y * b + r
        BY <2>4, <2>5, <3>2
    <3>4. x = y /\ q = r
      <4> HIDE DEF x, y, q, r
      <4> QED
          BY <3>1, <3>3
    <3> QED
        BY <3>4
  <2>7. ASSUME NEW i \in 1..n, i > j PROVE s[i] = t[i]
    <3>1. i = j + 1 \/ i > j + 1
        BY <2>1, <2>7
    <3> QED
        BY <3>1, <2>2, <2>6
  <2> QED
      BY <2>6, <2>7 DEF j
<1>3. n \in T
  <2>0. n \in Nat
      OBVIOUS
  <2>1. Nat \subseteq T
    <3> HIDE DEF T
    <3> QED
        BY <1>1, <1>2, NatSet
  <2> HIDE DEF T, n
  <2> QED
      BY <2>0, <2>1
<1>4. \A i \in 1..n : s[i] = t[i]
    BY <1>3
<1> QED
    BY <1>4, SeqEqual

\* No leading zero.
Proper(s) == s # <<>> => s[1] # 0

LEMMA ZerosSeq ==
    ASSUME NEW n \in Nat
    PROVE  Zeros(n) \in Seq({0}) /\ Len(Zeros(n)) = n /\ \A i \in 1..n : Zeros(n)[i] = 0
    BY DEF Zeros

\* t is s after n zeros.
ZerosFirst(t, n, s) ==
    /\ Len(t) = n + Len(s)
    /\ \A i \in 1..n : t[i] = 0
    /\ \A i \in 1..Len(s) : t[n + i] = s[i]

LEMMA ZerosBefore ==
    ASSUME NEW n \in Nat, NEW S, 0 \in S, NEW s \in Seq(S)
    PROVE  Zeros(n) \o s \in Seq(S) /\ ZerosFirst(Zeros(n) \o s, n, s)
<1> DEFINE z == Zeros(n)
<1>1. z \in Seq(S) /\ Len(z) = n /\ \A i \in 1..n : z[i] = 0
  <2>1. z \in [1..n -> S]
      BY DEF Zeros
  <2>2. Len(z) = n /\ \A i \in 1..n : z[i] = 0
      BY ZerosSeq
  <2> HIDE DEF z
  <2> QED
      BY <2>1, <2>2
<1> HIDE DEF z
<1>2. z \o s \in Seq(S) /\ Len(z \o s) = n + Len(s)
    BY <1>1
<1>3. \A i \in 1..n : (z \o s)[i] = 0
    BY <1>1
<1>4. \A i \in 1..Len(s) : (z \o s)[n + i] = s[i]
    BY <1>1
<1> QED
    BY <1>2, <1>3, <1>4 DEF z, ZerosFirst

\* Zeros in front do not count.
LEMMA ValueZeros ==
    ASSUME NEW b \in Nat, NEW n \in Nat, NEW s \in Seq(Nat)
    PROVE  Value(Zeros(n) \o s, b) = Value(s, b)
<1> DEFINE t == Zeros(n) \o s
<1>0. t \in Seq(Nat) /\ ZerosFirst(t, n, s)
  <2>1. 0 \in Nat
      OBVIOUS
  <2> QED
      BY <2>1, ZerosBefore
<1>1. /\ t \in Seq(Nat) /\ Len(t) = n + Len(s) /\ Len(s) \in Nat
      /\ \A i \in 1..n : t[i] = 0
      /\ \A i \in 1..Len(s) : t[n + i] = s[i]
  <2> HIDE DEF t
  <2> QED
      BY <1>0 DEF ZerosFirst
<1> HIDE DEF t
<1> DEFINE Z == {i \in Nat : i <= n => Values(t, b)[i] = 0}
           T == {i \in Nat : i <= Len(s) => Values(t, b)[n + i] = Values(s, b)[i]}
<1>2. 0 \in Z
    BY <1>1, ValuesLoop
<1>3. ASSUME NEW i \in Nat, i \in Z PROVE i + 1 \in Z
  <2> SUFFICES ASSUME i + 1 <= n PROVE Values(t, b)[i + 1] = 0
      OBVIOUS
  <2>1. Values(t, b)[i] = 0 /\ i \in 0..Len(t) - 1 /\ t[i + 1] = 0
      BY <1>1, <1>3
  <2>2. Values(t, b)[i + 1] = Values(t, b)[i] * b + t[i + 1]
      BY <1>1, <2>1, ValuesLoop
  <2> QED
      BY <2>1, <2>2
<1>4. Nat \subseteq Z
  <2> HIDE DEF Z
  <2> QED
      BY <1>2, <1>3, NatSet
<1>5. 0 \in T
    BY <1>4, ValuesLoop
<1>6. ASSUME NEW i \in Nat, i \in T PROVE i + 1 \in T
  <2> SUFFICES ASSUME i + 1 <= Len(s) PROVE Values(t, b)[n + (i + 1)] = Values(s, b)[i + 1]
      OBVIOUS
  <2>1. Values(t, b)[n + i] = Values(s, b)[i] /\ i \in 0..Len(s) - 1
      BY <1>1, <1>6
  <2>2. t[(n + i) + 1] = s[i + 1] /\ n + i \in 0..Len(t) - 1 /\ n + (i + 1) = (n + i) + 1
    <3>1. i + 1 \in 1..Len(s) /\ n + (i + 1) = (n + i) + 1
        BY <2>1
    <3> QED
        BY <1>1, <3>1
  <2>3. Values(t, b)[(n + i) + 1] = Values(t, b)[n + i] * b + t[(n + i) + 1]
      BY <1>1, <2>2, ValuesLoop
  <2>4. Values(s, b)[i + 1] = Values(s, b)[i] * b + s[i + 1]
      BY <2>1, ValuesLoop
  <2> QED
      BY <2>1, <2>2, <2>3, <2>4
<1>7. Nat \subseteq T
  <2> HIDE DEF T
  <2> QED
      BY <1>5, <1>6, NatSet
<1> QED
    BY <1>1, <1>7 DEF Value, t

\* Texts without leading zeros that stand for one number are the same.
LEMMA SameProper ==
    ASSUME NEW b \in Nat \ {0}, NEW s \in Seq(0..b - 1), NEW t \in Seq(0..b - 1),
           Proper(s), Proper(t), Value(s, b) = Value(t, b)
    PROVE  s = t
<1>1. ASSUME NEW x \in Seq(0..b - 1), NEW y \in Seq(0..b - 1), Proper(y), Value(x, b) = Value(y, b),
             Len(x) <= Len(y)
      PROVE  x = y
  <2> DEFINE n == Len(y) - Len(x)
             z == Zeros(n) \o x
  <2>1. n \in Nat /\ x \in Seq(Nat) /\ b \in Nat /\ 0 \in 0..b - 1
      BY <1>1
  <2>2. z \in Seq(0..b - 1) /\ ZerosFirst(z, n, x)
    <3> HIDE DEF n
    <3> QED
        BY <2>1, ZerosBefore
  <2>3. Value(z, b) = Value(x, b)
    <3> HIDE DEF n
    <3> QED
        BY <2>1, ValueZeros
  <2>4. Len(z) = Len(y)
    <3> HIDE DEF z
    <3> QED
        BY <2>2 DEF ZerosFirst
  <2>5. z = y
    <3> HIDE DEF z
    <3> QED
        BY <2>2, <2>3, <2>4, <1>1, SameDigits
  <2>6. n = 0
    <3> SUFFICES ASSUME n # 0 PROVE FALSE
        OBVIOUS
    <3>1. 1 \in 1..n /\ y # <<>>
        BY <2>1
    <3> HIDE DEF z, n
    <3>2. y[1] = 0
        BY <2>2, <2>5, <3>1 DEF ZerosFirst
    <3> QED
        BY <3>1, <3>2, <1>1 DEF Proper
  <2>7. \A i \in 1..Len(x) : y[i] = x[i]
    <3> HIDE DEF z, n
    <3> QED
        BY <2>2, <2>5, <2>6 DEF ZerosFirst
  <2> QED
      BY <2>6, <2>7, SeqEqual
<1>2. Len(s) <= Len(t) \/ Len(t) <= Len(s)
    OBVIOUS
<1> QED
    BY <1>1, <1>2

-----------------------------------------------------------------------------
(* Powers of two.                                                            *)

\* Pow2 is what its recursive definition says: the function exists, as there
\* is one up to each number and they agree.
LEMMA Pow2Def ==
    B!Pow2 = [n \in Nat |-> IF n = 0 THEN 1 ELSE 2 * B!Pow2[n - 1]]
<1> DEFINE Upto(m, f) == f \in [0..m -> Nat] /\ f[0] = 1 /\ \A i \in 0..m - 1 : f[i + 1] = 2 * f[i]
<1>1. ASSUME NEW m \in Nat PROVE \E f : Upto(m, f)
  <2> DEFINE h == [i \in 1..m |-> [x \in Nat |-> 2 * x]]
  <2>1. h \in [1..m -> [Nat -> Nat]] /\ 1 \in Nat
      OBVIOUS
  <2>2. PICK f \in [0..m -> Nat] : Iterates(f, m, 1, h)
    <3> HIDE DEF h
    <3> QED
        BY <2>1, Iterated
  <2>3. ASSUME NEW i \in 0..m - 1 PROVE f[i + 1] = 2 * f[i]
    <3>1. i + 1 \in 1..m /\ (i + 1) - 1 = i /\ f[i] \in Nat
        OBVIOUS
    <3>2. h[i + 1] = [x \in Nat |-> 2 * x]
        BY <3>1
    <3> HIDE DEF h
    <3>3. f[i + 1] = h[i + 1][f[i]]
        BY <2>2, <3>1 DEF Iterates
    <3> QED
        BY <3>1, <3>2, <3>3
  <2> HIDE DEF h
  <2> QED
      BY <2>2, <2>3 DEF Iterates
<1> DEFINE p == [n \in Nat |-> (CHOOSE f : Upto(n, f))[n]]
<1>2. ASSUME NEW m \in Nat, NEW n \in Nat, NEW f, NEW g, Upto(m, f), Upto(n, g), m <= n
      PROVE  f[m] = g[m]
  <2> DEFINE T == {i \in Nat : i <= m => f[i] = g[i]}
  <2>1. 0 \in T
      BY <1>2
  <2>2. ASSUME NEW i \in Nat, i \in T PROVE i + 1 \in T
      BY <1>2, <2>2
  <2>3. Nat \subseteq T
    <3> HIDE DEF T
    <3> QED
        BY <2>1, <2>2, NatSet
  <2> QED
      BY <2>3
<1>3. ASSUME NEW n \in Nat PROVE Upto(n, CHOOSE f : Upto(n, f))
  <2> HIDE DEF Upto
  <2> QED
      BY <1>1
<1>4. p[0] = 1
    BY <1>3
<1>5. ASSUME NEW n \in Nat PROVE p[n + 1] = 2 * p[n]
  <2>1. PICK f : f = CHOOSE k : Upto(n, k)
      OBVIOUS
  <2>2. PICK g : g = CHOOSE k : Upto(n + 1, k)
      OBVIOUS
  <2>3. Upto(n, f) /\ Upto(n + 1, g)
    <3> HIDE DEF Upto
    <3> QED
        BY <1>3, <2>1, <2>2
  <2>4. f[n] = g[n]
    <3> HIDE DEF Upto
    <3> QED
        BY <2>3, <1>2
  <2>5. p[n] = f[n] /\ p[n + 1] = g[n + 1]
    <3> HIDE DEF Upto
    <3> QED
        BY <2>1, <2>2
  <2>6. g[n + 1] = 2 * g[n]
      BY <2>3
  <2> HIDE DEF p, Upto
  <2> QED
      BY <2>4, <2>5, <2>6
<1>6. \E f : f = [n \in Nat |-> IF n = 0 THEN 1 ELSE 2 * f[n - 1]]
  <2>1. ASSUME NEW n \in Nat PROVE p[n] = IF n = 0 THEN 1 ELSE 2 * p[n - 1]
    <3>1. CASE n = 0
        BY <3>1, <1>4
    <3>2. CASE n # 0
      <4>1. n - 1 \in Nat /\ (n - 1) + 1 = n
          BY <3>2
      <4> HIDE DEF p
      <4> QED
          BY <4>1, <1>5, <3>2
    <3> QED
        BY <3>1, <3>2
  <2>2. p = [n \in Nat |-> p[n]]
      OBVIOUS
  <2>3. p = [n \in Nat |-> IF n = 0 THEN 1 ELSE 2 * p[n - 1]]
    <3> HIDE DEF p
    <3> QED
        BY <2>1, <2>2
  <2> HIDE DEF p
  <2> QED
      BY <2>3
<1> QED
    BY <1>6, Zenon DEF B!Pow2

LEMMA Powers ==
    /\ B!Pow2[0] = 1
    /\ \A n \in Nat : B!Pow2[n + 1] = 2 * B!Pow2[n]
    /\ \A n \in Nat : B!Pow2[n] \in Nat \ {0}
<1> DEFINE p == B!Pow2
<1>0. p = [n \in Nat |-> IF n = 0 THEN 1 ELSE 2 * p[n - 1]]
    BY Pow2Def
<1> HIDE DEF p
<1>1. p[0] = 1
    BY <1>0
<1>2. ASSUME NEW n \in Nat PROVE p[n + 1] = 2 * p[n]
  <2>1. n + 1 \in Nat /\ n + 1 # 0 /\ (n + 1) - 1 = n
      OBVIOUS
  <2> QED
      BY <1>0, <2>1
<1> DEFINE T == {n \in Nat : p[n] \in Nat \ {0}}
<1>3. 0 \in T
    BY <1>1
<1>4. ASSUME NEW n \in Nat, n \in T PROVE n + 1 \in T
    BY <1>2, <1>4
<1>5. Nat \subseteq T
  <2> HIDE DEF T
  <2> QED
      BY <1>3, <1>4, NatSet
<1> QED
    BY <1>1, <1>2, <1>5 DEF p

LEMMA PowerSum ==
    ASSUME NEW m \in Nat, NEW n \in Nat
    PROVE  B!Pow2[m + n] = B!Pow2[m] * B!Pow2[n]
<1> DEFINE T == {i \in Nat : B!Pow2[m + i] = B!Pow2[m] * B!Pow2[i]}
<1>1. 0 \in T
    BY Powers
<1>2. ASSUME NEW i \in Nat, i \in T PROVE i + 1 \in T
  <2>1. B!Pow2[m + (i + 1)] = 2 * B!Pow2[m + i]
    <3>1. m + (i + 1) = (m + i) + 1 /\ m + i \in Nat
        OBVIOUS
    <3> QED
        BY <3>1, Powers
  <2>2. B!Pow2[i + 1] = 2 * B!Pow2[i]
      BY Powers
  <2>3. \A x, y \in Nat : 2 * (x * y) = x * (2 * y)
      OBVIOUS
  <2>4. B!Pow2[m] \in Nat /\ B!Pow2[i] \in Nat
      BY Powers
  <2>5. 2 * (B!Pow2[m] * B!Pow2[i]) = B!Pow2[m] * (2 * B!Pow2[i])
      BY <2>3, <2>4
  <2> QED
      BY <1>2, <2>1, <2>2, <2>5
<1>3. Nat \subseteq T
  <2> HIDE DEF T
  <2> QED
      BY <1>1, <1>2, NatSet
<1> QED
    BY <1>3

LEMMA SmallPowers ==
    /\ B!Pow2[1] = 2 /\ B!Pow2[2] = 4 /\ B!Pow2[3] = 8 /\ B!Pow2[4] = 16
    /\ B!Pow2[5] = 32 /\ B!Pow2[6] = 64 /\ B!Pow2[7] = 128 /\ B!Pow2[8] = 256
<1>1. B!Pow2[0 + 1] = 2 * B!Pow2[0] /\ B!Pow2[0] = 1
    BY Powers
<1>2. /\ B!Pow2[1 + 1] = 2 * B!Pow2[1] /\ B!Pow2[2 + 1] = 2 * B!Pow2[2]
      /\ B!Pow2[3 + 1] = 2 * B!Pow2[3] /\ B!Pow2[4 + 1] = 2 * B!Pow2[4]
      /\ B!Pow2[5 + 1] = 2 * B!Pow2[5] /\ B!Pow2[6 + 1] = 2 * B!Pow2[6]
      /\ B!Pow2[7 + 1] = 2 * B!Pow2[7]
    BY Powers
<1> QED
    BY <1>1, <1>2

-----------------------------------------------------------------------------
(* The groups of bits of the bitwise directions.                             *)

\* The digits of w bits, and what a loop over digits keeps of them.
Bits(w) == 0..B!Pow2[w] - 1
Buffers(w) == [buf : Nat, n : Nat, out : Seq(Bits(w))]

\* What the digits handed out and the buffer hold together.
Held(st, w) == Value(st.out, B!Pow2[w]) * B!Pow2[st.n] + st.buf

LEMMA Small ==
    ASSUME NEW x \in Nat, NEW p \in Nat, x < p
    PROVE  x % p = x
    OBVIOUS

LEMMA Modulo ==
    ASSUME NEW u \in Nat, NEW m \in Nat \ {0}, NEW k \in 0..m - 1, NEW x, x = u * m + k
    PROVE  x % m = k /\ x \div m = u
<1> DEFINE y == x \div m
           r == x % m
<1>0. x \in Nat
    OBVIOUS
<1>1. x = y * m + r /\ r \in 0..m - 1 /\ y \in Nat
    BY <1>0, Quotient
<1> HIDE DEF y, r
<1>2. y * m + r = u * m + k
    BY <1>1
<1>3. y = u /\ r = k
    BY <1>1, <1>2, OneQuotient
<1> QED
    BY <1>3 DEF y, r

LEMMA AppendAfter ==
    ASSUME NEW S, NEW s \in Seq(S), NEW t \in Seq(S), NEW d \in S
    PROVE  s \o Append(t, d) = Append(s \o t, d)
<1> DEFINE u == s \o Append(t, d)
           v == Append(s \o t, d)
<1>1. u \in Seq(S) /\ v \in Seq(S) /\ Len(u) = Len(s) + Len(t) + 1 /\ Len(v) = Len(s) + Len(t) + 1
    OBVIOUS
<1>2. \A i \in 1..Len(u) : u[i] = v[i]
    OBVIOUS
<1> QED
    BY <1>1, <1>2, SeqEqual

\* Some bits are those above and those below.
LEMMA TwoDigits ==
    ASSUME NEW x \in Nat, NEW p \in Nat \ {0}, NEW q \in Nat \ {0}
    PROVE  x % (q * p) = ((x \div p) % q) * p + (x % p)
<1> DEFINE y == x \div p
           r == x % p
           u == y \div q
           d == y % q
<1>1. x = y * p + r /\ r \in 0..p - 1 /\ y \in Nat
    BY Quotient
<1> HIDE DEF y, r
<1>2. y = u * q + d /\ d \in 0..q - 1 /\ u \in Nat
    BY <1>1, Quotient
<1> HIDE DEF u, d
<1>3. q * p \in Nat \ {0}
    OBVIOUS
<1>4. x = u * (q * p) + (d * p + r)
    BY <1>1, <1>2
<1>5. d * p + r \in 0..q * p - 1
  <2>1. d * p <= (q - 1) * p /\ d * p \in Nat
      BY <1>2
  <2>2. (q - 1) * p = q * p - p
      OBVIOUS
  <2> QED
      BY <1>1, <1>2, <1>3, <2>1, <2>2
<1>6. x % (q * p) = d * p + r
  <2> DEFINE m == q * p
             k == d * p + r
  <2>1. u \in Nat /\ m \in Nat \ {0} /\ k \in 0..m - 1 /\ x = u * m + k
      BY <1>2, <1>3, <1>4, <1>5
  <2> HIDE DEF m, k
  <2>2. x % m = k
      BY <2>1, Modulo
  <2> QED
      BY <2>2 DEF m, k
<1> QED
    BY <1>6 DEF d, y, r

\* Handing out digits loses nothing: what leaves the buffer joins the output.
LEMMA EmitHolds ==
    ASSUME NEW w \in Nat \ {0}, NEW st \in Buffers(w), st.buf < B!Pow2[st.n]
    PROVE  LET e == B!Emit(st, w)
           IN  /\ e \in Buffers(w) /\ e.n < w /\ e.buf < B!Pow2[e.n]
               /\ Held(e, w) = Held(st, w)
               /\ Len(e.out) * w + e.n = Len(st.out) * w + st.n
<1> DEFINE P == B!Pow2
           e == B!Emit(st, w)
           n == st.n
           c == n \div w
           digit == [i \in 1..c |-> (st.buf \div P[n - i * w]) % P[w]]
<1>1. /\ st.buf \in Nat /\ n \in Nat /\ st.out \in Seq(Bits(w))
      /\ n = c * w + (n % w) /\ n % w \in 0..w - 1 /\ c \in Nat
    BY Quotient DEF Buffers
<1>2. e = [buf |-> st.buf % P[n % w], n |-> n % w, out |-> st.out \o digit]
    BY DEF B!Emit
<1> HIDE DEF P, e, n, c
<1>3. P[w] \in Nat \ {0} /\ \A m \in Nat : P[m] \in Nat \ {0}
    BY Powers DEF P
<1>4. ASSUME NEW i \in 1..c PROVE n - i * w \in Nat /\ i * w \in Nat
  <2>1. i * w <= c * w /\ i * w \in Nat /\ c * w \in Nat
      BY <1>1
  <2> QED
      BY <1>1, <2>1
<1>5. ASSUME NEW i \in 1..c PROVE digit[i] \in Bits(w)
  <2>1. P[n - i * w] \in Nat \ {0}
      BY <1>3, <1>4
  <2>2. st.buf \div P[n - i * w] \in Nat
      BY <1>1, <2>1, Quotient
  <2>3. digit[i] = (st.buf \div P[n - i * w]) % P[w]
      OBVIOUS
  <2> HIDE DEF digit
  <2> QED
      BY <1>3, <2>2, <2>3, Quotient DEF Bits, P
<1>6. digit \in Seq(Bits(w)) /\ Len(digit) = c
  <2>1. digit \in [1..c -> Bits(w)]
      BY <1>5
  <2> HIDE DEF digit
  <2> QED
      BY <1>1, <2>1
<1> DEFINE X(i) == st.out \o SubSeq(digit, 1, i)
           T == {i \in Nat :
                    i <= c => /\ X(i) \in Seq(Bits(w))
                              /\ n - i * w \in Nat
                              /\ Value(X(i), P[w]) * P[n - i * w] + (st.buf % P[n - i * w]) = Held(st, w)}
<1>7. 0 \in T
  <2>1. SubSeq(digit, 1, 0) = <<>>
    <3> HIDE DEF digit
    <3> QED
        BY <1>6
  <2>2. X(0) = st.out
      BY <1>1, <2>1
  <2>3. n - 0 * w = n
      BY <1>1
  <2>4. st.buf % P[n] = st.buf
    <3>1. P[n] \in Nat /\ st.buf < P[n]
        BY <1>1, <1>3 DEF P, n
    <3> QED
        BY <1>1, <3>1, Small
  <2> HIDE DEF X
  <2> QED
      BY <1>1, <2>2, <2>3, <2>4 DEF Held, P, n
<1>8. ASSUME NEW i \in Nat, i \in T PROVE i + 1 \in T
  <2> SUFFICES ASSUME i + 1 <= c
               PROVE  /\ X(i + 1) \in Seq(Bits(w))
                      /\ n - (i + 1) * w \in Nat
                      /\ Value(X(i + 1), P[w]) * P[n - (i + 1) * w] + (st.buf % P[n - (i + 1) * w])
                            = Held(st, w)
      OBVIOUS
  <2> DEFINE r == n - (i + 1) * w
  <2>1. i + 1 \in 1..c /\ i <= c
      BY <1>1
  <2>2. /\ X(i) \in Seq(Bits(w))
        /\ Value(X(i), P[w]) * P[n - i * w] + (st.buf % P[n - i * w]) = Held(st, w)
      BY <1>8, <2>1
  <2>3. r \in Nat
      BY <1>4, <2>1
  <2>4. n - i * w = w + r
    <3>1. (i + 1) * w = i * w + w /\ i * w \in Nat
        OBVIOUS
    <3> QED
        BY <1>1, <3>1
  <2>5. digit[i + 1] = (st.buf \div P[r]) % P[w] /\ digit[i + 1] \in Bits(w)
      BY <2>1, <1>5
  <2>6. X(i + 1) = Append(X(i), digit[i + 1])
    <3> HIDE DEF digit
    <3>1. SubSeq(digit, 1, i + 1) = Append(SubSeq(digit, 1, i), digit[i + 1])
        BY <1>6, <2>1
    <3>2. SubSeq(digit, 1, i) \in Seq(Bits(w))
        BY <1>6, <2>1, SubSeqProperties
    <3>3. st.out \o Append(SubSeq(digit, 1, i), digit[i + 1]) =
              Append(st.out \o SubSeq(digit, 1, i), digit[i + 1])
      <4> DEFINE u == SubSeq(digit, 1, i)
                 z == digit[i + 1]
      <4>1. u \in Seq(Bits(w)) /\ st.out \in Seq(Bits(w)) /\ z \in Bits(w)
          BY <3>2, <1>1, <2>5
      <4> HIDE DEF u, z, X, T
      <4>2. ASSUME NEW Q, NEW s, s \in Seq(Q), u \in Seq(Q), z \in Q
            PROVE  s \o Append(u, z) = Append(s \o u, z)
          BY <4>2, AppendAfter
      <4>3. st.out \o Append(u, z) = Append(st.out \o u, z)
          BY <4>1, <4>2
      <4> QED
          BY <4>3 DEF u, z
    <3> QED
        BY <3>1, <3>3
  <2> DEFINE V == Value(X(i), P[w])
             d == digit[i + 1]
             x == st.buf % P[r]
  <2>7. V \in Nat /\ Value(X(i + 1), P[w]) = V * P[w] + d
    <3> HIDE DEF X, digit, T
    <3>1. X(i) \in Seq(Nat) /\ P[w] \in Nat /\ d \in Nat
        BY <1>3, <2>2, <2>5 DEF Bits, P
    <3> QED
        BY <2>6, <3>1, ValueNat, ValueAppend
  <2>8. X(i + 1) \in Seq(Bits(w))
    <3> HIDE DEF X, digit
    <3> QED
        BY <2>2, <2>5, <2>6
  <2>9. P[w + r] = P[w] * P[r] /\ P[r] \in Nat \ {0}
      BY <1>3, <2>3, PowerSum DEF P
  <2> HIDE DEF r
  <2>10. st.buf % (P[w] * P[r]) = d * P[r] + x
    <3>1. st.buf % (P[w] * P[r]) = ((st.buf \div P[r]) % P[w]) * P[r] + (st.buf % P[r])
        BY <1>1, <1>3, <2>9, TwoDigits
    <3> HIDE DEF digit, X, T
    <3> QED
        BY <2>5, <3>1
  <2>11. V * (P[w] * P[r]) + (d * P[r] + x) = Held(st, w)
    <3> HIDE DEF X, digit, d, x
    <3> QED
        BY <2>2, <2>4, <2>9, <2>10
  <2>12. x \in Nat /\ d \in Nat
    <3>1. x \in Nat
      <4> HIDE DEF digit, X, T
      <4>1. st.buf % P[r] \in 0..P[r] - 1
          BY <1>1, <2>9, Quotient
      <4> QED
          BY <4>1, <2>9
    <3>2. d \in Nat
      <4>1. \A q \in Nat : \A k \in 0..q - 1 : k \in Nat
          OBVIOUS
      <4>2. Bits(w) = 0..P[w] - 1
          BY Zenon DEF Bits, P
      <4> HIDE DEF digit, X, T
      <4>3. P[w] \in Nat
          BY <1>3, Zenon
      <4>4. d \in 0..P[w] - 1
          BY <2>5, <4>2, Zenon
      <4> HIDE DEF d
      <4> QED
          BY <4>1, <4>3, <4>4, Zenon
    <3> QED
        BY <3>1, <3>2
  <2>13. (V * P[w] + d) * P[r] + x = V * (P[w] * P[r]) + (d * P[r] + x)
    <3> DEFINE p == P[w]
               q == P[r]
    <3>1. p \in Nat /\ q \in Nat
        BY <1>3, <2>9
    <3> HIDE DEF V, d, x, p, q
    <3>2. (V * p + d) * q + x = V * (p * q) + (d * q + x)
        BY <2>7, <2>12, <3>1
    <3> QED
        BY <3>2 DEF p, q
  <2> HIDE DEF X, V, d
  <2> QED
      BY <2>3, <2>7, <2>8, <2>11, <2>13 DEF r
<1>9. Nat \subseteq T
  <2> HIDE DEF T
  <2> QED
      BY <1>7, <1>8, NatSet
<1>10. n - c * w = n % w
  <2>1. c * w \in Nat
      BY <1>1
  <2> QED
      BY <1>1, <2>1
<1>11. X(c) = e.out
  <2>1. SubSeq(digit, 1, c) = digit
    <3> HIDE DEF digit
    <3> QED
        BY <1>1, <1>6
  <2> QED
      BY <1>2, <2>1
<1>12. /\ X(c) \in Seq(Bits(w))
       /\ Value(X(c), P[w]) * P[n % w] + (st.buf % P[n % w]) = Held(st, w)
  <2>1. c \in T /\ c <= c
    <3> HIDE DEF T
    <3> QED
        BY <1>1, <1>9
  <2> HIDE DEF X
  <2> QED
      BY <2>1, <1>10
<1>13. e.n = n % w /\ e.buf = st.buf % P[n % w] /\ e = [buf |-> e.buf, n |-> e.n, out |-> e.out]
    BY <1>2
<1>14. e.buf \in Nat /\ e.buf < P[e.n] /\ e.n < w /\ e.n \in Nat
  <2>1. n % w \in Nat /\ n % w < w
      BY <1>1
  <2>2. P[n % w] \in Nat \ {0}
      BY <1>3, <2>1
  <2>3. st.buf % P[n % w] \in 0..P[n % w] - 1
      BY <1>1, <2>2, Quotient
  <2> HIDE DEF X, T, digit
  <2> QED
      BY <1>13, <2>1, <2>2, <2>3
<1>15. Len(e.out) = Len(st.out) + c
  <2>1. e.out = st.out \o digit
      BY <1>2
  <2> HIDE DEF digit, X, T
  <2> QED
      BY <1>1, <1>6, <2>1, ConcatProperties
<1>16. Len(e.out) * w + e.n = Len(st.out) * w + n
  <2> DEFINE a == Len(st.out)
  <2>1. a \in Nat
      BY <1>1
  <2>2. Len(e.out) = a + c
      BY <1>15
  <2> HIDE DEF a, X, T, digit
  <2>3. (a + c) * w = a * w + c * w /\ a * w \in Nat /\ c * w \in Nat
      BY <1>1, <2>1
  <2>4. Len(e.out) * w + e.n = a * w + n
      BY <1>1, <1>13, <2>2, <2>3
  <2> QED
      BY <2>4 DEF a
<1>17. e \in Buffers(w) /\ Held(e, w) = Held(st, w)
  <2> HIDE DEF X
  <2> QED
      BY <1>11, <1>12, <1>13, <1>14 DEF Buffers, Held, P
<1> QED
    BY <1>14, <1>16, <1>17 DEF e, P, n

\* Between the steps of the loop less than a digit is left in the buffer.
Rests(w) == {st \in Buffers(w) : st.n < w /\ st.buf < B!Pow2[st.n]}

LEMMA BitsSeq ==
    ASSUME NEW w \in Nat, NEW s \in Seq(Bits(w))
    PROVE  s \in Seq(Nat) /\ B!Pow2[w] \in Nat \ {0}
<1>1. \A i \in 1..Len(s) : s[i] \in Nat
  <2>1. B!Pow2[w] \in Nat
      BY Powers
  <2>2. \A i \in 1..Len(s) : s[i] \in Bits(w)
      OBVIOUS
  <2> QED
      BY <2>1, <2>2 DEF Bits
<1>2. s \in Seq(Nat)
    BY <1>1
<1> QED
    BY <1>2, Powers

\* A digit that is taken in adds its bits to what is held.
LEMMA StepHolds ==
    ASSUME NEW w \in Nat \ {0}, NEW a \in Nat, NEW st \in Rests(w), NEW v \in Bits(a)
    PROVE  LET e == B!Emit(B!Shift(st, v, a), w)
           IN  /\ e \in Rests(w)
               /\ Held(e, w) = Held(st, w) * B!Pow2[a] + v
               /\ Len(e.out) * w + e.n = Len(st.out) * w + st.n + a
<1> DEFINE s == B!Shift(st, v, a)
           p == B!Pow2[a]
           q == B!Pow2[st.n]
           x == Value(st.out, B!Pow2[w])
<1>1. st.buf \in Nat /\ st.n \in Nat /\ st.out \in Seq(Bits(w)) /\ st.buf < B!Pow2[st.n]
    BY DEF Rests, Buffers
<1>2. /\ s.buf = st.buf * p + v /\ s.n = st.n + a /\ s.out = st.out
      /\ s = [buf |-> s.buf, n |-> s.n, out |-> s.out]
    BY DEF B!Shift
<1>3. p \in Nat \ {0} /\ q \in Nat \ {0} /\ v \in 0..p - 1
    BY <1>1, Powers DEF Bits
<1>4. B!Pow2[s.n] = q * p
    BY <1>1, <1>2, PowerSum
<1>5. x \in Nat
  <2>1. st.out \in Seq(Nat) /\ B!Pow2[w] \in Nat
      BY <1>1, BitsSeq
  <2> QED
      BY <2>1, ValueNat
<1> HIDE DEF s
<1>6. Held(s, w) = x * (q * p) + (st.buf * p + v) /\ Held(st, w) = x * q + st.buf
    BY <1>2, <1>4 DEF Held
<1> HIDE DEF p, q, x
<1>7. s.buf \in Nat /\ s.buf < q * p
  <2>1. st.buf <= q - 1
      BY <1>1, <1>3 DEF q
  <2> DEFINE y == st.buf
  <2>0. y \in Nat /\ p \in Nat /\ q - 1 \in Nat /\ y <= q - 1
      BY <1>1, <1>3, <2>1
  <2>2. st.buf * p <= (q - 1) * p /\ st.buf * p \in Nat
    <3> HIDE DEF y
    <3>1. \A k \in Nat : k = q - 1 => y * p <= k * p /\ y * p \in Nat
        BY <2>0, Product, Monotone
    <3>2. y * p <= (q - 1) * p /\ y * p \in Nat
        BY <2>0, <3>1
    <3> QED
        BY <3>2 DEF y
  <2>3. (q - 1) * p = q * p - p /\ q * p \in Nat
      BY <1>3
  <2> QED
      BY <1>2, <1>3, <2>2, <2>3
<1>8. x * (q * p) + (st.buf * p + v) = (x * q + st.buf) * p + v
  <2>1. \A b, d, f, g, k \in Nat : b * (d * f) + (g * f + k) = (b * d + g) * f + k
      OBVIOUS
  <2> QED
      BY <1>1, <1>3, <1>5, <2>1
<1>9. s \in Buffers(w)
    BY <1>1, <1>2, <1>7 DEF Buffers
<1> DEFINE e == B!Emit(s, w)
<1>10. /\ e \in Buffers(w) /\ e.n < w /\ e.buf < B!Pow2[e.n]
       /\ Held(e, w) = Held(s, w)
       /\ Len(e.out) * w + e.n = Len(s.out) * w + s.n
  <2>1. s.buf < B!Pow2[s.n]
      BY <1>4, <1>7
  <2> QED
      BY <1>9, <2>1, EmitHolds
<1> HIDE DEF e
<1>11. Held(e, w) = Held(st, w) * p + v
    BY <1>6, <1>8, <1>10
<1>12. Len(e.out) * w + e.n = Len(st.out) * w + st.n + a
  <2>1. Len(st.out) * w \in Nat
      BY <1>1
  <2> QED
      BY <1>1, <1>2, <1>10, <2>1
<1> QED
    BY <1>10, <1>11, <1>12 DEF e, s, p, Rests

\* All the digits of the input are held at the end, no more and no less bits
\* than they have.
LEMMA RegroupHolds ==
    ASSUME NEW w \in Nat \ {0}, NEW a \in Nat, NEW digits \in Seq(Bits(a))
    PROVE  LET r == B!Regroup(digits, a, w)
           IN  /\ r \in Rests(w)
               /\ Held(r, w) = Value(digits, B!Pow2[a])
               /\ Len(r.out) * w + r.n = Len(digits) * a
<1> DEFINE S == Rests(w)
           zero == [buf |-> 0, n |-> 0, out |-> <<>>]
           step(st, i) == B!Emit(B!Shift(st, digits[i], a), w)
           h == [i \in 1..Len(digits) |-> [st \in S |-> step(st, i)]]
<1>1. zero \in S /\ Held(zero, w) = 0 /\ Len(zero.out) * w + zero.n = 0
  <2>1. Value(<<>>, B!Pow2[w]) = 0
      BY Powers, ValueEmpty
  <2>2. zero \in Buffers(w) /\ B!Pow2[0] = 1
      BY Powers DEF Buffers
  <2> QED
      BY <2>1, <2>2 DEF Rests, Held
<1>2. ASSUME NEW i \in 1..Len(digits), NEW st \in S PROVE step(st, i) \in S
  <2>1. digits[i] \in Bits(a)
      OBVIOUS
  <2> QED
      BY <2>1, StepHolds
<1>3. Len(digits) \in Nat
    OBVIOUS
<1>4. \E f : f = [i \in 0..Len(digits) |-> IF i = 0 THEN zero ELSE step(f[i - 1], i)]
  <2> HIDE DEF S, step, zero
  <2>1. h \in [1..Len(digits) -> [S -> S]]
      BY <1>2
  <2>2. PICK f \in [0..Len(digits) -> S] : Iterates(f, Len(digits), zero, h)
    <3> HIDE DEF h
    <3> QED
        BY <1>1, <1>3, <2>1, Iterated
  <2>3. ASSUME NEW i \in 1..Len(digits) PROVE f[i] = step(f[i - 1], i)
    <3>1. i - 1 \in 0..Len(digits) /\ h[i] = [st \in S |-> step(st, i)]
        OBVIOUS
    <3> HIDE DEF h
    <3>2. f[i] = h[i][f[i - 1]] /\ f[i - 1] \in S
        BY <2>2, <3>1 DEF Iterates
    <3> QED
        BY <3>1, <3>2
  <2> HIDE DEF h
  <2>4. f = [i \in 0..Len(digits) |-> IF i = 0 THEN zero ELSE step(f[i - 1], i)]
      BY <2>2, <2>3 DEF Iterates
  <2> QED
      BY <2>4
<1>5. \E f : /\ B!Regroup(digits, a, w) = f[Len(digits)]
             /\ f = [i \in 0..Len(digits) |-> IF i = 0 THEN zero ELSE step(f[i - 1], i)]
    BY <1>4, Zenon DEF B!Regroup
<1> HIDE DEF step, zero, h
<1>6. PICK f : /\ B!Regroup(digits, a, w) = f[Len(digits)]
               /\ f = [i \in 0..Len(digits) |-> IF i = 0 THEN zero ELSE step(f[i - 1], i)]
    BY <1>5
<1> DEFINE V == Values(digits, B!Pow2[a])
           T == {i \in Nat : i <= Len(digits) => /\ f[i] \in S /\ Held(f[i], w) = V[i]
                                                 /\ Len(f[i].out) * w + f[i].n = i * a}
<1>7. V[0] = 0 /\ \A i \in 0..Len(digits) - 1 : V[i + 1] = V[i] * B!Pow2[a] + digits[i + 1]
  <2>1. digits \in Seq(Nat) /\ B!Pow2[a] \in Nat
      BY BitsSeq
  <2> QED
      BY <2>1, ValuesLoop
<1> HIDE DEF V, S
<1>8. 0 \in T
  <2>1. f[0] = zero
      BY <1>3, <1>6
  <2>2. 0 * a = 0
      OBVIOUS
  <2> QED
      BY <1>1, <1>7, <2>1, <2>2
<1>9. ASSUME NEW i \in Nat, i \in T PROVE i + 1 \in T
  <2> SUFFICES ASSUME i + 1 <= Len(digits)
               PROVE  /\ f[i + 1] \in S /\ Held(f[i + 1], w) = V[i + 1]
                      /\ Len(f[i + 1].out) * w + f[i + 1].n = (i + 1) * a
      OBVIOUS
  <2>1. i + 1 \in 1..Len(digits) /\ i \in 0..Len(digits) - 1 /\ (i + 1) - 1 = i /\ digits[i + 1] \in Bits(a)
      OBVIOUS
  <2>2. f[i] \in S /\ Held(f[i], w) = V[i] /\ Len(f[i].out) * w + f[i].n = i * a
      BY <1>9, <2>1
  <2> HIDE DEF T
  <2>3. f[i + 1] = step(f[i], i + 1)
      BY <1>3, <1>6, <2>1
  <2>4. /\ step(f[i], i + 1) \in S
        /\ Held(step(f[i], i + 1), w) = Held(f[i], w) * B!Pow2[a] + digits[i + 1]
        /\ Len(step(f[i], i + 1).out) * w + step(f[i], i + 1).n = Len(f[i].out) * w + f[i].n + a
    <3> DEFINE st == f[i]
               v == digits[i + 1]
    <3>1. st \in Rests(w) /\ v \in Bits(a)
        BY <2>1, <2>2 DEF S
    <3> HIDE DEF st, v
    <3>2. LET e == B!Emit(B!Shift(st, v, a), w)
          IN  /\ e \in Rests(w)
              /\ Held(e, w) = Held(st, w) * B!Pow2[a] + v
              /\ Len(e.out) * w + e.n = Len(st.out) * w + st.n + a
        BY <3>1, StepHolds
    <3> QED
        BY <3>2 DEF st, v, S, step
  <2>5. (i + 1) * a = i * a + a
      OBVIOUS
  <2> QED
      BY <1>7, <2>1, <2>2, <2>3, <2>4, <2>5
<1>10. Nat \subseteq T
  <2> HIDE DEF T
  <2> QED
      BY <1>8, <1>9, NatSet
<1>11. /\ f[Len(digits)] \in S /\ Held(f[Len(digits)], w) = V[Len(digits)]
       /\ Len(f[Len(digits)].out) * w + f[Len(digits)].n = Len(digits) * a
    BY <1>3, <1>10
<1> QED
    BY <1>6, <1>11 DEF V, S, Value

\* The text EncodeBitwise makes of the bytes, before the padding.
Written(data, w) ==
    LET r == B!Regroup(data, 8, w)
    IN  r.out \o (IF r.n > 0 THEN <<r.buf * B!Pow2[w - r.n]>> ELSE <<>>)

LEMMA Bytes ==
    Bits(8) = 0..255 /\ B!Pow2[8] = 256
    BY SmallPowers DEF Bits

LEMMA BytesSeq ==
    ASSUME NEW s \in Seq(0..255)
    PROVE  s \in Seq(Nat) /\ Value(s, 256) \in Nat
<1>1. s \in Seq(Nat)
  <2>1. 8 \in Nat /\ s \in Seq(Bits(8))
      BY Bytes
  <2> QED
      BY <2>1, BitsSeq
<1>2. 256 \in Nat
    OBVIOUS
<1> QED
    BY <1>1, <1>2, ValueNat

LEMMA SameBytes ==
    ASSUME NEW s \in Seq(0..255), NEW t \in Seq(0..255), Len(s) = Len(t), Value(s, 256) = Value(t, 256)
    PROVE  s = t
<1>1. 256 \in Nat \ {0} /\ 0..255 = 0..256 - 1
    OBVIOUS
<1>2. s \in Seq(0..256 - 1) /\ t \in Seq(0..256 - 1)
    BY <1>1
<1> QED
    BY <1>1, <1>2, SameDigits

\* That text stands for the bytes with some zero bits after them, fewer than a
\* digit has.
LEMMA WrittenHolds ==
    ASSUME NEW w \in 1..8, NEW data \in Seq(0..255)
    PROVE  /\ Written(data, w) \in Seq(Bits(w))
           /\ \E z \in 0..w - 1 : /\ Value(Written(data, w), B!Pow2[w]) = Value(data, 256) * B!Pow2[z]
                                  /\ Len(Written(data, w)) * w = Len(data) * 8 + z
<1> DEFINE r == B!Regroup(data, 8, w)
           V == Value(data, 256)
           x == Value(r.out, B!Pow2[w])
<1>1. r \in Rests(w) /\ Held(r, w) = V /\ Len(r.out) * w + r.n = Len(data) * 8
  <2>1. w \in Nat \ {0} /\ 8 \in Nat /\ data \in Seq(Bits(8))
      BY Bytes
  <2> QED
      BY <2>1, Bytes, RegroupHolds
<1>9. Written(data, w) = r.out \o (IF r.n > 0 THEN <<r.buf * B!Pow2[w - r.n]>> ELSE <<>>)
    BY Zenon DEF Written
<1> HIDE DEF r, V
<1>2. /\ r.out \in Seq(Bits(w)) /\ r.n \in 0..w - 1 /\ r.buf \in 0..B!Pow2[r.n] - 1
      /\ x * B!Pow2[r.n] + r.buf = V
  <2>1. r \in Buffers(w) /\ r.n < w /\ r.buf < B!Pow2[r.n]
      BY <1>1 DEF Rests
  <2>2. r.out \in Seq(Bits(w)) /\ r.n \in Nat /\ r.buf \in Nat
      BY <2>1 DEF Buffers
  <2>3. B!Pow2[r.n] \in Nat
      BY <2>2, Powers
  <2>4. x * B!Pow2[r.n] + r.buf = V
      BY <1>1 DEF Held
  <2> HIDE DEF x
  <2> QED
      BY <2>1, <2>2, <2>3, <2>4
<1>3. x \in Nat /\ r.out \in Seq(Nat) /\ Len(r.out) \in Nat /\ B!Pow2[w] \in Nat \ {0}
  <2>1. r.out \in Seq(Nat) /\ B!Pow2[w] \in Nat \ {0}
      BY <1>2, BitsSeq
  <2>2. x \in Nat
      BY <2>1, ValueNat
  <2> HIDE DEF x
  <2> QED
      BY <2>1, <2>2
<1>4. CASE r.n = 0
  <2>1. Written(data, w) = r.out
    <3>1. Written(data, w) = r.out \o <<>>
        BY <1>4, <1>9
    <3> QED
        BY <1>3, <3>1
  <2>2. B!Pow2[0] = 1 /\ r.buf = 0
      BY <1>2, <1>4, Powers
  <2>3. x * 1 + 0 = V /\ V * 1 = x
      BY <1>2, <1>3, <1>4, <2>2
  <2>4. Len(r.out) * w = Len(data) * 8 + 0
      BY <1>1, <1>3, <1>4
  <2>5. Value(Written(data, w), B!Pow2[w]) = V * B!Pow2[0] /\ 0 \in 0..w - 1
      BY <2>1, <2>2, <2>3
  <2> QED
      BY <1>2, <2>1, <2>4, <2>5 DEF V
<1>5. CASE r.n # 0
  <2> DEFINE z == w - r.n
             p == B!Pow2[z]
             q == B!Pow2[r.n]
             d == r.buf * p
  <2>1. z \in 0..w - 1 /\ z \in Nat /\ r.n \in Nat /\ w = r.n + z
      BY <1>2, <1>5
  <2>2. p \in Nat \ {0} /\ q \in Nat \ {0} /\ B!Pow2[w] = q * p
      BY <2>1, Powers, PowerSum
  <2>3. Written(data, w) = Append(r.out, d)
    <3>1. Written(data, w) = r.out \o <<d>>
      <4>1. r.n > 0
          BY <1>2, <1>5
      <4> QED
          BY <1>9, <4>1
    <3> HIDE DEF d
    <3> QED
        BY <3>1, <1>3
  <2> HIDE DEF z, p
  <2>4. d \in Bits(w) /\ d \in Nat
    <3>1. r.buf <= q - 1 /\ r.buf \in Nat
        BY <1>2, <2>2
    <3> HIDE DEF q
    <3>2. r.buf * p <= (q - 1) * p /\ r.buf * p \in Nat
      <4>1. r.buf \in Nat /\ q - 1 \in Nat /\ p \in Nat
          BY <2>2, <3>1
      <4> QED
          BY <3>1, <4>1, Monotone, Product
    <3>3. (q - 1) * p = q * p - p /\ q * p \in Nat
        BY <2>2
    <3> QED
        BY <2>2, <3>2, <3>3 DEF Bits
  <2>5. Written(data, w) \in Seq(Bits(w)) /\ Len(Written(data, w)) = Len(r.out) + 1
    <3> HIDE DEF d
    <3> QED
        BY <1>2, <2>3, <2>4
  <2>6. Value(Written(data, w), B!Pow2[w]) = x * (q * p) + d
    <3> HIDE DEF d
    <3>1. Value(Append(r.out, d), B!Pow2[w]) = x * B!Pow2[w] + d
        BY <1>3, <2>4, ValueAppend
    <3> HIDE DEF x
    <3> QED
        BY <2>2, <2>3, <3>1
  <2>7. x * (q * p) + d = V * p
    <3>1. \A a, b, f, g \in Nat : a * (b * f) + g * f = (a * b + g) * f
        OBVIOUS
    <3>2. r.buf \in Nat
        BY <1>2, <2>2
    <3>3. x * q + r.buf = V
        BY <1>2
    <3> HIDE DEF x, q
    <3> QED
        BY <1>3, <2>2, <3>1, <3>2, <3>3
  <2>8. Len(Written(data, w)) * w = Len(data) * 8 + z
    <3> DEFINE k == Len(r.out)
    <3>1. k \in Nat /\ w \in Nat
        BY <1>3
    <3> HIDE DEF k
    <3>2. (k + 1) * w = k * w + w /\ k * w \in Nat
        BY <3>1
    <3>3. k * w + r.n = Len(data) * 8
        BY <1>1 DEF k
    <3>4. Len(data) * 8 \in Nat
        OBVIOUS
    <3>5. (k + 1) * w = Len(data) * 8 + z
      <4> DEFINE u == k * w
                 v == (k + 1) * w
      <4>1. v = u + w /\ u + r.n = Len(data) * 8 /\ u \in Nat
          BY <3>2, <3>3
      <4> HIDE DEF u, v
      <4>2. v = Len(data) * 8 + z
        <5>1. r.n \in Nat /\ w \in Nat /\ z \in Nat /\ w = r.n + z
            BY <2>1, <3>1
        <5> DEFINE k8 == Len(data) * 8
                   m == r.n
        <5>2. k8 \in Nat /\ m \in Nat /\ w = m + z /\ u + m = k8
            BY <3>4, <4>1, <5>1
        <5> HIDE DEF k8, m
        <5>4. v = u + w /\ u \in Nat /\ z \in Nat
            BY <4>1, <5>1
        <5>5. v = u + (m + z)
            BY <5>2, <5>4
        <5>6. u + (m + z) = (u + m) + z
            BY <5>2, <5>4
        <5>3. v = k8 + z
            BY <5>2, <5>5, <5>6
        <5> QED
            BY <5>3 DEF k8
      <4> QED
          BY <4>2 DEF v
    <3> QED
        BY <2>5, <3>5 DEF k
  <2> QED
      BY <2>1, <2>5, <2>6, <2>7, <2>8 DEF V, p
<1> QED
    BY <1>4, <1>5

LEMMA WrittenSome ==
    ASSUME NEW w \in 1..8, NEW data \in Seq(0..255), data # <<>>
    PROVE  Written(data, w) # <<>>
<1> DEFINE n == Len(Written(data, w))
           m == Len(data)
<1>1. n \in Nat /\ m \in Nat /\ m # 0
  <2>1. Written(data, w) \in Seq(Bits(w))
      BY WrittenHolds
  <2> QED
      BY <2>1
<1>2. PICK z \in 0..w - 1 : n * w = m * 8 + z
    BY WrittenHolds, Zenon
<1>3. n # 0
  <2> HIDE DEF n, m
  <2>1. m * 8 + z # 0 /\ 0 * w = 0
      BY <1>1
  <2> QED
      BY <1>2, <2>1
<1> QED
    BY <1>3

\* Read back, the zero bits are what is left in the buffer.
LEMMA WrittenBack ==
    ASSUME NEW w \in 1..8, NEW data \in Seq(0..255)
    PROVE  B!DecodeBitwise(Written(data, w), w) = data
<1> DEFINE code == Written(data, w)
           r == B!Regroup(code, w, 8)
           V == Value(data, 256)
           x == Value(r.out, 256)
<1>0. w \in Nat
    OBVIOUS
<1>1. code \in Seq(Bits(w))
    BY WrittenHolds
<1>2. PICK z \in 0..w - 1 : Value(code, B!Pow2[w]) = V * B!Pow2[z] /\ Len(code) * w = Len(data) * 8 + z
    BY WrittenHolds
<1> HIDE DEF code
<1>3. r \in Rests(8) /\ Held(r, 8) = Value(code, B!Pow2[w]) /\ Len(r.out) * 8 + r.n = Len(code) * w
  <2>1. 8 \in Nat \ {0}
      OBVIOUS
  <2> QED
      BY <1>0, <1>1, <2>1, RegroupHolds
<1> HIDE DEF r
<1>4. /\ r.out \in Seq(0..255) /\ r.n \in 0..7 /\ r.buf \in 0..B!Pow2[r.n] - 1
      /\ x * B!Pow2[r.n] + r.buf = V * B!Pow2[z]
  <2>1. r \in Buffers(8) /\ r.n < 8 /\ r.buf < B!Pow2[r.n]
      BY <1>3 DEF Rests
  <2>2. r.out \in Seq(0..255) /\ r.n \in Nat /\ r.buf \in Nat
      BY <2>1, Bytes DEF Buffers
  <2>3. B!Pow2[r.n] \in Nat
      BY <2>2, Powers
  <2>4. x * B!Pow2[r.n] + r.buf = V * B!Pow2[z]
      BY <1>2, <1>3, Bytes DEF Held
  <2> HIDE DEF x, V
  <2>5. r.n \in 0..7
      BY <2>1, <2>2
  <2>6. r.buf \in 0..B!Pow2[r.n] - 1
    <3> DEFINE y == r.buf
               q == B!Pow2[r.n]
    <3>1. y \in Nat /\ q \in Nat /\ y < q
        BY <2>1, <2>2, <2>3
    <3> HIDE DEF y, q
    <3>2. y \in 0..q - 1
        BY <3>1
    <3> QED
        BY <3>2 DEF y, q
  <2> QED
      BY <2>2, <2>4, <2>5, <2>6
<1>5. Len(r.out) = Len(data) /\ r.n = z
  <2>1. Len(r.out) \in Nat /\ Len(data) \in Nat
      BY <1>4
  <2>2. Len(r.out) * 8 + r.n = Len(data) * 8 + z
      BY <1>2, <1>3
  <2> DEFINE k == Len(r.out)
             m == Len(data)
             j == r.n
  <2>3. k \in Nat /\ m \in Nat /\ k * 8 + j = m * 8 + z /\ j \in 0..7 /\ z \in 0..7
      BY <1>2, <1>4, <2>1, <2>2
  <2> HIDE DEF k, m, j
  <2>4. k = m /\ j = z
    <3>1. 8 \in Nat \ {0} /\ j \in 0..8 - 1 /\ z \in 0..8 - 1
        BY <2>3
    <3> QED
        BY <2>3, <3>1, OneQuotient
  <2> QED
      BY <2>4 DEF k, m, j
<1>6. x = V
  <2> DEFINE p == B!Pow2[z]
  <2>1. p \in Nat \ {0}
      BY <1>2, Powers
  <2>2. x \in Nat /\ V \in Nat
      BY <1>4, BytesSeq
  <2>3. r.buf \in 0..p - 1 /\ x * p + r.buf = V * p
      BY <1>4, <1>5
  <2> HIDE DEF x, V, p
  <2>4. x * p + r.buf = V * p + 0 /\ 0 \in 0..p - 1
      BY <2>1, <2>2, <2>3
  <2> QED
      BY <2>1, <2>2, <2>3, <2>4, OneQuotient
<1>7. r.out = data
    BY <1>4, <1>5, <1>6, SameBytes
<1> QED
    BY <1>7 DEF B!DecodeBitwise, r, code

-----------------------------------------------------------------------------
(* The long division of the mathematical directions.                         *)

Digits(b) == 0..b - 1
\* What a long division keeps of the digits it has seen: a quotient without
\* leading zeros and a remainder.
Quotients(from, to) == {s \in [carry : Digits(to), quot : Seq(Digits(from))] : Proper(s.quot)}
\* The number divided so far.
Dividend(s, from, to) == Value(s.quot, from) * to + s.carry

LEMMA DigitsSeq ==
    ASSUME NEW b \in Nat, NEW s \in Seq(Digits(b))
    PROVE  s \in Seq(Nat) /\ Value(s, b) \in Nat
<1>1. \A i \in 1..Len(s) : s[i] \in Nat
  <2>1. \A i \in 1..Len(s) : s[i] \in Digits(b)
      OBVIOUS
  <2> QED
      BY <2>1 DEF Digits
<1>2. s \in Seq(Nat)
    BY <1>1
<1> QED
    BY <1>2, ValueNat

LEMMA ProperAppend ==
    ASSUME NEW s \in Seq(Nat), NEW d \in Nat, Proper(s), s # <<>> \/ d # 0
    PROVE  Proper(Append(s, d))
<1>1. CASE s = <<>>
    BY <1>1 DEF Proper
<1>2. CASE s # <<>>
  <2>1. 1 \in 1..Len(s) /\ s[1] # 0
      BY <1>2 DEF Proper
  <2>2. Append(s, d)[1] = s[1]
      BY <2>1
  <2> QED
      BY <2>1, <2>2 DEF Proper
<1> QED
    BY <1>1, <1>2

\* One more digit is divided: the quotient gets a digit of the old base.
LEMMA DigitHolds ==
    ASSUME NEW from \in Nat \ {0}, NEW to \in Nat \ {0}, NEW s \in Quotients(from, to), NEW d \in Digits(from)
    PROVE  LET t == B!DivideDigit(s, d, from, to)
           IN  t \in Quotients(from, to) /\ Dividend(t, from, to) = Dividend(s, from, to) * from + d
<1> DEFINE t == B!DivideDigit(s, d, from, to)
           c == s.carry * from + d
           x == Value(s.quot, from)
           u == c \div to
           r == c % to
<1>1. /\ s.carry \in 0..to - 1 /\ s.quot \in Seq(Digits(from)) /\ Proper(s.quot)
      /\ d \in 0..from - 1
    BY DEF Quotients, Digits
<1>2. s.quot \in Seq(Nat) /\ x \in Nat
    BY <1>1, DigitsSeq
<1>3. t = [carry |-> r, quot |-> IF c >= to \/ s.quot # <<>> THEN Append(s.quot, u) ELSE s.quot]
    BY DEF B!DivideDigit
<1>4. c \in Nat /\ c < to * from
  <2> DEFINE k == s.carry
             p == k * from
  <2>1. k \in Nat /\ to - 1 \in Nat /\ k <= to - 1
      BY <1>1
  <2> HIDE DEF k
  <2>2. p \in Nat /\ p <= (to - 1) * from
      BY <2>1, Monotone, Product
  <2>3. (to - 1) * from = to * from - from /\ to * from \in Nat
      OBVIOUS
  <2> HIDE DEF p
  <2>4. p + d \in Nat /\ p + d < to * from
      BY <1>1, <2>2, <2>3
  <2> QED
      BY <2>4 DEF p, k
<1>5. c = u * to + r /\ r \in Digits(to) /\ u \in Nat
  <2> HIDE DEF c
  <2> QED
      BY <1>4, Quotient DEF Digits
<1>6. u \in Digits(from)
  <2> SUFFICES ASSUME u >= from PROVE FALSE
      BY <1>5 DEF Digits
  <2> HIDE DEF u, r, c
  <2>1. from * to <= u * to
      BY <1>5, Monotone
  <2>2. u * to \in Nat /\ from * to \in Nat /\ from * to = to * from
      BY <1>5
  <2> QED
      BY <1>4, <1>5, <2>1, <2>2 DEF Digits
<1>7. Dividend(s, from, to) * from + d = (x * from + u) * to + r
  <2>1. Dividend(s, from, to) = x * to + s.carry
      BY DEF Dividend
  <2>2. \A a, k \in Nat : (a * to + k) * from + d = (a * from) * to + (k * from + d)
      BY <1>1
  <2>3. \A a \in Nat : (a * from) * to + (u * to + r) = (a * from + u) * to + r
      BY <1>5 DEF Digits
  <2>4. s.carry \in Nat
      BY <1>1
  <2>5. (x * to + s.carry) * from + d = (x * from) * to + c
      BY <1>2, <2>2, <2>4
  <2> HIDE DEF c, x, u, r
  <2>6. (x * from) * to + c = (x * from + u) * to + r
      BY <1>2, <1>5, <2>3
  <2> QED
      BY <2>1, <2>5, <2>6
<1> HIDE DEF x, u, r
<1>8. CASE c >= to \/ s.quot # <<>>
  <2>1. t = [carry |-> r, quot |-> Append(s.quot, u)]
      BY <1>3, <1>8
  <2>2. Value(Append(s.quot, u), from) = x * from + u
      BY <1>2, <1>5, ValueAppend DEF x
  <2>3. s.quot # <<>> \/ u # 0
    <3> SUFFICES ASSUME u = 0, c >= to PROVE FALSE
        BY <1>8
    <3> HIDE DEF c
    <3>1. c = r
        BY <1>5 DEF Digits
    <3> QED
        BY <1>4, <1>5, <3>1 DEF Digits
  <2>4. Proper(Append(s.quot, u))
      BY <1>1, <1>2, <1>5, <2>3, ProperAppend
  <2>5. Append(s.quot, u) \in Seq(Digits(from))
      BY <1>1, <1>6
  <2>6. t \in Quotients(from, to)
    <3> DEFINE q == Append(s.quot, u)
    <3>1. t = [carry |-> r, quot |-> q] /\ q \in Seq(Digits(from)) /\ Proper(q)
        BY <2>1, <2>4, <2>5
    <3> HIDE DEF q, t
    <3> QED
        BY <1>5, <3>1 DEF Quotients
  <2>7. Dividend(t, from, to) = (x * from + u) * to + r
      BY <2>1, <2>2 DEF Dividend
  <2> HIDE DEF t
  <2> QED
      BY <1>7, <2>6, <2>7 DEF t
<1>9. CASE ~(c >= to \/ s.quot # <<>>)
  <2>1. t = [carry |-> r, quot |-> s.quot]
      BY <1>3, <1>9
  <2>2. x = 0
      BY <1>9, ValueEmpty DEF x
  <2>3. c < to
      BY <1>4, <1>9
  <2>4. u = 0
    <3> HIDE DEF c
    <3>1. 0 * to + c = u * to + r /\ c \in 0..to - 1
        BY <1>4, <1>5, <2>3 DEF Digits
    <3> QED
        BY <1>5, <3>1, OneQuotient DEF Digits
  <2>5. t \in Quotients(from, to)
      BY <1>1, <1>5, <2>1 DEF Quotients
  <2>6. Dividend(t, from, to) = x * to + r
      BY <2>1 DEF Dividend, x
  <2>7. x * to + r = (x * from + u) * to + r
      BY <2>2, <2>4, <1>5 DEF Digits
  <2> HIDE DEF t
  <2> QED
      BY <1>7, <2>5, <2>6, <2>7 DEF t
<1> QED
    BY <1>8, <1>9

LEMMA DivideHolds ==
    ASSUME NEW from \in Nat \ {0}, NEW to \in Nat \ {0}, NEW digits \in Seq(Digits(from))
    PROVE  LET d == B!Divide(digits, from, to)
           IN  d \in Quotients(from, to) /\ Dividend(d, from, to) = Value(digits, from)
<1> DEFINE S == Quotients(from, to)
           zero == [carry |-> 0, quot |-> <<>>]
           step(st, i) == B!DivideDigit(st, digits[i], from, to)
           h == [i \in 1..Len(digits) |-> [st \in S |-> step(st, i)]]
<1>1. zero \in S /\ Dividend(zero, from, to) = 0
    BY ValueEmpty DEF Quotients, Digits, Dividend, Proper
<1>2. ASSUME NEW i \in 1..Len(digits), NEW st \in S PROVE step(st, i) \in S
  <2>1. digits[i] \in Digits(from)
      OBVIOUS
  <2> QED
      BY <2>1, DigitHolds
<1>3. Len(digits) \in Nat
    OBVIOUS
<1>4. \E f : f = [i \in 0..Len(digits) |-> IF i = 0 THEN zero ELSE step(f[i - 1], i)]
  <2> HIDE DEF S, step, zero
  <2>1. h \in [1..Len(digits) -> [S -> S]]
      BY <1>2
  <2>2. PICK f \in [0..Len(digits) -> S] : Iterates(f, Len(digits), zero, h)
    <3> HIDE DEF h
    <3> QED
        BY <1>1, <1>3, <2>1, Iterated
  <2>3. ASSUME NEW i \in 1..Len(digits) PROVE f[i] = step(f[i - 1], i)
    <3>1. i - 1 \in 0..Len(digits) /\ h[i] = [st \in S |-> step(st, i)]
        OBVIOUS
    <3> HIDE DEF h
    <3>2. f[i] = h[i][f[i - 1]] /\ f[i - 1] \in S
        BY <2>2, <3>1 DEF Iterates
    <3> QED
        BY <3>1, <3>2
  <2> HIDE DEF h
  <2>4. f = [i \in 0..Len(digits) |-> IF i = 0 THEN zero ELSE step(f[i - 1], i)]
      BY <2>2, <2>3 DEF Iterates
  <2> QED
      BY <2>4
<1>5. \E f : /\ B!Divide(digits, from, to) = f[Len(digits)]
             /\ f = [i \in 0..Len(digits) |-> IF i = 0 THEN zero ELSE step(f[i - 1], i)]
    BY <1>4, Zenon DEF B!Divide
<1> HIDE DEF step, zero, h
<1>6. PICK f : /\ B!Divide(digits, from, to) = f[Len(digits)]
               /\ f = [i \in 0..Len(digits) |-> IF i = 0 THEN zero ELSE step(f[i - 1], i)]
    BY <1>5
<1> DEFINE V == Values(digits, from)
           T == {i \in Nat : i <= Len(digits) => f[i] \in S /\ Dividend(f[i], from, to) = V[i]}
<1>7. V[0] = 0 /\ \A i \in 0..Len(digits) - 1 : V[i + 1] = V[i] * from + digits[i + 1]
  <2>1. digits \in Seq(Nat) /\ from \in Nat
      BY DigitsSeq
  <2> QED
      BY <2>1, ValuesLoop
<1> HIDE DEF V, S
<1>8. 0 \in T
  <2>1. f[0] = zero
      BY <1>3, <1>6
  <2> QED
      BY <1>1, <1>7, <2>1
<1>9. ASSUME NEW i \in Nat, i \in T PROVE i + 1 \in T
  <2> SUFFICES ASSUME i + 1 <= Len(digits)
               PROVE  f[i + 1] \in S /\ Dividend(f[i + 1], from, to) = V[i + 1]
      OBVIOUS
  <2>1. /\ i + 1 \in 1..Len(digits) /\ i \in 0..Len(digits) - 1
        /\ (i + 1) - 1 = i /\ digits[i + 1] \in Digits(from)
      OBVIOUS
  <2>2. f[i] \in S /\ Dividend(f[i], from, to) = V[i]
      BY <1>9, <2>1
  <2> HIDE DEF T
  <2>3. f[i + 1] = step(f[i], i + 1)
      BY <1>3, <1>6, <2>1
  <2>4. /\ step(f[i], i + 1) \in S
        /\ Dividend(step(f[i], i + 1), from, to) = Dividend(f[i], from, to) * from + digits[i + 1]
    <3> DEFINE st == f[i]
               v == digits[i + 1]
    <3>1. st \in Quotients(from, to) /\ v \in Digits(from)
        BY <2>1, <2>2 DEF S
    <3> HIDE DEF st, v
    <3>2. LET e == B!DivideDigit(st, v, from, to)
          IN  e \in Quotients(from, to) /\ Dividend(e, from, to) = Dividend(st, from, to) * from + v
        BY <3>1, DigitHolds
    <3> QED
        BY <3>2 DEF st, v, S, step
  <2> QED
      BY <1>7, <2>1, <2>2, <2>3, <2>4
<1>10. Nat \subseteq T
  <2> HIDE DEF T
  <2> QED
      BY <1>8, <1>9, NatSet
<1>11. f[Len(digits)] \in S /\ Dividend(f[Len(digits)], from, to) = V[Len(digits)]
    BY <1>3, <1>10
<1> QED
    BY <1>6, <1>11 DEF V, S, Value

\* t is the number v in base b, without leading zeros; Spelling is that text.
Spells(t, v, b) == t \in Seq(Digits(b)) /\ Proper(t) /\ Value(t, b) = v
Spelling(v, b) == CHOOSE t : Spells(t, v, b)

LEMMA ZeroValue ==
    ASSUME NEW b \in Nat \ {0}, NEW s \in Seq(Digits(b)), Proper(s), Value(s, b) = 0
    PROVE  s = <<>>
<1>1. <<>> \in Seq(Digits(b)) /\ Proper(<<>>) /\ Value(<<>>, b) = 0
    BY ValueEmpty DEF Proper
<1> QED
    BY <1>1, SameProper DEF Digits

LEMMA OneText ==
    ASSUME NEW b \in Nat \ {0}, NEW v, NEW s, NEW t, Spells(s, v, b), Spells(t, v, b)
    PROVE  s = t
    BY SameProper DEF Spells, Digits

LEMMA LongerText ==
    ASSUME NEW b \in Nat \ {0}, NEW v \in Nat, NEW c \in Digits(b), NEW s, Spells(s, v, b), v # 0 \/ c # 0
    PROVE  Spells(Append(s, c), v * b + c, b)
<1>1. s \in Seq(Digits(b)) /\ s \in Seq(Nat) /\ Proper(s) /\ Value(s, b) = v /\ c \in Nat
    BY DigitsSeq DEF Spells, Digits
<1>2. s # <<>> \/ c # 0
  <2>1. Value(<<>>, b) = 0
      BY ValueEmpty
  <2> QED
      BY <1>1, <2>1
<1>3. Append(s, c) \in Seq(Digits(b))
    BY <1>1
<1>4. Proper(Append(s, c))
    BY <1>1, <1>2, ProperAppend
<1>5. Value(Append(s, c), b) = v * b + c
    BY <1>1, ValueAppend
<1> QED
    BY <1>3, <1>4, <1>5 DEF Spells

\* A division makes a number smaller.
LEMMA SmallerQuotient ==
    ASSUME NEW b \in Nat \ {0, 1}, NEW u \in Nat, NEW c \in Nat, u * b + c # 0
    PROVE  u < u * b + c
<1>1. u * 2 <= u * b /\ u * b \in Nat
  <2>1. 2 * u <= b * u /\ b * u \in Nat /\ b * u = u * b
      BY Monotone
  <2> QED
      BY <2>1
<1> QED
    BY <1>1

\* Every number has such a text: the smallest without one would have been
\* found one by a division.
LEMMA TextExists ==
    ASSUME NEW b \in Nat \ {0, 1}, NEW v \in Nat
    PROVE  Spells(Spelling(v, b), v, b)
<1> DEFINE U == {n \in Nat : ~ \E t : Spells(t, n, b)}
<1>1. SUFFICES ASSUME U # {} PROVE FALSE
    BY DEF Spelling
<1>2. PICK n \in U : \A m \in U : n <= m
    BY <1>1, LeastNumber
<1>3. n # 0
  <2>1. Spells(<<>>, 0, b)
      BY ValueEmpty DEF Spells, Proper
  <2> QED
      BY <1>2, <2>1
<1> DEFINE u == n \div b
           c == n % b
<1>4. n \in Nat /\ n = u * b + c /\ u \in Nat /\ c \in Digits(b) /\ c \in Nat
  <2>1. n \in Nat /\ b \in Nat \ {0}
      BY <1>2
  <2> HIDE DEF U
  <2>2. n = u * b + c /\ c \in 0..b - 1 /\ u \in Nat
      BY <2>1, Quotient
  <2> HIDE DEF u, c
  <2> QED
      BY <2>1, <2>2 DEF Digits
<1> HIDE DEF u, c
<1>5. u < n
    BY <1>3, <1>4, SmallerQuotient
<1>6. PICK t : Spells(t, u, b)
    BY <1>2, <1>4, <1>5
<1>7. u # 0 \/ c # 0
    BY <1>3, <1>4
<1>8. Spells(Append(t, c), u * b + c, b)
    BY <1>4, <1>6, <1>7, LongerText
<1> QED
    BY <1>2, <1>4, <1>8

\* What Convert makes of the digits of a number: "0" for zeros.
Converted(ds, from, to) ==
    IF ds = <<>> THEN <<>>
    ELSE IF Value(ds, from) = 0 THEN <<0>>
    ELSE Spelling(Value(ds, from), to)

\* A division by the new base gives the last digit and leaves the same task.
LEMMA ConvertStep ==
    ASSUME NEW from \in Nat \ {0, 1}, NEW to \in Nat \ {0, 1}, NEW ds \in Seq(Digits(from)), ds # <<>>
    PROVE  LET d == B!Divide(ds, from, to)
           IN  /\ Converted(ds, from, to) = Append(Converted(d.quot, from, to), d.carry)
               /\ d.quot \in Seq(Digits(from))
               /\ Value(ds, from) = 0 => d.quot = <<>>
               /\ Value(ds, from) # 0 => Value(d.quot, from) < Value(ds, from)
<1> DEFINE d == B!Divide(ds, from, to)
           u == Value(d.quot, from)
           c == d.carry
           n == Value(ds, from)
<1>1. d \in Quotients(from, to) /\ Dividend(d, from, to) = n
    BY DivideHolds
<1> HIDE DEF d
<1>2. /\ d.quot \in Seq(Digits(from)) /\ Proper(d.quot)
      /\ c \in Digits(to) /\ n = u * to + c
    BY <1>1 DEF Quotients, Dividend
<1>3. u \in Nat /\ n \in Nat /\ c \in Nat
    BY <1>2, DigitsSeq DEF Digits
<1>4. u = 0 <=> d.quot = <<>>
    BY <1>2, ZeroValue, ValueEmpty
<1>5. CASE n = 0
  <2>1. u = 0 /\ c = 0
    <3> HIDE DEF u, c, n
    <3>1. u * to + c = 0 * to + 0 /\ 0 \in 0..to - 1 /\ c \in 0..to - 1
        BY <1>2, <1>5 DEF Digits
    <3> QED
        BY <1>3, <3>1, OneQuotient
  <2>2. d.quot = <<>>
      BY <1>4, <2>1
  <2>3. Converted(d.quot, from, to) = <<>> /\ Converted(ds, from, to) = <<0>>
      BY <1>5, <2>2 DEF Converted
  <2>4. Append(Converted(d.quot, from, to), d.carry) = <<0>>
      BY <2>1, <2>3
  <2> QED
      BY <1>2, <1>5, <2>2, <2>3, <2>4 DEF d
<1>6. CASE n # 0
  <2>1. u < n
    <3> HIDE DEF u, c, n
    <3> QED
        BY <1>2, <1>3, <1>6, SmallerQuotient
  <2>2. Converted(d.quot, from, to) = Spelling(u, to)
    <3>1. CASE u = 0
      <4>1. Converted(d.quot, from, to) = <<>>
          BY <1>4, <3>1 DEF Converted
      <4>2. Spells(<<>>, 0, to)
          BY ValueEmpty DEF Spells, Proper
      <4>3. Spells(Spelling(0, to), 0, to)
          BY TextExists
      <4> QED
          BY <3>1, <4>1, <4>2, <4>3, OneText
    <3>2. CASE u # 0
        BY <1>4, <3>2 DEF Converted
    <3> QED
        BY <3>1, <3>2
  <2>3. Spells(Spelling(u, to), u, to) /\ Spells(Spelling(n, to), n, to)
      BY <1>3, TextExists
  <2>4. Spells(Append(Spelling(u, to), c), n, to)
    <3> HIDE DEF u, c, n
    <3>1. u # 0 \/ c # 0
        BY <1>2, <1>6
    <3> QED
        BY <1>2, <1>3, <2>3, <3>1, LongerText
  <2>5. Spelling(n, to) = Append(Spelling(u, to), c)
    <3> HIDE DEF u, c, n
    <3> QED
        BY <2>3, <2>4, OneText
  <2>6. Converted(ds, from, to) = Spelling(n, to)
      BY <1>6 DEF Converted
  <2> QED
      BY <1>2, <1>6, <2>1, <2>2, <2>5, <2>6 DEF d
<1> QED
    BY <1>5, <1>6

\* Convert makes what it should: of numbers it would get wrong the smallest
\* leaves one, its quotient, that is smaller.
LEMMA ConvertIs ==
    ASSUME NEW from \in Nat \ {0, 1}, NEW to \in Nat \ {0, 1}, NEW digits \in Seq(Digits(from))
    PROVE  B!Convert(digits, from, to) = Converted(digits, from, to)
<1> DEFINE All == Seq(0..from - 1)
           Solves(f) ==
               f = [ds \in All |-> IF ds = <<>> THEN <<>>
                                   ELSE LET d == B!Divide(ds, from, to) IN Append(f[d.quot], d.carry)]
<1>1. All = Seq(Digits(from))
    BY DEF Digits
<1>2. \E f : Solves(f)
  <2> DEFINE f == [ds \in All |-> Converted(ds, from, to)]
  <2>1. ASSUME NEW ds \in All
        PROVE  f[ds] = IF ds = <<>> THEN <<>>
                       ELSE LET d == B!Divide(ds, from, to) IN Append(f[d.quot], d.carry)
    <3> DEFINE d == B!Divide(ds, from, to)
    <3>1. CASE ds = <<>>
        BY <3>1 DEF Converted
    <3>2. CASE ds # <<>>
      <4>1. Converted(ds, from, to) = Append(Converted(d.quot, from, to), d.carry) /\ d.quot \in All
          BY <1>1, <3>2, ConvertStep
      <4>2. f[d.quot] = Converted(d.quot, from, to) /\ f[ds] = Converted(ds, from, to)
          BY <4>1
      <4> HIDE DEF f
      <4> QED
          BY <3>2, <4>1, <4>2
    <3> QED
        BY <3>1, <3>2
  <2>2. f = [ds \in All |-> f[ds]]
      OBVIOUS
  <2> HIDE DEF f
  <2>3. Solves(f)
      BY <2>1, <2>2
  <2> QED
      BY <2>3
<1>3. \E f : B!Convert(digits, from, to) = f[digits] /\ Solves(f)
    BY <1>2, Zenon DEF B!Convert
<1>4. PICK f : B!Convert(digits, from, to) = f[digits] /\ Solves(f)
    BY <1>3
<1>5. ASSUME NEW ds \in All, ds # <<>>
      PROVE  f[ds] = Append(f[B!Divide(ds, from, to).quot], B!Divide(ds, from, to).carry)
    BY <1>4, <1>5
<1>6. f[<<>>] = <<>>
  <2>1. <<>> \in All
      OBVIOUS
  <2> QED
      BY <1>4, <2>1
<1> HIDE DEF Solves, All
<1> DEFINE U == {n \in Nat : \E ds \in All : Value(ds, from) = n /\ f[ds] # Converted(ds, from, to)}
<1>7. U = {}
  <2> SUFFICES ASSUME U # {} PROVE FALSE
      OBVIOUS
  <2>1. PICK n \in U : \A m \in U : n <= m
      BY LeastNumber
  <2>2. PICK ds \in All : Value(ds, from) = n /\ f[ds] # Converted(ds, from, to)
      BY <2>1
  <2>3. ds # <<>>
      BY <1>6, <2>2 DEF Converted
  <2> DEFINE d == B!Divide(ds, from, to)
  <2>4. /\ Converted(ds, from, to) = Append(Converted(d.quot, from, to), d.carry)
        /\ d.quot \in All
        /\ n = 0 => d.quot = <<>>
        /\ n # 0 => Value(d.quot, from) < n
      BY <1>1, <2>2, <2>3, ConvertStep
  <2>5. f[ds] = Append(f[d.quot], d.carry)
      BY <1>5, <2>2, <2>3
  <2> HIDE DEF d
  <2>6. f[d.quot] # Converted(d.quot, from, to)
      BY <2>2, <2>4, <2>5
  <2>7. d.quot # <<>>
      BY <1>6, <2>6 DEF Converted
  <2>8. Value(d.quot, from) \in Nat /\ Value(d.quot, from) < n
      BY <1>1, <2>4, <2>7, DigitsSeq
  <2>9. Value(d.quot, from) \in U
      BY <2>4, <2>6, <2>8
  <2> HIDE DEF U
  <2>10. n <= Value(d.quot, from) /\ n \in Nat
      BY <2>1, <2>9, <2>2, <1>1, DigitsSeq
  <2> QED
      BY <2>8, <2>10
<1>8. digits \in All /\ Value(digits, from) \in Nat
    BY <1>1, DigitsSeq
<1> QED
    BY <1>4, <1>7, <1>8

-----------------------------------------------------------------------------
(* Leading zeros.                                                            *)

\* The count of the leading zeros is the only one there is.
LEMMA LeadingAre ==
    ASSUME NEW s \in Seq(Nat), NEW n \in 0..Len(s), \A i \in 1..n : s[i] = 0, n < Len(s) => s[n + 1] # 0
    PROVE  B!LeadingZeros(s) = Zeros(n)
<1> DEFINE P(k) == (\A i \in 1..k : s[i] = 0) /\ (k < Len(s) => s[k + 1] # 0)
           m == CHOOSE k \in 0..Len(s) : P(k)
<1>1. P(n)
    OBVIOUS
<1>2. m \in 0..Len(s) /\ P(m)
  <2> HIDE DEF P
  <2> QED
      BY <1>1
<1> HIDE DEF m
<1>3. m = n
    BY <1>1, <1>2
<1>4. B!LeadingZeros(s) = [i \in 1..m |-> 0]
    BY DEF B!LeadingZeros, m
<1> QED
    BY <1>3, <1>4 DEF Zeros

LEMMA LeadingBefore ==
    ASSUME NEW n \in Nat, NEW s \in Seq(Nat), Proper(s)
    PROVE  B!LeadingZeros(Zeros(n) \o s) = Zeros(n)
<1> DEFINE t == Zeros(n) \o s
<1>1. t \in Seq(Nat) /\ ZerosFirst(t, n, s)
  <2>1. 0 \in Nat
      OBVIOUS
  <2> QED
      BY <2>1, ZerosBefore
<1> HIDE DEF t
<1>2. Len(t) = n + Len(s) /\ Len(s) \in Nat /\ \A i \in 1..n : t[i] = 0
    BY <1>1 DEF ZerosFirst
<1>3. n < Len(t) => t[n + 1] # 0
  <2> SUFFICES ASSUME n < Len(t) PROVE t[n + 1] # 0
      OBVIOUS
  <2>1. s # <<>> /\ 1 \in 1..Len(s)
      BY <1>2
  <2>2. t[n + 1] = s[1]
      BY <1>1, <2>1 DEF ZerosFirst
  <2> QED
      BY <2>1, <2>2 DEF Proper
<1>4. n \in 0..Len(t)
    BY <1>2
<1>5. B!LeadingZeros(t) = Zeros(n)
    BY <1>1, <1>2, <1>3, <1>4, LeadingAre
<1> QED
    BY <1>5 DEF t

\* Any text is zeros and then a text without leading ones.
LEMMA ZerosThen ==
    ASSUME NEW b \in Nat \ {0}, NEW s \in Seq(Digits(b))
    PROVE  \E n \in 0..Len(s) : \E t \in Seq(Digits(b)) : s = Zeros(n) \o t /\ Proper(t)
<1> DEFINE U == {i \in Nat : i <= Len(s) /\ (i = Len(s) \/ s[i + 1] # 0)}
<1>0. Len(s) \in Nat /\ 0 \in Digits(b)
    BY DEF Digits
<1>1. PICK n \in U : \A m \in U : n <= m
  <2>1. Len(s) \in U
      BY <1>0
  <2> HIDE DEF U
  <2>2. U \in SUBSET Nat
      BY DEF U
  <2> QED
      BY <2>1, <2>2, LeastNumber
<1>2. n \in 0..Len(s) /\ n \in Nat /\ (n = Len(s) \/ s[n + 1] # 0)
    BY <1>0, <1>1
<1>3. ASSUME NEW i \in 1..n PROVE s[i] = 0
  <2> SUFFICES ASSUME s[i] # 0 PROVE FALSE
      OBVIOUS
  <2>1. i - 1 \in Nat /\ i - 1 <= Len(s) /\ (i - 1) + 1 = i /\ i - 1 < n
      BY <1>0, <1>2
  <2>2. i - 1 \in U
      BY <2>1
  <2> HIDE DEF U
  <2>3. n <= i - 1
      BY <1>1, <2>2
  <2> QED
      BY <1>2, <2>1, <2>3
<1> DEFINE t == SubSeq(s, n + 1, Len(s))
           u == Zeros(n) \o t
<1>4. t \in Seq(Digits(b)) /\ Len(t) = Len(s) - n /\ \A i \in 1..Len(t) : t[i] = s[n + i]
  <2>1. n + 1 \in Nat /\ \A i \in n + 1..Len(s) : s[i] \in Digits(b)
      BY <1>0, <1>2
  <2> HIDE DEF U
  <2> QED
      BY <1>0, <1>2, <2>1, SubSeqProperties
<1> HIDE DEF t, U
<1>5. u \in Seq(Digits(b)) /\ ZerosFirst(u, n, t)
    BY <1>0, <1>2, <1>4, ZerosBefore
<1> HIDE DEF u
<1>6. Len(u) = Len(s) /\ \A i \in 1..Len(s) : u[i] = s[i]
  <2>1. Len(u) = n + Len(t) /\ Len(u) = Len(s)
      BY <1>0, <1>2, <1>4, <1>5 DEF ZerosFirst
  <2>2. ASSUME NEW i \in 1..Len(s) PROVE u[i] = s[i]
    <3>1. CASE i <= n
        BY <1>2, <1>3, <1>5, <3>1 DEF ZerosFirst
    <3>2. CASE i > n
      <4>1. i - n \in 1..Len(t) /\ n + (i - n) = i
          BY <1>0, <1>2, <1>4, <3>2
      <4> QED
          BY <1>4, <1>5, <4>1 DEF ZerosFirst
    <3> QED
        BY <1>2, <3>1, <3>2
  <2> QED
      BY <2>1, <2>2
<1>7. s = u
    BY <1>5, <1>6, SeqEqual
<1>8. Proper(t)
  <2> SUFFICES ASSUME t # <<>> PROVE t[1] # 0
      BY DEF Proper
  <2>1. 1 \in 1..Len(t)
      BY <1>4
  <2>2. t[1] = s[n + 1] /\ n # Len(s)
      BY <1>0, <1>2, <1>4, <2>1
  <2> QED
      BY <1>2, <2>2
<1> QED
    BY <1>2, <1>4, <1>7, <1>8 DEF u

LEMMA ZerosMore ==
    ASSUME NEW n \in Nat
    PROVE  Zeros(n) \o <<0>> = Zeros(n + 1)
<1> DEFINE u == Zeros(n) \o <<0>>
           v == Zeros(n + 1)
<1>1. u \in Seq({0}) /\ ZerosFirst(u, n, <<0>>)
  <2>1. <<0>> \in Seq({0}) /\ 0 \in {0}
      OBVIOUS
  <2> QED
      BY <2>1, ZerosBefore
<1>2. v \in Seq({0}) /\ Len(v) = n + 1 /\ \A i \in 1..n + 1 : v[i] = 0
    BY ZerosSeq, n + 1 \in Nat
<1> HIDE DEF u, v
<1>3. Len(u) = n + 1
    BY <1>1 DEF ZerosFirst
<1>4. \A i \in 1..n + 1 : u[i] = 0
    BY <1>1, <1>3
<1>5. u = v
    BY <1>1, <1>2, <1>3, <1>4, SeqEqual
<1> QED
    BY <1>5 DEF u, v

\* Zeros before the digits of a number are kept, one for one.
LEMMA NumberOver ==
    ASSUME NEW from \in Nat \ {0, 1}, NEW to \in Nat \ {0, 1}, NEW n \in Nat,
           NEW t \in Seq(Digits(from)), Proper(t), t # <<>>
    PROVE  LET c == B!LeadingZeros(Zeros(n) \o t) \o B!Convert(Zeros(n) \o t, from, to)
           IN  \E u : c = Zeros(n) \o u /\ Spells(u, Value(t, from), to) /\ u # <<>>
<1> DEFINE s == Zeros(n) \o t
           v == Value(t, from)
           u == Spelling(v, to)
<1>1. s \in Seq(Digits(from)) /\ ZerosFirst(s, n, t)
  <2>1. 0 \in Digits(from)
      BY DEF Digits
  <2> QED
      BY <2>1, ZerosBefore
<1>2. t \in Seq(Nat) /\ v \in Nat
    BY DigitsSeq
<1>3. Value(s, from) = v
    BY <1>2, ValueZeros
<1>4. B!LeadingZeros(s) = Zeros(n)
    BY <1>2, LeadingBefore
<1> HIDE DEF s
<1>5. v # 0
    BY ZeroValue
<1>6. s # <<>>
    BY <1>1, <1>3, <1>5, ValueEmpty
<1>7. B!Convert(s, from, to) = u
    BY <1>1, <1>3, <1>5, <1>6, ConvertIs DEF Converted
<1>8. Spells(u, v, to)
    BY <1>2, TextExists
<1>9. u # <<>>
    BY <1>5, <1>8, ValueEmpty DEF Spells
<1> HIDE DEF u
<1> QED
    BY <1>4, <1>7, <1>8, <1>9 DEF s

\* Zeros alone are counted as leading and also converted, to one more.
LEMMA ZerosOver ==
    ASSUME NEW from \in Nat \ {0, 1}, NEW to \in Nat \ {0, 1}, NEW n \in Nat \ {0}
    PROVE  B!LeadingZeros(Zeros(n)) \o B!Convert(Zeros(n), from, to) = Zeros(n + 1)
<1> DEFINE s == Zeros(n)
<1>1. s \in Seq(Digits(from)) /\ s \in Seq(Nat) /\ Len(s) = n /\ \A i \in 1..n : s[i] = 0
  <2>1. s \in [1..n -> Digits(from)] /\ s \in [1..n -> Nat]
      BY DEF Zeros, Digits
  <2>2. Len(s) = n /\ \A i \in 1..n : s[i] = 0
      BY ZerosSeq
  <2> HIDE DEF s
  <2> QED
      BY <2>1, <2>2
<1>2. Value(s, from) = 0
  <2>1. Value(Zeros(n) \o <<>>, from) = Value(<<>>, from) /\ Value(<<>>, from) = 0
    <3>1. <<>> \in Seq(Nat)
        OBVIOUS
    <3> QED
        BY <3>1, ValueZeros, ValueEmpty
  <2>2. Zeros(n) \o <<>> = Zeros(n)
      BY <1>1
  <2> QED
      BY <2>1, <2>2
<1>3. s # <<>>
    BY <1>1
<1>4. B!LeadingZeros(s) = Zeros(n)
    BY <1>1, LeadingAre
<1>5. B!Convert(s, from, to) = <<0>>
    BY <1>1, <1>2, <1>3, ConvertIs DEF Converted
<1> QED
    BY <1>4, <1>5, ZerosMore

\* What is written for zeros alone, in either direction.
LEMMA ZerosCoded ==
    ASSUME NEW base \in 2..256, NEW n \in Nat \ {0}
    PROVE  /\ B!EncodeMathematical(Zeros(n), base) = Zeros(n + 1)
           /\ B!DecodeMathematical(Zeros(n), base) = Zeros(n + 1)
<1>1. base \in Nat \ {0, 1} /\ 256 \in Nat \ {0, 1}
    OBVIOUS
<1>2. \A from, to \in Nat \ {0, 1} :
          B!LeadingZeros(Zeros(n)) \o B!Convert(Zeros(n), from, to) = Zeros(n + 1)
    BY ZerosOver, Zenon
<1>3. B!LeadingZeros(Zeros(n)) \o B!Convert(Zeros(n), 256, base) = Zeros(n + 1)
    BY <1>1, <1>2, Zenon
<1>4. B!LeadingZeros(Zeros(n)) \o B!Convert(Zeros(n), base, 256) = Zeros(n + 1)
    BY <1>1, <1>2, Zenon
<1> QED
    BY <1>3, <1>4, Zenon DEF B!EncodeMathematical, B!DecodeMathematical

\* What is written for zeros and a number behind them, in either direction.
Over(c, n, v, b) == \E u : c = Zeros(n) \o u /\ Spells(u, v, b) /\ u # <<>>

LEMMA NumberCoded ==
    ASSUME NEW base \in 2..256, NEW n \in Nat
    PROVE  /\ \A t \in Seq(Digits(256)) : Proper(t) /\ t # <<>> =>
                 Over(B!EncodeMathematical(Zeros(n) \o t, base), n, Value(t, 256), base)
           /\ \A t \in Seq(Digits(base)) : Proper(t) /\ t # <<>> =>
                 Over(B!DecodeMathematical(Zeros(n) \o t, base), n, Value(t, base), 256)
<1>1. base \in Nat \ {0, 1} /\ 256 \in Nat \ {0, 1}
    OBVIOUS
<1>2. \A from, to \in Nat \ {0, 1} : \A t \in Seq(Digits(from)) : Proper(t) /\ t # <<>> =>
          Over(B!LeadingZeros(Zeros(n) \o t) \o B!Convert(Zeros(n) \o t, from, to),
               n, Value(t, from), to)
    BY NumberOver, Zenon DEF Over
<1>3. \A t \in Seq(Digits(256)) : Proper(t) /\ t # <<>> =>
          Over(B!LeadingZeros(Zeros(n) \o t) \o B!Convert(Zeros(n) \o t, 256, base),
               n, Value(t, 256), base)
    BY <1>1, <1>2, Zenon
<1>4. \A t \in Seq(Digits(base)) : Proper(t) /\ t # <<>> =>
          Over(B!LeadingZeros(Zeros(n) \o t) \o B!Convert(Zeros(n) \o t, base, 256),
               n, Value(t, base), 256)
    BY <1>1, <1>2, Zenon
<1> QED
    BY <1>3, <1>4, Zenon DEF B!EncodeMathematical, B!DecodeMathematical

\* There and back: zeros alone come back two longer, anything else as it was.
LEMMA MathematicalBack ==
    ASSUME NEW base \in 2..256, NEW data \in Seq(0..255), data # <<>>
    PROVE  LET code == B!EncodeMathematical(data, base)
           IN  /\ code \in Seq(Digits(base)) /\ code # <<>>
               /\ B!DecodeMathematical(code, base) =
                     IF data = Zeros(Len(data)) THEN Zeros(Len(data) + 2) ELSE data
<1>0. /\ base \in Nat \ {0, 1} /\ 256 \in Nat \ {0, 1} /\ 0 \in Digits(base)
      /\ data \in Seq(Digits(256)) /\ Len(data) \in Nat
    BY DEF Digits
<1>1. PICK n \in 0..Len(data), t \in Seq(Digits(256)) : data = Zeros(n) \o t /\ Proper(t)
  <2>1. 256 \in Nat \ {0}
      OBVIOUS
  <2> QED
    <3> DEFINE Split(s, b) ==
                   \E n \in 0..Len(s) : \E t \in Seq(Digits(b)) : s = Zeros(n) \o t /\ Proper(t)
    <3>1. \A b \in Nat \ {0} : \A s \in Seq(Digits(b)) : Split(s, b)
        BY ZerosThen, Zenon
    <3> HIDE DEF Split
    <3>2. Split(data, 256)
        BY <1>0, <2>1, <3>1, Zenon
    <3> QED
        BY <3>2, Zenon DEF Split
<1>2. n \in Nat
    BY <1>0
<1>3. CASE t = <<>>
  <2>1. data = Zeros(n)
    <3>1. Zeros(n) \in Seq({0})
        BY <1>2, ZerosSeq
    <3> QED
        BY <1>1, <1>3, <3>1
  <2>2. Len(data) = n /\ n # 0
    <3>1. Len(Zeros(n)) = n
        BY <1>2, ZerosSeq
    <3>2. n # 0
        BY <1>0, <2>1, <3>1
    <3> QED
        BY <2>1, <3>1, <3>2
  <2>3. B!EncodeMathematical(data, base) = Zeros(n + 1)
    <3>1. n \in Nat \ {0}
        BY <1>2, <2>2
    <3> QED
        BY <2>1, <3>1, ZerosCoded, Zenon
  <2>4. B!DecodeMathematical(Zeros(n + 1), base) = Zeros((n + 1) + 1)
    <3>1. n + 1 \in Nat \ {0}
        BY <1>2
    <3> QED
        BY <3>1, ZerosCoded, Zenon
  <2>5. Zeros(n + 1) \in Seq(Digits(base)) /\ Zeros(n + 1) # <<>>
    <3>1. Zeros(n + 1) \in [1..n + 1 -> Digits(base)]
        BY <1>0 DEF Zeros
    <3>2. Len(Zeros(n + 1)) = n + 1
        BY <1>2, ZerosSeq, n + 1 \in Nat
    <3> QED
        BY <1>2, <3>1, <3>2
  <2>6. (n + 1) + 1 = n + 2
      BY <1>2
  <2> QED
      BY <2>1, <2>2, <2>3, <2>4, <2>5, <2>6
<1>4. CASE t # <<>>
  <2>1. PICK u : /\ B!EncodeMathematical(data, base) = Zeros(n) \o u
                 /\ Spells(u, Value(t, 256), base) /\ u # <<>>
    <3>1. Over(B!EncodeMathematical(Zeros(n) \o t, base), n, Value(t, 256), base)
        BY <1>1, <1>2, <1>4, NumberCoded, Zenon
    <3>2. Zeros(n) \o t = data
        BY <1>1, Zenon
    <3>3. Over(B!EncodeMathematical(data, base), n, Value(t, 256), base)
        BY <3>1, <3>2, Zenon
    <3> QED
        BY <3>3, Zenon DEF Over
  <2>2. u \in Seq(Digits(base)) /\ Proper(u) /\ Value(u, base) = Value(t, 256)
      BY <2>1 DEF Spells
  <2>3. PICK x : /\ B!DecodeMathematical(Zeros(n) \o u, base) = Zeros(n) \o x
                 /\ Spells(x, Value(u, base), 256)
      BY <1>2, <2>1, <2>2, NumberCoded, Zenon DEF Over
  <2>4. Spells(t, Value(t, 256), 256)
      BY <1>1 DEF Spells
  <2>5. x = t
      BY <1>0, <2>2, <2>3, <2>4, OneText
  <2>6. Zeros(n) \o u \in Seq(Digits(base)) /\ Zeros(n) \o u # <<>>
    <3>1. Zeros(n) \o u \in Seq(Digits(base)) /\ ZerosFirst(Zeros(n) \o u, n, u)
        BY <1>0, <1>2, <2>2, ZerosBefore
    <3>2. Len(Zeros(n) \o u) # 0
        BY <1>2, <2>1, <2>2, <3>1 DEF ZerosFirst
    <3> QED
        BY <3>1, <3>2
  <2>7. data # Zeros(Len(data))
    <3>1. ZerosFirst(data, n, t)
        BY <1>0, <1>1, <1>2, ZerosBefore DEF Digits
    <3>2. 1 \in 1..Len(t) /\ t[1] # 0 /\ Len(t) \in Nat
        BY <1>1, <1>4 DEF Proper
    <3>3. data[n + 1] # 0 /\ n + 1 \in 1..Len(data)
        BY <1>2, <3>1, <3>2 DEF ZerosFirst
    <3> QED
        BY <1>0, <3>3, ZerosSeq
  <2> QED
      BY <1>1, <2>1, <2>3, <2>5, <2>6, <2>7
<1> QED
    BY <1>3, <1>4

-----------------------------------------------------------------------------
(* Texts of bytes and numbers.                                               *)

Pads(n) == [i \in 1..n |-> B!Pad]

\* No digit is the padding character, so only the padding is trimmed.
LEMMA PadsTrimmed ==
    ASSUME NEW b \in Nat, NEW code \in Seq(Digits(b)), NEW n \in Nat
    PROVE  B!TrimPadding(code \o Pads(n)) = code
<1> DEFINE t == code \o Pads(n)
           P(k) == (\A i \in k + 1..Len(t) : t[i] = B!Pad) /\ (k > 0 => t[k] # B!Pad)
           m == CHOOSE k \in 0..Len(t) : P(k)
<1>1. /\ code \in Seq(Int) /\ Len(code) \in Nat
      /\ \A i \in 1..Len(code) : code[i] # B!Pad
  <2>1. \A i \in 1..Len(code) : code[i] \in Digits(b)
      OBVIOUS
  <2> QED
      BY <2>1 DEF Digits, B!Pad
<1>2. Pads(n) \in Seq(Int) /\ Len(Pads(n)) = n /\ \A i \in 1..n : Pads(n)[i] = B!Pad
    BY DEF Pads, B!Pad
<1>3. t \in Seq(Int) /\ Len(t) = Len(code) + n
    BY <1>1, <1>2
<1>4. /\ \A i \in 1..Len(code) : t[i] = code[i]
      /\ \A i \in Len(code) + 1..Len(t) : t[i] = B!Pad
    BY <1>1, <1>2
<1> HIDE DEF t
<1>5. P(Len(code)) /\ Len(code) \in 0..Len(t)
    BY <1>1, <1>3, <1>4
<1>6. m \in 0..Len(t) /\ P(m)
  <2> HIDE DEF P
  <2> QED
      BY <1>5
<1> HIDE DEF m
<1>7. m = Len(code)
  <2>1. CASE m < Len(code)
    <3>1. Len(code) \in m + 1..Len(t) /\ Len(code) \in 1..Len(code)
        BY <1>1, <1>3, <1>6, <2>1
    <3>2. t[Len(code)] = B!Pad /\ t[Len(code)] = code[Len(code)] /\ code[Len(code)] # B!Pad
        BY <1>1, <1>4, <1>6, <3>1
    <3> QED
        BY <3>2
  <2>2. CASE m > Len(code)
    <3>1. m \in Len(code) + 1..Len(t) /\ m > 0
        BY <1>1, <1>3, <1>6, <2>2
    <3>2. t[m] = B!Pad /\ t[m] # B!Pad
        BY <1>4, <1>6, <3>1
    <3> QED
        BY <3>2
  <2> QED
      BY <1>1, <1>3, <1>6, <2>1, <2>2
<1>8. B!TrimPadding(t) = SubSeq(t, 1, m)
    BY DEF B!TrimPadding, m
<1>9. SubSeq(t, 1, Len(code)) = code
  <2>1. /\ SubSeq(t, 1, Len(code)) \in Seq(Int)
        /\ Len(SubSeq(t, 1, Len(code))) = Len(code)
        /\ \A i \in 1..Len(code) : SubSeq(t, 1, Len(code))[i] = code[i]
      BY <1>1, <1>3, <1>4
  <2> QED
      BY <1>1, <2>1, SeqEqual
<1> QED
    BY <1>7, <1>8, <1>9 DEF t

LEMMA WidthOf ==
    ASSUME NEW base, B!Bitwise(base)
    PROVE  B!Width(base) \in 1..8 /\ Bits(B!Width(base)) = Digits(base)
    BY DEF B!Bitwise, B!Width, B!BitsPerChar, Bits, Digits

LEMMA NoPads ==
    ASSUME NEW b, NEW code \in Seq(Digits(b))
    PROVE  code \o Pads(0) = code /\ code \o <<>> = code
    BY DEF Pads

\* Padding fills the last group of base 32, of 8 characters for 5 bytes, and of
\* base 64, of 4 for 3; there is none to write when the bytes fill the group.
LEMMA Padding ==
    ASSUME NEW len \in Nat, NEW w \in 1..8
    PROVE  LET need == B!PaddingNeeded(w, (len * 8 + w - 1) \div w)
           IN  /\ need \in Nat
               /\ need = 0 <=> ~((w = 5 /\ len % 5 # 0) \/ (w = 6 /\ len % 3 # 0))
<1> DEFINE chars == (len * 8 + w - 1) \div w
           need == B!PaddingNeeded(w, chars)
<1> SUFFICES need \in Nat /\ (need = 0 <=> ~((w = 5 /\ len % 5 # 0) \/ (w = 6 /\ len % 3 # 0)))
    OBVIOUS
<1>1. CASE w = 5
  <2> DEFINE c(k) == IF k = 0 THEN 0 ELSE IF k = 1 THEN 2 ELSE IF k = 2 THEN 4 ELSE IF k = 3 THEN 5 ELSE 7
  <2>1. PICK q \in Nat, k \in 0..4 : len = 5 * q + k /\ len % 5 = k
      OBVIOUS
  <2>2. chars = 8 * q + c(k)
      BY <1>1, <2>1
  <2> HIDE DEF chars
  <2>3. chars % 8 = c(k)
      BY <2>1, <2>2
  <2>4. need = (8 - (chars % 8)) % 8
      BY <1>1 DEF B!PaddingNeeded
  <2> HIDE DEF need
  <2>5. need = IF k = 0 THEN 0 ELSE 8 - c(k)
      BY <2>1, <2>3, <2>4
  <2>6. need \in Nat /\ (need = 0 <=> len % 5 = 0)
      BY <2>1, <2>5
  <2> QED
      BY <1>1, <2>6
<1>2. CASE w = 6
  <2> DEFINE c(k) == IF k = 0 THEN 0 ELSE IF k = 1 THEN 2 ELSE 3
  <2>1. PICK q \in Nat, k \in 0..2 : len = 3 * q + k /\ len % 3 = k
      OBVIOUS
  <2>2. chars = 4 * q + c(k)
      BY <1>2, <2>1
  <2> HIDE DEF chars
  <2>3. chars % 4 = c(k)
      BY <2>1, <2>2
  <2>4. need = (4 - (chars % 4)) % 4
      BY <1>2 DEF B!PaddingNeeded
  <2> HIDE DEF need
  <2>5. need = IF k = 0 THEN 0 ELSE 4 - c(k)
      BY <2>1, <2>3, <2>4
  <2>6. need \in Nat /\ (need = 0 <=> len % 3 = 0)
      BY <2>1, <2>5
  <2> QED
      BY <1>2, <2>6
<1>3. CASE w \notin {5, 6}
  <2>1. need = 0
      BY <1>3 DEF B!PaddingNeeded
  <2> HIDE DEF need
  <2> QED
      BY <1>3, <2>1
<1> QED
    BY <1>1, <1>2, <1>3, Zenon

\* The groups of 5 and of 6 bits are those of base 32 and of base 64.
LEMMA Groups ==
    ASSUME NEW base
    PROVE  /\ base \in {32, 64} => B!Bitwise(base)
           /\ B!Bitwise(base) => (B!Width(base) = 5 <=> base = 32)
           /\ B!Bitwise(base) => (B!Width(base) = 6 <=> base = 64)
<1>1. 5 \in 1..8 /\ 6 \in 1..8 /\ B!Pow2[5] = 32 /\ B!Pow2[6] = 64
    BY SmallPowers
<1>2. base \in {32, 64} => B!Bitwise(base)
    BY <1>1 DEF B!Bitwise, B!BitsPerChar
<1>3. ASSUME B!Bitwise(base)
      PROVE  /\ B!Width(base) = 5 <=> base = 32
             /\ B!Width(base) = 6 <=> base = 64
  <2> DEFINE w == B!Width(base)
  <2>1. w \in 1..8 /\ B!Pow2[w] = base
      BY <1>3 DEF B!Bitwise, B!Width, B!BitsPerChar
  <2> HIDE DEF w
  <2>2. w = 1 \/ w = 2 \/ w = 3 \/ w = 4 \/ w = 5 \/ w = 6 \/ w = 7 \/ w = 8
      BY <2>1
  <2>3. (w = 5 <=> base = 32) /\ (w = 6 <=> base = 64)
      BY <2>1, <2>2, SmallPowers
  <2> QED
      BY <2>3 DEF w
<1> QED
    BY <1>2, <1>3

\* The bitwise text is padded only when padding was asked for and the last group
\* is not full.
LEMMA EncodedAs ==
    ASSUME NEW base \in 2..256, B!Bitwise(base), NEW data \in Seq(0..255), NEW pad
    PROVE  LET w == B!Width(base)
           IN  \E n \in Nat : /\ B!EncodeBitwise(data, w, pad) = Written(data, w) \o Pads(n)
                              /\ pad = "none" => n = 0
                              /\ pad # "none" => (n # 0 <=> Unaligned(data, base))
<1> DEFINE w == B!Width(base)
           st == B!Regroup(data, 8, w)
           tail == IF st.n > 0 THEN <<st.buf * B!Pow2[w - st.n]>> ELSE <<>>
           chars == (Len(data) * 8 + w - 1) \div w
           need == B!PaddingNeeded(w, chars)
           written == st.out \o tail
<1>1. B!EncodeBitwise(data, w, pad) = written \o (IF pad = "none" THEN <<>> ELSE Pads(need))
    BY DEF B!EncodeBitwise, Pads
<1>2. written = Written(data, w)
    BY DEF Written
<1>3. need \in Nat /\ (need # 0 <=> Unaligned(data, base))
  <2>1. w \in 1..8 /\ Len(data) \in Nat
      BY WidthOf
  <2>2. (w = 5 <=> base = 32) /\ (w = 6 <=> base = 64)
      BY Groups
  <2>3. need \in Nat /\ (need = 0 <=> ~((w = 5 /\ Len(data) % 5 # 0) \/ (w = 6 /\ Len(data) % 3 # 0)))
    <3> HIDE DEF w
    <3> QED
        BY <2>1, Padding
  <2> HIDE DEF w, need
  <2> QED
      BY <2>2, <2>3 DEF Unaligned
<1> HIDE DEF written, need, w
<1>4. CASE pad # "none"
    BY <1>1, <1>2, <1>3, <1>4 DEF w
<1>5. CASE pad = "none"
  <2>1. B!EncodeBitwise(data, w, pad) = Written(data, w) \o <<>>
      BY <1>1, <1>2, <1>5
  <2>2. Pads(0) = <<>>
      BY DEF Pads
  <2> QED
      BY <1>5, <2>1, <2>2 DEF w
<1> QED
    BY <1>4, <1>5

\* DecodeString undoes EncodeToString in every base, but refuses padding that it
\* does not trim.
LEMMA EncodedBack ==
    ASSUME NEW base \in 2..256, NEW data \in Seq(0..255), NEW pad \in {"none", "ascii", "wide"}
    PROVE  B!DecodeString(B!EncodeToString(data, base, pad), base, pad) =
              IF pad = "wide" /\ Unaligned(data, base) THEN B!Reject
              ELSE IF ~B!Bitwise(base) /\ data # <<>> /\ data = Zeros(Len(data))
              THEN Zeros(Len(data) + 2)
              ELSE data
<1> DEFINE text == B!EncodeToString(data, base, pad)
           Code(code, n) == /\ code \in Seq(Digits(base)) /\ n \in Nat
                            /\ text = code \o Pads(n) /\ (pad = "none" => n = 0)
                            /\ pad = "wide" => (n # 0 <=> Unaligned(data, base))
<1>1. ASSUME NEW code, NEW n, Code(code, n)
      PROVE  B!DecodeString(text, base, pad) =
                IF pad = "wide" /\ Unaligned(data, base) THEN B!Reject
                ELSE IF code = <<>> THEN <<>>
                ELSE IF B!Bitwise(base) THEN B!DecodeBitwise(code, B!Width(base))
                ELSE B!DecodeMathematical(code, base)
  <2> DEFINE trimmed == IF pad = "ascii" THEN B!TrimPadding(text) ELSE text
  <2>1. CASE ~(pad = "wide" /\ Unaligned(data, base))
    <3>1. trimmed = code
      <4>1. CASE pad = "ascii"
        <5>1. base \in Nat
            OBVIOUS
        <5>2. B!TrimPadding(code \o Pads(n)) = code
            BY <1>1, <5>1, PadsTrimmed
        <5> HIDE DEF text
        <5> QED
            BY <1>1, <4>1, <5>2
      <4>2. CASE pad # "ascii"
        <5>1. text = code \o Pads(0)
          <6> HIDE DEF text
          <6> QED
              BY <1>1, <2>1, <4>2
        <5> QED
            BY <1>1, <4>2, <5>1, NoPads
      <4> QED
          BY <4>1, <4>2
    <3>2. \A i \in 1..Len(code) : code[i] \in 0..base - 1
        BY <1>1 DEF Digits
    <3> HIDE DEF text
    <3> QED
        BY <2>1, <3>1, <3>2 DEF B!DecodeString
  <2>2. CASE pad = "wide" /\ Unaligned(data, base)
    <3>1. trimmed = code \o Pads(n) /\ n \in Nat /\ n # 0 /\ code \in Seq(Digits(base))
      <4> HIDE DEF text
      <4> QED
          BY <1>1, <2>2
    <3>2. trimmed # <<>> /\ \E i \in 1..Len(trimmed) : trimmed[i] \notin 0..base - 1
      <4> HIDE DEF trimmed
      <4> DEFINE u == Pads(n)
      <4>1. u \in Seq(Int) /\ Len(u) = n /\ 1 \in 1..Len(u) /\ u[1] = B!Pad
        <5>1. n \in Nat /\ 1 \in 1..n
            BY <3>1
        <5>2. Pads(n) \in Seq(Int) /\ Len(Pads(n)) = n /\ \A i \in 1..n : Pads(n)[i] = B!Pad
            BY <3>1 DEF Pads, B!Pad
        <5> QED
            BY <5>1, <5>2
      <4> HIDE DEF u
      <4>2. code \in Seq(Int) /\ Len(code) \in Nat
        <5>1. \A i \in 1..Len(code) : code[i] \in Int
            BY <3>1 DEF Digits
        <5> QED
            BY <3>1, <5>1
      <4>3. /\ Len(trimmed) = Len(code) + n /\ Len(code) + 1 \in 1..Len(trimmed)
            /\ trimmed[Len(code) + 1] = B!Pad
        <5>1. trimmed = code \o u
            BY <3>1 DEF u
        <5>2. /\ Len(code \o u) = Len(code) + Len(u)
              /\ \A i \in 1..Len(u) : (code \o u)[Len(code) + i] = u[i]
            BY <4>1, <4>2
        <5> QED
            BY <4>1, <4>2, <5>1, <5>2
      <4>4. B!Pad \notin 0..base - 1
          BY DEF B!Pad
      <4>5. trimmed # <<>>
          BY <4>2, <4>3
      <4> QED
          BY <4>3, <4>4, <4>5, Zenon
    <3>3. B!DecodeString(text, base, pad) =
            IF trimmed = <<>> THEN <<>>
            ELSE IF \E i \in 1..Len(trimmed) : trimmed[i] \notin 0..base - 1 THEN B!Reject
            ELSE IF B!Bitwise(base) THEN B!DecodeBitwise(trimmed, B!Width(base))
            ELSE B!DecodeMathematical(trimmed, base)
      <4> HIDE DEF text
      <4> QED
          BY DEF B!DecodeString
    <3> HIDE DEF trimmed, text
    <3> QED
        BY <2>2, <3>2, <3>3
  <2> QED
      BY <2>1, <2>2
<1>2. CASE data = <<>>
  <2>1. text = <<>>
      BY <1>2 DEF B!EncodeToString
  <2>2. ~Unaligned(data, base)
      BY <1>2 DEF Unaligned
  <2>3. Code(<<>>, 0)
      BY <2>1, <2>2 DEF Pads
  <2> HIDE DEF text, Code
  <2> QED
      BY <1>1, <1>2, <2>2, <2>3 DEF text
<1>3. CASE data # <<>> /\ B!Bitwise(base)
  <2> DEFINE w == B!Width(base)
             code == Written(data, w)
  <2>1. w \in 1..8 /\ Bits(w) = Digits(base)
      BY <1>3, WidthOf
  <2>2. PICK n \in Nat : /\ B!EncodeBitwise(data, w, pad) = code \o Pads(n)
                         /\ pad = "none" => n = 0
                         /\ pad # "none" => (n # 0 <=> Unaligned(data, base))
      BY <1>3, EncodedAs, Zenon
  <2>3. text = code \o Pads(n)
      BY <1>3, <2>2 DEF B!EncodeToString
  <2> HIDE DEF w
  <2>4. code \in Seq(Digits(base))
      BY <2>1, WrittenHolds
  <2>5. B!DecodeBitwise(code, w) = data
      BY <2>1, WrittenBack
  <2>6. code # <<>>
      BY <1>3, <2>1, WrittenSome
  <2>7. Code(code, n)
    <3> HIDE DEF text, code
    <3> QED
        BY <2>2, <2>3, <2>4
  <2> HIDE DEF text, code, Code
  <2>8. B!DecodeString(text, base, pad) = IF pad = "wide" /\ Unaligned(data, base) THEN B!Reject
                                          ELSE B!DecodeBitwise(code, B!Width(base))
      BY <1>1, <1>3, <2>6, <2>7
  <2> QED
      BY <1>3, <2>5, <2>8 DEF text, w
<1>4. CASE data # <<>> /\ ~B!Bitwise(base)
  <2> DEFINE code == B!EncodeMathematical(data, base)
  <2>1. /\ code \in Seq(Digits(base)) /\ code # <<>>
        /\ B!DecodeMathematical(code, base) =
              IF data = Zeros(Len(data)) THEN Zeros(Len(data) + 2) ELSE data
      BY <1>4, MathematicalBack
  <2>2. text = code
      BY <1>4 DEF B!EncodeToString
  <2> HIDE DEF code
  <2>3. code \o Pads(0) = code
      BY <2>1, NoPads
  <2>4. ~Unaligned(data, base)
    <3>1. base \notin {32, 64}
        BY <1>4, Groups
    <3> QED
        BY <3>1 DEF Unaligned
  <2>5. Code(code, 0)
    <3> HIDE DEF text
    <3> QED
        BY <2>1, <2>2, <2>3, <2>4
  <2> HIDE DEF text, Code
  <2>6. B!DecodeString(text, base, pad) = B!DecodeMathematical(code, base)
      BY <1>1, <1>4, <2>1, <2>4, <2>5
  <2> QED
      BY <1>4, <2>1, <2>4, <2>6 DEF text
<1> QED
    BY <1>2, <1>3, <1>4

\* Neither standard alphabet has a power of two of characters.
LEMMA StandardBases ==
    /\ B!Base32 \in 2..256 /\ B!Base62 \in 2..256
    /\ ~B!Bitwise(B!Base32) /\ ~B!Bitwise(B!Base62)
<1>1. ASSUME NEW w \in 1..8 PROVE B!Pow2[w] # 33 /\ B!Pow2[w] # 62
  <2>1. w = 1 \/ w = 2 \/ w = 3 \/ w = 4 \/ w = 5 \/ w = 6 \/ w = 7 \/ w = 8
      OBVIOUS
  <2> QED
      BY <2>1, SmallPowers
<1> QED
    BY <1>1 DEF B!Bitwise, B!BitsPerChar, B!Base32, B!Base62

\* A number is eight bytes, and only zero is eight zeros.
LEMMA NumberBack ==
    ASSUME NEW n \in Numbers, NEW base \in {B!Base32, B!Base62}
    PROVE  B!BaseToInt64(B!Int64ToBase(n, base), base) = IF n = Zeros(8) THEN B!Reject ELSE n
<1>1. n \in Seq(0..255) /\ Len(n) = 8 /\ n # <<>>
  <2>1. n \in [1..8 -> 0..255] /\ 8 \in Nat
      BY NumbersAssumption
  <2>2. n \in Seq(0..255)
    <3>1. ASSUME NEW m \in Nat, n \in [1..m -> 0..255] PROVE n \in Seq(0..255)
        BY <3>1
    <3> QED
        BY <2>1, <3>1
  <2>3. Len(n) = 8
      BY <2>1
  <2> QED
      BY <2>2, <2>3
<1>2. base \in 2..256 /\ ~B!Bitwise(base)
    BY StandardBases
<1> DEFINE back == B!DecodeString(B!EncodeToString(n, base, "none"), base, "none")
<1>3. back = IF n = Zeros(8) THEN Zeros(10) ELSE n
  <2>1. "none" # "wide" /\ Len(n) + 2 = 10
      BY <1>1
  <2> QED
      BY <1>1, <1>2, <2>1, EncodedBack
<1>4. B!BaseToInt64(B!Int64ToBase(n, base), base) = IF back = B!Reject THEN B!Reject ELSE B!BytesToInt64(back)
    BY DEF B!BaseToInt64, B!Int64ToBase
<1> HIDE DEF back
<1>5. Len(B!Reject) = 1
    BY DEF B!Reject
<1>6. CASE n = Zeros(8)
  <2>1. Len(back) = 10
      BY <1>3, <1>6, ZerosSeq, 10 \in Nat
  <2>2. B!BytesToInt64(back) = B!Reject
      BY <2>1 DEF B!BytesToInt64
  <2> QED
      BY <1>4, <1>6, <2>2
<1>7. CASE n # Zeros(8)
  <2>1. back = n /\ back # B!Reject
    <3>1. back = n
        BY <1>3, <1>7
    <3>2. Len(n) # Len(B!Reject)
        BY <1>1, <1>5
    <3> QED
        BY <3>1, <3>2, Zenon
  <2>2. B!BytesToInt64(n) = [i \in 1..0 |-> 0] \o n
      BY <1>1 DEF B!BytesToInt64
  <2>3. [i \in 1..0 |-> 0] \o n = n
      BY <1>1
  <2> QED
      BY <1>4, <1>7, <2>1, <2>2, <2>3
<1> QED
    BY <1>6, <1>7

\* For any bytes and any alphabet of 2 to 256 characters, without padding or with
\* that of an ASCII character, DecodeString gives back what EncodeToString was
\* given, zeros alone in a base that is not a power of two excepted.  With a
\* padding byte from 0x80 on beside an ASCII alphabet it does so as long as no
\* padding is written, and refuses the padded text.  BaseToInt64 gives back every
\* int64 but 0, which it refuses.
THEOREM TextsRoundTrip == TextsSpec => []RoundTrip
<1>1. TextsInit => RoundTrip
  <2> SUFFICES ASSUME TextsInit PROVE RoundTrip
      OBVIOUS
  <2>1. call.op # "data" /\ call.op # "number"
      BY DEF TextsInit
  <2> QED
      BY <2>1, Zenon DEF RoundTrip
<1>2. RoundTrip /\ [TextsNext]_textsVars => RoundTrip'
  <2> SUFFICES ASSUME RoundTrip, [TextsNext]_textsVars PROVE RoundTrip'
      OBVIOUS
  <2>1. CASE EncodeData
    <3>1. PICK d \in Datas, base \in Bases : \E pad \in B!Paddings(base) :
            call' = [op |-> "data", data |-> d, base |-> base, pad |-> pad,
                     code |-> B!EncodeToString(d, base, pad)]
        BY <2>1 DEF EncodeData
    <3>2. PICK pad \in B!Paddings(base) :
            call' = [op |-> "data", data |-> d, base |-> base, pad |-> pad,
                     code |-> B!EncodeToString(d, base, pad)]
        BY <3>1
    <3>3. /\ call'.op = "data" /\ call'.data = d /\ call'.base = base /\ call'.pad = pad
          /\ call'.code = B!EncodeToString(d, base, pad)
        BY <3>2
    <3>4. d \in Seq(0..255) /\ base \in 2..256 /\ pad \in {"none", "ascii", "wide"}
        BY DatasAssumption, BasesAssumption DEF B!Paddings
    <3>5. B!DecodeString(B!EncodeToString(d, base, pad), base, pad) =
            IF pad = "wide" /\ Unaligned(d, base) THEN B!Reject
            ELSE IF ~B!Bitwise(base) /\ d # <<>> /\ d = Zeros(Len(d)) THEN Zeros(Len(d) + 2) ELSE d
        BY <3>4, EncodedBack
    <3> QED
        BY <3>3, <3>5, "data" # "number" DEF RoundTrip
  <2>2. CASE EncodeNumber
    <3>1. PICK n \in Numbers, base \in {B!Base32, B!Base62} :
            call' = [op |-> "number", number |-> n, base |-> base, code |-> B!Int64ToBase(n, base)]
        BY <2>2 DEF EncodeNumber
    <3>2. /\ call'.op = "number" /\ call'.number = n /\ call'.base = base
          /\ call'.code = B!Int64ToBase(n, base)
        BY <3>1
    <3>3. B!BaseToInt64(B!Int64ToBase(n, base), base) = IF n = Zeros(8) THEN B!Reject ELSE n
        BY NumberBack
    <3> QED
        BY <3>2, <3>3, "data" # "number" DEF RoundTrip
  <2>3. CASE AuthorizeUpload
    <3>1. call'.op # "data" /\ call'.op # "number"
        BY <2>3 DEF AuthorizeUpload
    <3> QED
        BY <3>1, Zenon DEF RoundTrip
  <2>4. CASE UNCHANGED call
      BY <2>4 DEF RoundTrip
  <2> QED
      BY <2>1, <2>2, <2>3, <2>4 DEF TextsNext, textsVars
<1> QED
    BY <1>1, <1>2, PTL DEF TextsSpec

=============================================================================
