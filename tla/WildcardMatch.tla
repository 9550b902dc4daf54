--------------------------- MODULE WildcardMatch ---------------------------
(* wildcardMatch of server/middleware/cors (cors.go:208): the loop that      *)
(* decides whether an origin matches an entry with stars, one pass a step.   *)
(* It keeps one star to go back to, the last one, and so never looks at the  *)
(* other ways the earlier stars could have been read.                        *)
(*                                                                           *)
(* Indices begin at 1, and a starIdx of -1 is 0.  The early return for an    *)
(* empty pattern is left out: originMatches, the caller, refuses one before. *)
EXTENDS Integers, Sequences

VARIABLES
    value, pattern,         \* the arguments
    valueIdx, patternIdx,
    starIdx,                \* the last star that was met
    matchIdx,               \* where what it stands for ends
    verdict                 \* what wildcardMatch returned, "none" before

walkVars == <<value, pattern, valueIdx, patternIdx, starIdx, matchIdx, verdict>>

Star == "*"

\* Before the first call.
WalkInit ==
    /\ value = <<>> /\ pattern = <<>>
    /\ valueIdx = 1 /\ patternIdx = 1
    /\ starIdx = 0 /\ matchIdx = 1
    /\ verdict = "none"

CallWalk(v, p) ==
    /\ value' = v /\ pattern' = p
    /\ valueIdx' = 1 /\ patternIdx' = 1
    /\ starIdx' = 0 /\ matchIdx' = 1
    /\ verdict' = "none"

Answer(v) ==
    /\ verdict' = v
    /\ UNCHANGED <<value, pattern, valueIdx, patternIdx, starIdx, matchIdx>>

Walking == verdict = "none"
More == valueIdx <= Len(value)
AtStar == patternIdx <= Len(pattern) /\ pattern[patternIdx] = Star
AtSymbol == More /\ ~AtStar /\ patternIdx <= Len(pattern) /\ pattern[patternIdx] = value[valueIdx]

\* A star is where to go back to from now on.  Variant: the first one stays.
BadMeetStar ==
    /\ Walking /\ More /\ AtStar
    /\ starIdx' = IF starIdx = 0 THEN patternIdx ELSE starIdx
    /\ matchIdx' = IF starIdx = 0 THEN valueIdx ELSE matchIdx
    /\ patternIdx' = patternIdx + 1
    /\ UNCHANGED <<value, pattern, valueIdx, verdict>>

MeetStar ==
    /\ Walking /\ More /\ AtStar
    /\ starIdx' = patternIdx
    /\ matchIdx' = valueIdx
    /\ patternIdx' = patternIdx + 1
    /\ UNCHANGED <<value, pattern, valueIdx, verdict>>

MatchSymbol ==
    /\ Walking /\ AtSymbol
    /\ valueIdx' = valueIdx + 1
    /\ patternIdx' = patternIdx + 1
    /\ UNCHANGED <<value, pattern, starIdx, matchIdx, verdict>>

\* The last star stands for one symbol more.
BackToStar ==
    /\ Walking /\ More /\ ~AtStar /\ ~AtSymbol
    /\ starIdx # 0
    /\ patternIdx' = starIdx + 1
    /\ matchIdx' = matchIdx + 1
    /\ valueIdx' = matchIdx + 1
    /\ UNCHANGED <<value, pattern, starIdx, verdict>>

NoStar ==
    /\ Walking /\ More /\ ~AtStar /\ ~AtSymbol
    /\ starIdx = 0
    /\ Answer("false")

\* The second loop: what is left of the pattern may be stars.
SkipStar ==
    /\ Walking /\ ~More /\ AtStar
    /\ patternIdx' = patternIdx + 1
    /\ UNCHANGED <<value, pattern, valueIdx, starIdx, matchIdx, verdict>>

WalkEnds ==
    /\ Walking /\ ~More /\ ~AtStar
    /\ Answer(IF patternIdx = Len(pattern) + 1 THEN "true" ELSE "false")

WalkNext ==
    MeetStar \/ MatchSymbol \/ BackToStar \/ NoStar \/ SkipStar \/ WalkEnds

-----------------------------------------------------------------------------
\* The text s from v on reads as the pattern t from p on: each element of the
\* pattern begins somewhere in the text, a symbol stands for itself and a star
\* for what there is up to the next element.
Begins(s, t, v, p, begin) ==
    /\ begin[p] = v
    /\ begin[Len(t) + 1] = Len(s) + 1
    /\ \A i \in p..Len(t) :
          IF t[i] = Star THEN begin[i] <= begin[i + 1]
          ELSE begin[i] <= Len(s) /\ t[i] = s[begin[i]] /\ begin[i + 1] = begin[i] + 1

Readings(s, t, p) == [p..Len(t) + 1 -> 1..Len(s) + 1]
Reads(s, t) == \E begin \in Readings(s, t, 1) : Begins(s, t, 1, 1, begin)

=============================================================================
