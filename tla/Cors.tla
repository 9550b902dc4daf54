-------------------------------- MODULE Cors --------------------------------
(* server/middleware/cors: which origin a response allows.  apply goes       *)
(* through the allowed origins until one takes the origin of the request; an *)
(* entry with stars is compared by wildcardMatch, a pass a step.             *)
(*                                                                           *)
(* A string is a sequence of symbols, of which "://" is one.                 *)
EXTENDS WildcardMatch, SequencesExt

CONSTANTS
    Symbols,
    LowerCase,  \* of a symbol
    Origins,    \* Origin headers
    AllowLists  \* what WithAllowOrigins is given

ASSUME SymbolsAssumption == LowerCase \in [Symbols -> Symbols]
ASSUME OriginsAssumption == Origins \subseteq Seq(Symbols) /\ AllowLists \subseteq Seq(Seq(Symbols))

VARIABLES
    corsPc,             \* "idle", "entry", "walk" or "answered"
    origin,             \* of the request
    allowOrigins, allowCredentials,
    entry,              \* the index of resolveOrigin's loop
    headers             \* what apply has set, and whether it is a preflight

corsVars == <<corsPc, origin, allowOrigins, allowCredentials, entry, headers, walkVars>>

Sep == "://"
NoText == <<>>
NoHeaders == [allowOrigin |-> NoText, varyOrigin |-> FALSE, allowCredentials |-> FALSE,
              preflight |-> FALSE]

Lower(s) == [i \in 1..Len(s) |-> LowerCase[s[i]]]
EqualFold(s, t) == Lower(s) = Lower(t)

\* url.Parse of an origin: what follows the scheme.  Without one it is a path.
ExtractHost(text) ==
    LET ends == {i \in 2..Len(text) : text[i] = Sep /\ \A j \in 1..i - 1 : text[j] # Sep}
    IN  IF ends = {} THEN NoText ELSE SubSeq(text, (CHOOSE i \in ends : TRUE) + 1, Len(text))

\* compile: an empty list allows nothing, as the default does.
Compiled(list) == IF list = <<>> THEN <<NoText>> ELSE list

CorsInit ==
    /\ corsPc = "idle"
    /\ origin = NoText
    /\ allowOrigins = <<NoText>>
    /\ allowCredentials = FALSE
    /\ entry = 1
    /\ headers = NoHeaders
    /\ WalkInit

Apply(o, list, credentials) ==
    /\ corsPc = "idle"
    /\ corsPc' = "entry"
    /\ origin' = o
    /\ allowOrigins' = Compiled(list)
    /\ allowCredentials' = credentials
    /\ UNCHANGED <<entry, headers, walkVars>>

-----------------------------------------------------------------------------
request == <<origin, allowOrigins, allowCredentials>>

\* The headers for the origin resolveOrigin returned; only the answer to
\* OPTIONS ends here.
SetHeaders(to) ==
    /\ corsPc' = "answered"
    /\ \E method \in {"GET", "OPTIONS"} :
          headers' = [allowOrigin |-> to,
                      varyOrigin |-> to \notin {NoText, <<Star>>},
                      allowCredentials |-> to # NoText /\ allowCredentials,
                      preflight |-> method = "OPTIONS"]
    /\ UNCHANGED <<request, entry, walkVars>>

NextEntry ==
    /\ corsPc' = "entry"
    /\ entry' = entry + 1
    /\ UNCHANGED <<request, headers, walkVars>>

\* What originMatches compares with an entry, and whether it compares at all.
Part(allowed) == IF Contains(allowed, Sep) THEN origin ELSE ExtractHost(origin)
Comparable(allowed) == origin # NoText /\ allowed # NoText /\ Part(allowed) # NoText

AtEntry == corsPc = "entry" /\ entry <= Len(allowOrigins)
Allowed == allowOrigins[entry]

NoEntryLeft ==
    /\ corsPc = "entry" /\ entry > Len(allowOrigins)
    /\ SetHeaders(NoText)

AnyOrigin ==
    /\ AtEntry /\ Allowed = <<Star>>
    /\ SetHeaders(IF allowCredentials /\ origin # NoText THEN origin ELSE <<Star>>)

Incomparable ==
    /\ AtEntry /\ Allowed # <<Star>> /\ ~Comparable(Allowed)
    /\ NextEntry

CompareSpelling ==
    /\ AtEntry /\ Comparable(Allowed) /\ ~Contains(Allowed, Star)
    /\ IF EqualFold(Part(Allowed), Allowed) THEN SetHeaders(origin) ELSE NextEntry

ComparePattern ==
    /\ AtEntry /\ Allowed # <<Star>> /\ Comparable(Allowed) /\ Contains(Allowed, Star)
    /\ corsPc' = "walk"
    /\ CallWalk(Lower(Part(Allowed)), Lower(Allowed))
    /\ UNCHANGED <<request, entry, headers>>

Walk ==
    /\ corsPc = "walk" /\ WalkNext
    /\ UNCHANGED <<corsPc, request, entry, headers>>

WalkReturns ==
    /\ corsPc = "walk" /\ verdict # "none"
    /\ IF verdict = "true" THEN SetHeaders(origin) ELSE NextEntry

CorsNext ==
    \/ \E o \in Origins, list \in AllowLists, credentials \in BOOLEAN : Apply(o, list, credentials)
    \/ NoEntryLeft \/ AnyOrigin \/ Incomparable \/ CompareSpelling \/ ComparePattern
    \/ Walk \/ WalkReturns

CorsSpec == CorsInit /\ [][CorsNext]_corsVars

-----------------------------------------------------------------------------
\* An entry other than "*" takes an origin when it spells it, or its stars can
\* stand for what it leaves out.
Takes(allowed) ==
    /\ Comparable(allowed)
    /\ IF Contains(allowed, Star) THEN Reads(Lower(Part(allowed)), Lower(allowed))
       ELSE EqualFold(Part(allowed), allowed)

\* The index walk of wildcardMatch, which takes back its last star only, and
\* the loop over the entries decide as the entries read: an origin is allowed
\* when an entry is "*", spells it, or has stars for some of it, and "*" is
\* never answered to a request with an origin when credentials are on.
OriginAllowed ==
    corsPc = "answered" =>
        LET entries == {allowOrigins[i] : i \in 1..Len(allowOrigins)}
            any == <<Star>> \in entries
            to == headers.allowOrigin
        IN  /\ to # NoText <=> any \/ \E allowed \in entries : Takes(allowed)
            /\ to # NoText =>
                  \/ to = origin
                  \/ any /\ to = <<Star>> /\ ~(headers.allowCredentials /\ origin # NoText)

\* A pass of the loop moves on, even one that goes back: what the last star
\* stands for grows, or the value or the pattern gets shorter.  None of these
\* has more than Len of the two passes, so the loop ends.
Further ==
    \/ matchIdx' > matchIdx
    \/ matchIdx' = matchIdx /\ valueIdx' > valueIdx
    \/ matchIdx' = matchIdx /\ valueIdx' = valueIdx /\ patternIdx' > patternIdx
    \/ verdict = "none" /\ verdict' # "none"
InBounds == matchIdx \in 1..Len(value) + 1 /\ valueIdx \in matchIdx..Len(value) + 1
                /\ patternIdx \in 1..Len(pattern) + 1
MovesOn == [][corsPc = "walk" /\ corsPc' = "walk" => InBounds' /\ Further]_corsVars

=============================================================================
