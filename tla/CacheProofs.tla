---------------------------- MODULE CacheProofs ----------------------------
(***************************************************************************)
(* Proofs about the two that answer from a cache.  CacheLoader, for every  *)
(* set of keys and of callers and any number of versions: reads of the map *)
(* are current, what was taken from the cache does not come back, and a    *)
(* flight is alone with its key.  ReverseProxy, for any number of requests *)
(* for a path and bodies of any length: answers and files are whole, and   *)
(* the flag of a path finds its way back.                                  *)
(***************************************************************************)
EXTENDS CacheLoader, ReverseProxy, TLAPS

(* The steps of the map, all that CacheLoader does to its variables.       *)
MapStep == Map!Next \/ UNCHANGED cacheVars

-----------------------------------------------------------------------------
(* The invariant of the map.                                               *)

Resting ==
    \A r \in Callers : rd[r] = "out" =>
        due[r] = {} /\ got[r] = Map!Nothing /\ saw[r] = Map!Nothing

(* The value goes before its time.                                         *)
Dropped == \A r \in Callers : rd[r] = "delExpiration" => store[at[r]] = NoValue

(* What had expired when a reader came stays so, or is gone altogether.    *)
DueIsGone ==
    \A r \in Callers : \A k \in due[r] :
        /\ saw[r][k] = NoValue
        /\ expiration[k] = "passed" \/ (expiration[k] = "none" /\ store[k] = NoValue)

(* What a reader has still to look at is what it was, or gone.             *)
LeftIsKept ==
    \A r \in Callers : \A k \in left[r] :
        /\ got[r][k] = NoValue
        /\ k \notin due[r] => store[k] \in {saw[r][k], NoValue}

MapInv ==
    /\ Map!TypeOK
    /\ Resting
    /\ Dropped
    /\ DueIsGone
    /\ LeftIsKept
    /\ ReadsCurrent

-----------------------------------------------------------------------------
(* The invariant of load.                                                  *)

Calling == {"get", "do", "wait", "build", "set", "return"}
Executing == {"build", "set", "return"}

Placed ==
    \A c \in Callers :
        /\ pc[c] \in Calling => key[c] \in Keys
        /\ pc[c] \notin Calling => key[c] = NoKey /\ ~ shared[c]
        /\ pc[c] \in {"do", "wait"} => shared[c]
        /\ val[c] # NoValue => pc[c] \in {"set", "return"}
        /\ pc[c] = "set" => val[c] # NoValue
        /\ pc[c] = "get" => rd[c] # "out"

(* What is gone is older than the source, and in nobody's hands.           *)
GoneIsPast ==
    /\ \A k \in Keys : \A v \in gone[k] : v < source[k]
    /\ \A c \in Callers : val[c] # NoValue => val[c] \notin gone[key[c]]

(* What was gone when load was called still is, and is not what it found.  *)
StillGone ==
    \A c \in Callers :
        /\ pc[c] \in Calling => before[c] \subseteq gone[key[c]]
        /\ pc[c] = "get" => saw[c][key[c]] \notin before[c]
        /\ pc[c] # "done" => ret[c] = NoValue

(* Who executes a call of the group is one of its callers.                 *)
Flights ==
    \A k \in Keys : flight[k] # NoCaller =>
        /\ flight[k] \in Callers
        /\ key[flight[k]] = k
        /\ shared[flight[k]]
        /\ pc[flight[k]] \in Executing

IInv ==
    /\ TypeOK
    /\ MapInv
    /\ Placed
    /\ GoneIsPast
    /\ StillGone
    /\ Fresh
    /\ Flights
    /\ OneBuild

-----------------------------------------------------------------------------
(* The map.                                                                *)

(* Versions are numbers, and a key has all of its own.                     *)
LEMMA VersionsAreNat ==
    /\ Versions \subseteq Nat
    /\ \A k \in Keys : \A n \in 0..MaxVersion[k] : n \in Versions
    /\ \A k \in Keys : 0 \in Versions
  BY MaxVersionAssumption DEF Versions

(* Each action of the map keeps the types.                                 *)
LEMMA MapTypes == Map!TypeOK /\ Map!Next => Map!TypeOK'
<1> SUFFICES ASSUME Map!TypeOK, Map!Next PROVE Map!TypeOK'
  OBVIOUS
<1> USE DEF Map!TypeOK, Map!mapVars, Map!readerVars, Map!NoKey, Map!Nothing
<1>1. CASE \E r \in Callers : \E K \in SUBSET Keys : Map!RLock(r, K)
  BY <1>1 DEF Map!RLock, Map!Visible
<1>2. CASE \E r \in Callers : \E k \in Keys : Map!Read(r, k)
  <2>1. PICK r \in Callers, k \in Keys : Map!Read(r, k)
    BY <1>2
  <2>2. /\ rd' \in [Callers -> {"out", "read", "delStore", "delExpiration"}]
        /\ left' \in [Callers -> SUBSET Keys]
        /\ at' \in [Callers -> Keys \cup {Map!NoKey}]
    <3>1. rd' \in [Callers -> {"out", "read", "delStore", "delExpiration"}]
      <4>1. rd' = rd \/ rd' = [rd EXCEPT ![r] = "delStore"]
        BY <2>1 DEF Map!Read
      <4>2. rd \in [Callers -> {"out", "read", "delStore", "delExpiration"}]
        OBVIOUS
      <4> HIDE DEF Map!TypeOK
      <4> QED
        BY <4>1, <4>2
    <3>2. left' \in [Callers -> SUBSET Keys]
      BY <2>1 DEF Map!Read
    <3>3. at' \in [Callers -> Keys \cup {Map!NoKey}]
      <4>1. at' = at \/ at' = [at EXCEPT ![r] = k]
        BY <2>1 DEF Map!Read
      <4>2. at \in [Callers -> Keys \cup {Map!NoKey}]
        OBVIOUS
      <4> HIDE DEF Map!TypeOK
      <4> QED
        BY <4>1, <4>2
    <3> QED
      BY <3>1, <3>2, <3>3
  <2>3. got' \in [Callers -> [Keys -> Versions \cup {NoValue}]]
    <3>1. [got[r] EXCEPT ![k] = store[k]] \in [Keys -> Versions \cup {NoValue}]
      OBVIOUS
    <3> QED
      BY <2>1, <3>1 DEF Map!Read
  <2>4. \A q \in Callers : /\ rd'[q] = "out" => left'[q] = {}
                          /\ rd'[q] \in {"delStore", "delExpiration"} => at'[q] \in Keys
    BY <2>1 DEF Map!Read
  <2> QED
    BY <2>1, <2>2, <2>3, <2>4 DEF Map!Read
<1>3. CASE \E r \in Callers : Map!Delete(r)
  <2>1. PICK r \in Callers : Map!Delete(r)
    BY <1>3
  <2>2. CASE rd[r] = "delStore"
    <3>1. /\ store' \in [Keys -> Versions \cup {NoValue}]
          /\ rd' \in [Callers -> {"out", "read", "delStore", "delExpiration"}]
          /\ \A q \in Callers : rd'[q] = IF q = r THEN "delExpiration" ELSE rd[q]
          /\ UNCHANGED <<expiration, at, fatal, left, due, got, saw>>
      BY <2>1, <2>2 DEF Map!Delete
    <3> QED
      BY <2>2, <3>1
  <2>3. CASE rd[r] = "delExpiration"
    <3>1. /\ expiration' \in [Keys -> {"none", "ahead", "passed"}]
          /\ rd' \in [Callers -> {"out", "read", "delStore", "delExpiration"}]
          /\ at' \in [Callers -> Keys \cup {Map!NoKey}]
          /\ \A q \in Callers : rd'[q] = IF q = r THEN "read" ELSE rd[q]
          /\ \A q \in Callers \ {r} : at'[q] = at[q]
          /\ UNCHANGED <<store, fatal, left, due, got, saw>>
      BY <2>1, <2>3 DEF Map!Delete
    <3> QED
      BY <2>3, <3>1
  <2> QED
    BY <2>1, <2>2, <2>3 DEF Map!Delete
<1>4. CASE \E r \in Callers : Map!RUnlock(r)
  BY <1>4 DEF Map!RUnlock, Map!Leave
<1>5. CASE \E K \in SUBSET Keys : \E valMap \in [K -> Versions], exp \in {"none", "ahead"} :
               Map!Overwrite(valMap, exp)
  BY <1>5 DEF Map!Overwrite
<1>6. CASE \E K \in SUBSET Keys : Map!MultiDel(K)
  BY <1>6 DEF Map!MultiDel
<1>7. CASE \E k \in Keys : Map!Expire(k)
  BY <1>7 DEF Map!Expire
<1>8. CASE Map!MapFault
  BY <1>8 DEF Map!MapFault
<1> QED
  BY <1>1, <1>2, <1>3, <1>4, <1>5, <1>6, <1>7, <1>8
  DEF Map!Next, Map!ReaderNext, Map!MultiSet, Map!MultiSetWithTTL, Map!DelAll, Map!GetDel, Map!Count

(* What a step of a reader leaves of the map: a key keeps its value and    *)
(* its time, or loses the value, or loses the time after the value.        *)
LEMMA ReadersOnlyDelete ==
  ASSUME MapInv, NEW r \in Callers, Map!Delete(r)
  PROVE  /\ \A k \in Keys : store'[k] \in {store[k], NoValue}
         /\ \A k \in Keys : expiration'[k] # expiration[k] =>
                               expiration'[k] = "none" /\ store'[k] = NoValue
         /\ \A q \in Callers : rd[q] = "out" <=> rd'[q] = "out"
         /\ Dropped'
         /\ UNCHANGED <<left, due, got, saw>>
<1> USE DEF MapInv, Map!TypeOK, Dropped
<1>1. CASE rd[r] = "delStore"
  <2>1. /\ store' = [store EXCEPT ![at[r]] = NoValue]
        /\ rd' = [rd EXCEPT ![r] = "delExpiration"]
        /\ at[r] \in Keys
        /\ UNCHANGED <<expiration, at, left, due, got, saw>>
    BY <1>1 DEF Map!Delete
  <2>2. /\ store'[at[r]] = NoValue
        /\ \A k \in Keys : store'[k] \in {store[k], NoValue}
    BY <2>1
  <2>3. \A q \in Callers : rd'[q] = IF q = r THEN "delExpiration" ELSE rd[q]
    BY <2>1
  <2>4. \A q \in Callers : rd[q] = "delExpiration" => store'[at[q]] = NoValue
    <3> SUFFICES ASSUME NEW q \in Callers, rd[q] = "delExpiration"
                 PROVE  store'[at[q]] = NoValue
      OBVIOUS
    <3>1. at[q] \in Keys /\ store[at[q]] = NoValue
      OBVIOUS
    <3> QED
      BY <2>2, <3>1
  <2>5. Dropped'
    BY <2>1, <2>2, <2>3, <2>4
  <2>6. \A q \in Callers : rd[q] = "out" <=> rd'[q] = "out"
    BY <1>1, <2>3
  <2> HIDE DEF MapInv, Map!TypeOK, Dropped
  <2> QED
    BY <2>1, <2>2, <2>5, <2>6
<1>2. CASE rd[r] = "delExpiration"
  <2>1. /\ expiration' = [expiration EXCEPT ![at[r]] = "none"]
        /\ rd' = [rd EXCEPT ![r] = "read"]
        /\ at' = [at EXCEPT ![r] = Map!NoKey]
        /\ at[r] \in Keys
        /\ UNCHANGED <<store, left, due, got, saw>>
    BY <1>2 DEF Map!Delete
  <2>2. \A k \in Keys : expiration'[k] # expiration[k] =>
                           expiration'[k] = "none" /\ store'[k] = NoValue
    BY <1>2, <2>1
  <2>3. \A q \in Callers : rd'[q] = IF q = r THEN "read" ELSE rd[q]
    BY <2>1
  <2>4. \A q \in Callers : rd'[q] = "delExpiration" => rd[q] = "delExpiration" /\ at'[q] = at[q]
    BY <2>1, <2>3
  <2>5. Dropped'
    BY <2>1, <2>4
  <2>6. \A q \in Callers : rd[q] = "out" <=> rd'[q] = "out"
    BY <1>2, <2>3
  <2> HIDE DEF MapInv, Map!TypeOK, Dropped
  <2> QED
    BY <2>1, <2>2, <2>5, <2>6
<1> QED
  BY <1>1, <1>2 DEF Map!Delete

(* While somebody holds the lock for reading nobody sets.                  *)
LEMMA MapKeeps == MapInv /\ MapStep => MapInv'
<1> SUFFICES ASSUME MapInv, MapStep PROVE MapInv'
  OBVIOUS
<1> USE DEF Map!mapVars, Map!readerVars
<1>0. CASE UNCHANGED cacheVars
  BY <1>0 DEF cacheVars, MapInv, Map!TypeOK, Resting, Dropped, DueIsGone, LeftIsKept,
              ReadsCurrent, Map!ReadsCurrent, Map!Visible
<1> SUFFICES ASSUME Map!Next PROVE MapInv'
  BY <1>0 DEF MapStep
<1> Map!TypeOK'
  BY MapTypes DEF MapInv
<1>1. ASSUME NEW r \in Callers, NEW K \in SUBSET Keys, Map!RLock(r, K)
      PROVE  MapInv'
  <2> USE <1>1 DEF MapInv, Map!TypeOK, Map!RLock
  <2>1. /\ got'[r] = Map!Nothing
        /\ left'[r] = K
        /\ \A k \in Keys : k \in due'[r] <=> k \in K /\ expiration[k] = "passed"
        /\ \A k \in Keys : saw'[r][k] = IF k \in K THEN Map!Visible[k] ELSE NoValue
    BY DEF Resting
  <2>2. Resting' /\ Dropped'
    BY DEF Resting, Dropped
  <2>3. DueIsGone'
    BY <2>1 DEF DueIsGone, Map!Visible
  <2>4. LeftIsKept'
    BY <2>1 DEF LeftIsKept, Map!Visible, Map!Nothing
  <2>5. ReadsCurrent'
    BY <2>1 DEF ReadsCurrent, Map!ReadsCurrent, Map!Visible, Map!Nothing
  <2> QED
    BY <2>2, <2>3, <2>4, <2>5
<1>2. ASSUME NEW r \in Callers, NEW k \in Keys, Map!Read(r, k)
      PROVE  MapInv'
  <2> USE <1>2 DEF MapInv, Map!TypeOK, Map!Read
  <2>0. /\ rd'[r] \in {"read", "delStore"}
        /\ \A q \in Callers \ {r} : rd'[q] = rd[q] /\ at'[q] = at[q] /\ got'[q] = got[q]
        /\ UNCHANGED <<store, due, saw>>
    OBVIOUS
  <2>a. Resting /\ Dropped
    OBVIOUS
  <2>1. Resting' /\ Dropped'
    <3> HIDE <1>2 DEF MapInv, Map!TypeOK, Map!Read
    <3>1. Resting'
      BY <2>0, <2>a DEF Resting
    <3>2. Dropped'
      BY <2>0, <2>a DEF Dropped
    <3> QED
      BY <3>1, <3>2
  <2>2. DueIsGone'
    BY DEF DueIsGone
  <2>3. /\ \A q \in Callers \ {r} : got'[q] = got[q] /\ left'[q] = left[q]
        /\ left'[r] = left[r] \ {k}
        /\ \A j \in Keys \ {k} : got'[r][j] = got[r][j]
    OBVIOUS
  <2>4. LeftIsKept'
    BY <2>3 DEF LeftIsKept
  <2>5. got'[r][k] # saw[r][k] => got'[r][k] = NoValue /\ Map!Visible[k] = NoValue
    <3>1. CASE k \in due[r] /\ expiration[k] # "none"
      BY <3>1 DEF LeftIsKept, DueIsGone
    <3>2. CASE k \in due[r] /\ expiration[k] = "none"
      BY <3>2 DEF LeftIsKept, DueIsGone
    <3>3. CASE k \notin due[r]
      BY <3>3 DEF LeftIsKept, Map!Visible
    <3> QED
      BY <3>1, <3>2, <3>3
  <2>6. ReadsCurrent'
    BY <2>3, <2>5 DEF ReadsCurrent, Map!ReadsCurrent, Map!Visible
  <2> QED
    BY <2>1, <2>2, <2>4, <2>6
<1>3. ASSUME NEW r \in Callers, Map!Delete(r)
      PROVE  MapInv'
  <2> USE ReadersOnlyDelete, <1>3 DEF MapInv, Map!TypeOK
  <2>1. Resting'
    BY DEF Resting
  <2>2. DueIsGone'
    BY DEF DueIsGone
  <2>3. LeftIsKept'
    BY DEF LeftIsKept
  <2>4. \A k \in Keys : Map!Visible[k] = NoValue => Map!Visible'[k] = NoValue
    BY DEF Map!Visible
  <2>5. ReadsCurrent'
    BY <2>4 DEF ReadsCurrent, Map!ReadsCurrent
  <2> QED
    BY <2>1, <2>2, <2>3, <2>5
<1>4. ASSUME NEW r \in Callers, Map!RUnlock(r)
      PROVE  MapInv'
  <2> USE <1>4 DEF MapInv, Map!TypeOK, Map!RUnlock, Map!Leave
  <2>1. Resting' /\ Dropped' /\ DueIsGone' /\ LeftIsKept'
    BY DEF Resting, Dropped, DueIsGone, LeftIsKept
  <2>2. ReadsCurrent'
    BY DEF ReadsCurrent, Map!ReadsCurrent, Map!Visible
  <2> QED
    BY <2>1, <2>2
<1>5. CASE Map!Lock /\ UNCHANGED Map!readerVars
  <2>1. Resting' /\ Dropped' /\ DueIsGone' /\ LeftIsKept'
    BY <1>5 DEF MapInv, Map!TypeOK, Map!Lock, Resting, Dropped, DueIsGone, LeftIsKept
  <2>2. ReadsCurrent'
    BY <1>5 DEF MapInv, Map!Lock, Resting, ReadsCurrent, Map!ReadsCurrent
  <2> QED
    BY <2>1, <2>2 DEF MapInv
<1>6. ASSUME NEW k \in Keys, Map!Expire(k)
      PROVE  MapInv'
  <2> USE <1>6 DEF MapInv, Map!TypeOK, Map!Expire
  <2>1. Resting' /\ Dropped' /\ DueIsGone' /\ LeftIsKept'
    BY DEF Resting, Dropped, DueIsGone, LeftIsKept
  <2>2. \A j \in Keys : Map!Visible[j] = NoValue => Map!Visible'[j] = NoValue
    BY DEF Map!Visible
  <2>3. ReadsCurrent'
    BY <2>2 DEF ReadsCurrent, Map!ReadsCurrent
  <2> QED
    BY <2>1, <2>3
<1>7. CASE Map!MapFault
  BY <1>7 DEF Map!MapFault, MapInv, Resting, Dropped, DueIsGone, LeftIsKept, ReadsCurrent,
              Map!ReadsCurrent, Map!Visible
<1> QED
  BY <1>1, <1>2, <1>3, <1>4, <1>5, <1>6, <1>7
  DEF Map!Next, Map!ReaderNext, Map!MultiSet, Map!MultiSetWithTTL, Map!Overwrite,
      Map!MultiDel, Map!DelAll, Map!GetDel, Map!Count

(* Only a set shows what was not to be seen before.                        *)
LEMMA NothingShows ==
  ASSUME MapInv,
         \/ UNCHANGED cacheVars
         \/ \E r \in Callers, K \in SUBSET Keys : Map!RLock(r, K)
         \/ \E r \in Callers, k \in Keys : Map!Read(r, k)
         \/ \E r \in Callers : Map!Delete(r) \/ Map!RUnlock(r)
         \/ \E K \in SUBSET Keys : Map!MultiDel(K)
         \/ \E k \in Keys : Map!Expire(k)
         \/ Map!MapFault
  PROVE  \A k \in Keys : Map!Visible'[k] \in {Map!Visible[k], NoValue}
<1> USE DEF MapInv, Map!TypeOK, Map!Visible, Map!mapVars
<1>1. CASE \E r \in Callers : Map!Delete(r)
  BY <1>1, ReadersOnlyDelete
<1>2. CASE UNCHANGED <<store, expiration>>
  BY <1>2
<1>3. CASE \E K \in SUBSET Keys : Map!MultiDel(K)
  BY <1>3 DEF Map!MultiDel
<1>4. CASE \E k \in Keys : Map!Expire(k)
  BY <1>4 DEF Map!Expire
<1> QED
  BY <1>1, <1>2, <1>3, <1>4
  DEF cacheVars, Map!RLock, Map!Read, Map!RUnlock, Map!Leave, Map!MapFault

(* The versions of a set are those to be seen then.                        *)
LEMMA SetShows ==
  ASSUME MapInv, NEW K \in SUBSET Keys, NEW valMap \in [K -> Versions],
         Map!MultiSet(valMap) \/ \E negative \in BOOLEAN : Map!MultiSetWithTTL(valMap, negative)
  PROVE  \A k \in Keys : Map!Visible'[k] = IF k \in K THEN valMap[k] ELSE Map!Visible[k]
  BY DEF MapInv, Map!TypeOK, Map!Visible, Map!MultiSet, Map!MultiSetWithTTL, Map!Overwrite

-----------------------------------------------------------------------------
(* load.                                                                   *)

(* All that CacheLoader does to the map are its calls.                     *)
LEMMA NextUsesMap == IInv /\ [Next]_vars => MapStep
<1> SUFFICES ASSUME IInv, Next PROVE MapStep
  BY DEF vars, cacheVars, MapStep
<1> USE DEF MapStep
<1>1. ASSUME NEW c \in Callers, SetBuilt(c), ~ fatal
      PROVE  MapStep
  <2>1. key[c] \in Keys /\ [k \in {key[c]} |-> val[c]] \in [{key[c]} -> Versions]
    BY <1>1 DEF SetBuilt, IInv, Placed, Calling, TypeOK
  <2> QED
    BY <1>1, <2>1 DEF SetBuilt, Map!Next
<1>2. ASSUME NEW K \in SUBSET Keys, OtherSet(K), ~ fatal
      PROVE  MapStep
  <2>1. [k \in K |-> source[k]] \in [K -> Versions]
    BY DEF IInv, TypeOK
  <2> QED
    BY <1>2, <2>1 DEF OtherSet, Map!Next
<1>3. ASSUME NEW c \in Callers, Goes(c) \/ GoOn(c) \/ OtherRead(c), ~ fatal
      PROVE  MapStep
  BY <1>3 DEF Goes, GoOn, OtherRead, Hit, Miss, Do, Build, Return, Access, OtherReadEnds,
              Map!Next, Map!ReaderNext
<1>4. ASSUME NEW c \in Callers, NEW k \in Keys, NEW single \in BOOLEAN, Load(c, k, single), ~ fatal
      PROVE  MapStep
  BY <1>4 DEF Load, Map!Next, Map!ReaderNext
<1>5. ASSUME (\E k \in Keys : Update(k) \/ Expires(k)) \/ OtherDel \/ OtherCount \/ Fault, ~ fatal
      PROVE  MapStep
  BY <1>5 DEF Update, Expires, OtherDel, OtherCount, Fault, Map!Next
<1>6. CASE Ended
  BY <1>6 DEF Ended, vars, cacheVars
<1> QED
  BY <1>1, <1>2, <1>3, <1>4, <1>5, <1>6 DEF Next, Running

(* Each action of CacheLoader keeps the types of what is not the map's.    *)
LEMMA Types == IInv /\ [Next]_vars => TypeOK'
<1> SUFFICES ASSUME IInv, [Next]_vars PROVE TypeOK'
  OBVIOUS
<1>1. Map!TypeOK'
  BY NextUsesMap, MapKeeps DEF IInv, MapInv
<1> USE <1>1 DEF IInv, TypeOK
<1>2. ASSUME NEW c \in Callers, NEW k \in Keys, NEW single \in BOOLEAN, Load(c, k, single)
      PROVE  TypeOK'
  BY <1>2 DEF Load
<1>3. ASSUME NEW c \in Callers, NEW builder \in BOOLEAN, NEW decoded \in BOOLEAN,
             Hit(c, builder, decoded)
      PROVE  TypeOK'
  <2>1. key[c] \in Keys
    BY <1>3 DEF Hit, Placed, Calling
  <2>2. got[c][key[c]] \in Versions \cup {NoValue}
    BY <2>1 DEF Map!TypeOK
  <2> QED
    BY <1>3, <2>2 DEF Hit, Give
<1>4. ASSUME NEW c \in Callers, Miss(c) \/ Do(c)
      PROVE  TypeOK'
  BY <1>4 DEF Miss, Do
<1>5. ASSUME NEW c \in Callers, Build(c)
      PROVE  TypeOK'
  <2>1. key[c] \in Keys
    BY <1>5 DEF Build, Placed, Calling
  <2> QED
    BY <1>5, <2>1 DEF Build
<1>6. ASSUME NEW c \in Callers, SetBuilt(c) \/ GoOn(c)
      PROVE  TypeOK'
  BY <1>6 DEF SetBuilt, GoOn
<1>7. ASSUME NEW c \in Callers, Return(c)
      PROVE  TypeOK'
  BY <1>7 DEF Return, Give
<1>8. ASSUME NEW k \in Keys, Update(k)
      PROVE  TypeOK'
  <2>1. source[k] \in Nat /\ MaxVersion[k] \in Nat
    BY VersionsAreNat, MaxVersionAssumption
  <2>2. source[k] < MaxVersion[k] /\ source' = [source EXCEPT ![k] = source[k] + 1]
    BY <1>8 DEF Update
  <2>3. source[k] + 1 \in 0..MaxVersion[k]
    BY <2>1, <2>2
  <2>4. source' \in [Keys -> Versions]
    BY <2>2, <2>3, VersionsAreNat
  <2> QED
    BY <1>8, <2>4 DEF Update, loadVars
<1>9. ASSUME NEW K \in SUBSET Keys, Retire(K), UNCHANGED <<source, loadVars>>
      PROVE  TypeOK'
  BY <1>9 DEF Retire, loadVars
<1>10. CASE UNCHANGED <<source, loadVars, gone>>
  BY <1>10 DEF loadVars
<1> QED
  BY <1>2, <1>3, <1>4, <1>5, <1>6, <1>7, <1>8, <1>9, <1>10
  DEF Next, Running, Goes, Expires, OtherSet, OtherDel, OtherCount, Access, OtherRead,
      OtherReadEnds, Fault, Ended, vars

(* The callers and their flights.                                          *)
CallersInv == Placed /\ Flights /\ OneBuild

InFlight == Executing \cup {"wait"}

(* A caller that is in no flight before and after changes none.            *)
LEMMA OutOfFlight ==
  ASSUME Placed, Flights, OneBuild, NEW c \in Callers, UNCHANGED flight,
         shared[c] => pc[c] \notin InFlight,
         shared'[c] => pc'[c] \notin InFlight,
         \A d \in Callers \ {c} : pc'[d] = pc[d] /\ key'[d] = key[d] /\ shared'[d] = shared[d]
  PROVE  Flights' /\ OneBuild'
<1> USE DEF InFlight, Executing
<1>1. \A k \in Keys : flight[k] # NoCaller => flight[k] \in Callers \ {c}
  BY DEF Flights
<1>2. Flights'
  BY <1>1 DEF Flights
<1>3. \A d \in Callers : shared'[d] /\ pc'[d] \in InFlight => d # c
  OBVIOUS
<1>4. OneBuild'
  <2> SUFFICES ASSUME NEW d \in Callers, shared'[d], pc'[d] \in InFlight
               PROVE  LET lead == flight[key[d]]
                      IN  /\ lead # NoCaller /\ key'[lead] = key[d]
                          /\ pc'[lead] \in Executing
                          /\ pc[d] # "wait" => lead = d
    BY <1>3 DEF OneBuild
  <2>1. d # c /\ shared[d] /\ pc[d] \in InFlight /\ key'[d] = key[d]
    BY <1>3
  <2>2. LET lead == flight[key[d]]
        IN  /\ lead # NoCaller /\ key[lead] = key[d]
            /\ pc[lead] \in Executing
            /\ pc[d] # "wait" => lead = d
    BY <2>1 DEF OneBuild
  <2>3. flight[key[d]] \in Callers \ {c}
    BY <1>1, <2>1, <2>2 DEF Placed, Calling
  <2> QED
    BY <2>1, <2>2, <2>3
<1> QED
  BY <1>2, <1>4

(* Callers that wait for nothing come and go.                              *)
LEMMA CallersComeAndGo ==
  ASSUME IInv, NEW c \in Callers,
         \/ \E k \in Keys, single \in BOOLEAN : Load(c, k, single)
         \/ \E builder, decoded \in BOOLEAN : Hit(c, builder, decoded)
         \/ Miss(c)
         \/ GoOn(c)
  PROVE  CallersInv'
<1> USE DEF IInv, TypeOK, InFlight, Executing
<1> DEFINE Others == \A d \in Callers \ {c} :
                         /\ pc'[d] = pc[d] /\ key'[d] = key[d] /\ shared'[d] = shared[d]
                         /\ val'[d] = val[d] /\ rd'[d] = rd[d]
           Own == /\ shared[c] => pc[c] \notin InFlight
                  /\ shared'[c] => pc'[c] \notin InFlight
                  /\ UNCHANGED flight
                  /\ pc'[c] \in Calling => key'[c] \in Keys
                  /\ pc'[c] \notin Calling => key'[c] = NoKey /\ ~ shared'[c]
                  /\ pc'[c] \in {"do", "wait"} => shared'[c]
                  /\ val'[c] = NoValue
                  /\ pc'[c] # "set"
                  /\ pc'[c] = "get" => rd'[c] # "out"
<1>1. ASSUME NEW k \in Keys, NEW single \in BOOLEAN, Load(c, k, single)
      PROVE  Others /\ Own
  <2>1. rd' = [rd EXCEPT ![c] = "read"]
    BY <1>1 DEF Load, Map!RLock
  <2> QED
    BY <1>1, <2>1 DEF Load, Placed, Calling, Map!TypeOK
<1>2. ASSUME NEW builder \in BOOLEAN, NEW decoded \in BOOLEAN, Hit(c, builder, decoded)
      PROVE  Others /\ Own
  <2>1. rd' = [rd EXCEPT ![c] = "out"]
    BY <1>2 DEF Hit, Map!RUnlock, Map!Leave
  <2>2. Others
    BY <1>2, <2>1 DEF Hit, Give, Map!TypeOK
  <2>3. /\ pc'[c] = "done" /\ key'[c] = NoKey /\ ~ shared'[c]
        /\ pc[c] = "get" /\ UNCHANGED <<flight, val>>
    BY <1>2 DEF Hit, Give
  <2>4. Own
    BY <2>3 DEF Placed, Calling
  <2> QED
    BY <2>2, <2>4
<1>3. ASSUME Miss(c)
      PROVE  Others /\ Own
  <2>1. rd' = [rd EXCEPT ![c] = "out"]
    BY <1>3 DEF Miss, Map!RUnlock, Map!Leave
  <2>2. Others
    BY <1>3, <2>1 DEF Miss, Map!TypeOK
  <2>3. /\ pc[c] = "get" /\ pc'[c] = IF shared[c] THEN "do" ELSE "build"
        /\ UNCHANGED <<flight, key, shared, val>>
    BY <1>3 DEF Miss
  <2>4. Own
    BY <2>3 DEF Placed, Calling
  <2> QED
    BY <2>2, <2>4
<1>4. ASSUME GoOn(c)
      PROVE  Others /\ Own
  BY <1>4 DEF GoOn, cacheVars, Placed, Calling
<1>5. Others /\ Own
  BY <1>1, <1>2, <1>3, <1>4
<1>6. Placed'
  BY <1>5 DEF Placed
<1> QED
  BY <1>5, <1>6, OutOfFlight DEF CallersInv

(* What a caller executes it executes alone.                               *)
LEMMA CallersExecute ==
  ASSUME IInv, NEW c \in Callers, Do(c) \/ Build(c) \/ SetBuilt(c)
  PROVE  CallersInv'
<1> USE DEF IInv, TypeOK, InFlight, Executing
<1>1. \A d \in Callers \ {c} :
          /\ pc'[d] = pc[d] /\ key'[d] = key[d] /\ shared'[d] = shared[d] /\ val'[d] = val[d]
  BY DEF Do, Build, SetBuilt
<1>2. /\ pc[c] \in {"do", "build", "set"}
      /\ pc'[c] \in InFlight
      /\ pc[c] # "do" => pc'[c] # "wait"
      /\ key'[c] = key[c] /\ shared'[c] = shared[c] /\ key[c] \in Keys
  BY DEF Do, Build, SetBuilt, Placed, Calling
<1>3. Placed'
  <2>1. UNCHANGED rd
    BY DEF Do, Build, SetBuilt, cacheVars, Map!MultiSet, Map!MultiSetWithTTL, Map!Overwrite,
           Map!readerVars
  <2>2. /\ val'[c] # NoValue => pc'[c] \in {"set", "return"}
        /\ pc'[c] = "set" => val'[c] # NoValue
    BY NoVersionAssumption DEF Do, Build, SetBuilt, Placed, Calling
  <2> QED
    BY <1>1, <1>2, <2>1, <2>2 DEF Placed, Calling
<1>4. \A d \in Callers : shared[d] /\ pc[d] \in InFlight =>
          /\ flight[key[d]] \in Callers /\ key[flight[key[d]]] = key[d]
          /\ pc[flight[key[d]]] \in Executing
          /\ pc[d] # "wait" => flight[key[d]] = d
  BY DEF OneBuild, Placed, Calling
<1>5. \/ Do(c) /\ flight[key[c]] = NoCaller
      \/ UNCHANGED flight /\ (pc[c] = "do" => pc'[c] = "wait" /\ flight[key[c]] # NoCaller)
  <2>1. CASE Do(c)
    BY <2>1 DEF Do
  <2>2. CASE Build(c) \/ SetBuilt(c)
    BY <2>2 DEF Build, SetBuilt
  <2> QED
    BY <2>1, <2>2
<1> HIDE DEF IInv, TypeOK
<1>6. CASE Do(c) /\ flight[key[c]] = NoCaller
  <2>1. /\ flight[key[c]] = NoCaller /\ pc[c] = "do" /\ pc'[c] = "build" /\ shared[c]
        /\ \A k \in Keys : flight'[k] = IF k = key[c] THEN c ELSE flight[k]
    BY <1>6 DEF Do, Placed, IInv, TypeOK
  <2>2. Flights'
    <3>1. \A k \in Keys : flight[k] # NoCaller => flight[k] \in Callers \ {c}
      BY <2>1 DEF Flights, IInv
    <3>2. \A k \in Keys : flight'[k] = IF k = key[c] THEN c ELSE flight[k]
      BY <2>1
    <3> SUFFICES ASSUME NEW k \in Keys, flight'[k] # NoCaller
                 PROVE  /\ flight'[k] \in Callers /\ key'[flight'[k]] = k
                        /\ shared'[flight'[k]] /\ pc'[flight'[k]] \in Executing
      BY DEF Flights
    <3>3. CASE k = key[c]
      BY <1>2, <2>1, <3>2, <3>3
    <3>4. CASE k # key[c]
      BY <1>1, <3>1, <3>2, <3>4 DEF Flights, IInv
    <3> QED
      BY <3>3, <3>4
  <2>3. \A d \in Callers \ {c} : shared[d] /\ pc[d] \in InFlight => key[d] \in Keys \ {key[c]}
    BY <1>4, <2>1, NamesAssumption DEF IInv, Placed, Calling
  <2>4. OneBuild'
    <3> SUFFICES ASSUME NEW d \in Callers, shared'[d], pc'[d] \in InFlight
                 PROVE  /\ flight'[key'[d]] \in Callers /\ key'[flight'[key'[d]]] = key'[d]
                        /\ pc'[flight'[key'[d]]] \in Executing
                        /\ pc'[d] # "wait" => flight'[key'[d]] = d
      BY NamesAssumption DEF OneBuild
    <3>1. CASE d = c
      BY <1>2, <2>1, <3>1
    <3>2. CASE d # c
      <4>1. shared[d] /\ pc[d] \in InFlight /\ key[d] \in Keys \ {key[c]} /\ key'[d] = key[d]
        BY <1>1, <2>3, <3>2
      <4>2. flight'[key'[d]] = flight[key[d]] /\ flight[key[d]] # c
        BY <1>4, <2>1, <4>1
      <4> QED
        BY <1>1, <1>4, <3>2, <4>1, <4>2
    <3> QED
      BY <3>1, <3>2
  <2> QED
    BY <1>3, <2>2, <2>4 DEF CallersInv
<1>7. CASE UNCHANGED flight /\ (pc[c] = "do" => pc'[c] = "wait" /\ flight[key[c]] # NoCaller)
  <2>1. Flights'
    BY <1>1, <1>2, <1>7 DEF Flights, IInv
  <2>2. OneBuild'
    <3> SUFFICES ASSUME NEW d \in Callers, shared'[d], pc'[d] \in InFlight
                 PROVE  /\ flight[key'[d]] \in Callers /\ key'[flight[key'[d]]] = key'[d]
                        /\ pc'[flight[key'[d]]] \in Executing
                        /\ pc'[d] # "wait" => flight[key'[d]] = d
      BY <1>7, NamesAssumption DEF OneBuild
    <3>1. shared[d] /\ key'[d] = key[d] /\ (d # c => pc'[d] = pc[d])
      BY <1>1, <1>2
    <3>2. /\ flight[key[d]] \in Callers /\ key[flight[key[d]]] = key[d]
          /\ pc[flight[key[d]]] \in Executing
          /\ pc'[d] # "wait" => flight[key[d]] = d
      <4>1. CASE pc[d] \in InFlight
        BY <1>2, <1>4, <3>1, <4>1
      <4>2. CASE pc[d] = "do"
        BY <1>2, <1>7, <3>1, <4>2 DEF Flights, IInv
      <4> QED
        BY <1>2, <3>1, <4>1, <4>2
    <3> QED
      BY <1>1, <1>2, <1>7, <3>1, <3>2
  <2> QED
    BY <1>3, <2>1, <2>2 DEF CallersInv
<1> QED
  BY <1>5, <1>6, <1>7

(* Who waits for a flight that ends goes with it; no other flight changes. *)
LEMMA CallersReturn ==
  ASSUME IInv, NEW c \in Callers, Return(c)
  PROVE  CallersInv'
<1> DEFINE with == IF shared[c] THEN {d \in Callers : pc[d] = "wait" /\ key[d] = key[c]} ELSE {}
           D == {c} \cup with
<1> USE DEF InFlight, Executing
<1>1. /\ pc[c] = "return"
      /\ key[c] \in Keys
      /\ \A d \in Callers \ D : pc'[d] = pc[d] /\ key'[d] = key[d] /\ shared'[d] = shared[d]
                               /\ val'[d] = val[d] /\ rd'[d] = rd[d]
      /\ \A d \in D : /\ pc'[d] = "done" /\ key'[d] = NoKey /\ ~ shared'[d]
                      /\ val'[d] = NoValue
      /\ flight' = IF shared[c] THEN [flight EXCEPT ![key[c]] = NoCaller] ELSE flight
  BY DEF Return, Give, IInv, TypeOK, Placed, Calling, cacheVars
<1>2. Placed'
  BY <1>1 DEF IInv, Placed, Calling
<1>3. \A d \in Callers : shared[d] /\ pc[d] \in InFlight =>
          /\ flight[key[d]] \in Callers /\ key[flight[key[d]]] = key[d]
          /\ pc[flight[key[d]]] \in Executing
          /\ pc[d] # "wait" => flight[key[d]] = d
  BY DEF IInv, TypeOK, OneBuild, Placed, Calling
<1>4. \A k \in Keys : flight'[k] # NoCaller =>
          flight'[k] = flight[k] /\ flight[k] \in Callers \ D
  <2>1. CASE shared[c]
    <3> SUFFICES ASSUME NEW k \in Keys, flight'[k] # NoCaller
                 PROVE  flight'[k] = flight[k] /\ flight[k] \in Callers \ D
      OBVIOUS
    <3>1. k # key[c] /\ flight'[k] = flight[k]
      BY <1>1, <2>1 DEF IInv, TypeOK
    <3> QED
      BY <1>1, <2>1, <3>1 DEF IInv, Flights
  <2>2. CASE ~ shared[c]
    BY <1>1, <2>2 DEF IInv, Flights
  <2> QED
    BY <2>1, <2>2
<1>5. Flights'
  BY <1>1, <1>4 DEF IInv, Flights
<1>6. OneBuild'
  <2> SUFFICES ASSUME NEW d \in Callers, shared'[d], pc'[d] \in InFlight
               PROVE  /\ flight'[key'[d]] \in Callers /\ key'[flight'[key'[d]]] = key'[d]
                      /\ pc'[flight'[key'[d]]] \in Executing
                      /\ pc'[d] # "wait" => flight'[key'[d]] = d
    BY NamesAssumption DEF OneBuild
  <2>1. d \notin D /\ shared[d] /\ pc[d] \in InFlight /\ key'[d] = key[d] /\ pc'[d] = pc[d]
    BY <1>1
  <2>2. flight[key[d]] \notin D /\ flight'[key[d]] = flight[key[d]]
    <3>1. key[d] \in Keys
      BY <2>1 DEF IInv, Placed, Calling
    <3>2. CASE shared[c]
      <4>1. key[d] # key[c]
        BY <1>1, <1>3, <2>1, <3>2
      <4>2. flight'[key[d]] = flight[key[d]]
        BY <1>1, <3>1, <3>2, <4>1 DEF IInv, TypeOK
      <4>3. flight[key[d]] \notin D
        BY <1>3, <2>1, <4>1
      <4> QED
        BY <4>2, <4>3
    <3>3. CASE ~ shared[c]
      <4>1. flight[key[d]] # c
        BY <1>3, <2>1, <3>1, <3>3, NamesAssumption DEF IInv, Flights
      <4> QED
        BY <1>1, <3>3, <4>1
    <3> QED
      BY <3>2, <3>3
  <2> QED
    BY <1>1, <1>3, <2>1, <2>2
<1> QED
  BY <1>2, <1>5, <1>6 DEF CallersInv

(* The others, and the steps of the map, leave the callers alone.          *)
LEMMA CallersInvKept == IInv /\ [Next]_vars => CallersInv'
<1> SUFFICES ASSUME IInv, [Next]_vars PROVE CallersInv'
  OBVIOUS
<1>1. CASE UNCHANGED <<flight, pc, key, shared, val>> /\ \A c \in Callers : pc[c] = "get" => rd'[c] # "out"
  <2>1. Placed'
    BY <1>1 DEF IInv, Placed
  <2>2. Flights' /\ OneBuild'
    BY <1>1 DEF IInv, Flights, OneBuild
  <2> QED
    BY <2>1, <2>2 DEF CallersInv
<1>2. ASSUME NEW c \in Callers, Access(c) \/ OtherRead(c) \/ OtherReadEnds(c)
      PROVE  CallersInv'
  <2>1. CASE Access(c)
    <3>1. \A d \in Callers : rd[d] # "out" => rd'[d] # "out"
      <4>1. CASE \E k \in Keys : Map!Read(c, k)
        BY <4>1 DEF Map!Read, IInv, MapInv, Map!TypeOK
      <4>2. CASE Map!Delete(c)
        BY <4>2, ReadersOnlyDelete DEF IInv
      <4> QED
        BY <2>1, <4>1, <4>2 DEF Access
    <3> QED
      BY <1>1, <2>1, <3>1 DEF Access, loadVars, IInv, Placed
  <2>2. CASE OtherRead(c) \/ OtherReadEnds(c)
    <3>1. \A d \in Callers : pc[d] = "get" => rd'[d] = rd[d]
      BY <2>2 DEF OtherRead, OtherReadEnds, Map!RLock, Map!RUnlock, Map!Leave, IInv, MapInv, Map!TypeOK
    <3> QED
      BY <1>1, <2>2, <3>1 DEF OtherRead, OtherReadEnds, loadVars, IInv, Placed
  <2> QED
    BY <1>2, <2>1, <2>2
<1>3. CASE UNCHANGED <<rd, loadVars>>
  BY <1>1, <1>3 DEF loadVars, IInv, Placed
<1> QED
  BY <1>2, <1>3, CallersComeAndGo, CallersExecute, CallersReturn
  DEF Next, Running, Goes, Update, Expires, OtherSet, OtherDel, OtherCount, Fault, Ended, vars, cacheVars,
      Map!MultiSet, Map!MultiSetWithTTL, Map!Overwrite, Map!MultiDel, Map!DelAll, Map!GetDel, Map!Count,
      Map!Expire, Map!MapFault, Map!readerVars

-----------------------------------------------------------------------------
(* What is gone.                                                           *)

GoneInv == GoneIsPast /\ StillGone /\ Fresh

(* Nothing comes back when K is retired: the source has a newer version,   *)
(* and what is in somebody's hands is spared.                              *)
LEMMA RetireKeeps ==
  ASSUME IInv, NEW K \in SUBSET Keys, Retire(K), UNCHANGED <<source, loadVars, saw>>,
         \A k \in K : Map!Visible'[k] \in {source[k], NoValue},
         \A k \in Keys \ K : Map!Visible'[k] \in {Map!Visible[k], NoValue}
  PROVE  GoneInv'
<1>1. \A k \in Keys : gone[k] \subseteq Versions /\ gone'[k] \subseteq Versions
  BY DEF Retire, IInv, TypeOK
<1>2. \A k \in Keys : \A v \in gone'[k] : v < source[k]
  BY DEF Retire, IInv, GoneIsPast
<1>3. \A c \in Callers : val[c] # NoValue => val[c] \notin gone'[key[c]]
  BY DEF Retire, InHand, IInv, GoneIsPast, Placed, Calling
<1>4. \A k \in Keys : gone[k] \subseteq gone'[k]
  BY <1>1 DEF Retire, InHand, IInv, GoneIsPast
<1>5. GoneIsPast'
  BY <1>2, <1>3 DEF GoneIsPast, loadVars
<1>6. StillGone'
  BY <1>4 DEF StillGone, IInv, Placed, loadVars
<1>7. \A k \in Keys : Map!Visible'[k] \notin gone'[k]
  <2> SUFFICES ASSUME NEW k \in Keys PROVE Map!Visible'[k] \notin gone'[k]
    OBVIOUS
  <2>1. source[k] \notin gone'[k]
    <3>1. source[k] \in Nat
      BY VersionsAreNat DEF IInv, TypeOK
    <3> QED
      BY <1>2, <3>1
  <2>2. NoValue \notin gone'[k]
    BY <1>1, NoVersionAssumption
  <2>3. k \notin K => gone'[k] = gone[k]
    BY DEF Retire
  <2> QED
    BY <2>1, <2>2, <2>3 DEF IInv, Fresh
<1>8. Fresh'
  BY <1>7 DEF IInv, Fresh, loadVars
<1> QED
  BY <1>5, <1>6, <1>8 DEF GoneInv

(* A step of load or of a reader shows nothing new, and returns what was   *)
(* seen since it was called or is in its hands.                            *)
LEMMA LoadKeepsGone ==
  ASSUME IInv, TypeOK', CallersInv', NEW c \in Callers,
         \A k \in Keys : Map!Visible'[k] \in {Map!Visible[k], NoValue},
         \/ \E k \in Keys, single \in BOOLEAN : Load(c, k, single)
         \/ \E builder, decoded \in BOOLEAN : Hit(c, builder, decoded)
         \/ Miss(c)
         \/ GoOn(c)
         \/ Do(c)
         \/ Build(c)
  PROVE  GoneInv'
<1> DEFINE Others == \A d \in Callers \ {c} :
                         /\ pc'[d] = pc[d] /\ key'[d] = key[d] /\ val'[d] = val[d] /\ ret'[d] = ret[d]
                         /\ before'[d] = before[d] /\ saw'[d] = saw[d]
           Own == /\ val'[c] # NoValue => val'[c] \notin gone[key'[c]]
                  /\ pc'[c] \in Calling => before'[c] \subseteq gone[key'[c]]
                  /\ pc'[c] = "get" => saw'[c][key'[c]] \notin before'[c]
                  /\ ret'[c] \notin before'[c]
                  /\ pc'[c] # "done" => ret'[c] = NoValue
<1>0. /\ \A k \in Keys : NoValue \notin gone[k]
      /\ \A d \in Callers : NoValue \notin before[d]
  BY NoVersionAssumption DEF IInv, TypeOK
<1>1. ASSUME NEW k \in Keys, NEW single \in BOOLEAN, Load(c, k, single)
      PROVE  Others /\ Own
  <2>1. saw' = [saw EXCEPT ![c] = [j \in Keys |-> IF j \in {k} THEN Map!Visible[j] ELSE NoValue]]
    BY <1>1 DEF Load, Map!RLock
  <2>2. saw'[c][k] = Map!Visible[k] /\ \A d \in Callers \ {c} : saw'[d] = saw[d]
    BY <2>1 DEF IInv, MapInv, Map!TypeOK
  <2>3. Others
    BY <1>1, <2>2 DEF Load, IInv, TypeOK
  <2>4. /\ pc[c] = "idle" /\ pc'[c] = "get" /\ key'[c] = k /\ before'[c] = gone[k]
        /\ UNCHANGED <<val, ret>>
    BY <1>1 DEF Load, IInv, TypeOK
  <2>5. val[c] = NoValue /\ ret[c] = NoValue
    BY <2>4 DEF IInv, Placed, StillGone
  <2> QED
    BY <1>0, <2>2, <2>3, <2>4, <2>5 DEF IInv, Fresh
<1>2. ASSUME NEW builder \in BOOLEAN, NEW decoded \in BOOLEAN, Hit(c, builder, decoded)
      PROVE  Others /\ Own
  <2>1. saw' = [saw EXCEPT ![c] = Map!Nothing] /\ pc[c] = "get" /\ left[c] = {}
    BY <1>2 DEF Hit, Map!RUnlock, Map!Leave
  <2>2. key[c] \in Keys /\ got[c][key[c]] \in {saw[c][key[c]], NoValue}
    BY <2>1 DEF IInv, Placed, Calling, MapInv, ReadsCurrent, Map!ReadsCurrent
  <2>3. got[c][key[c]] \notin before[c]
    BY <1>0, <2>1, <2>2 DEF IInv, StillGone
  <2>4. \A d \in Callers \ {c} : saw'[d] = saw[d]
    BY <2>1 DEF IInv, MapInv, Map!TypeOK
  <2>5. val[c] = NoValue
    BY <2>1 DEF IInv, Placed
  <2> QED
    BY <1>0, <1>2, <2>3, <2>4, <2>5 DEF Hit, Give, IInv, TypeOK, Calling
<1>3. ASSUME Miss(c)
      PROVE  Others /\ Own
  <2>1. saw' = [saw EXCEPT ![c] = Map!Nothing]
    BY <1>3 DEF Miss, Map!RUnlock, Map!Leave
  <2>2. \A d \in Callers \ {c} : saw'[d] = saw[d]
    BY <2>1 DEF IInv, MapInv, Map!TypeOK
  <2> QED
    BY <1>0, <1>3, <2>2 DEF Miss, IInv, TypeOK, Placed, StillGone, Calling
<1>4. ASSUME GoOn(c) \/ Do(c)
      PROVE  Others /\ Own
  BY <1>0, <1>4 DEF GoOn, Do, cacheVars, IInv, TypeOK, Placed, StillGone, Calling
<1>5. ASSUME Build(c)
      PROVE  Others /\ Own
  <2>1. key[c] \in Keys
    BY <1>5 DEF Build, IInv, Placed, Calling
  <2>2. source[key[c]] \in Nat
    BY <2>1, VersionsAreNat DEF IInv, TypeOK
  <2>3. source[key[c]] \notin gone[key[c]]
    BY <2>1, <2>2 DEF IInv, GoneIsPast
  <2>4. /\ pc[c] = "build" /\ pc'[c] \in {"set", "return"} /\ val'[c] \in {source[key[c]], val[c]}
        /\ UNCHANGED <<key, before, ret, saw>>
    BY <1>5 DEF Build, cacheVars, IInv, TypeOK
  <2>5. Others
    BY <1>5, <2>4 DEF Build, IInv, TypeOK
  <2> QED
    BY <1>0, <2>3, <2>4, <2>5 DEF IInv, StillGone, Fresh, GoneIsPast, Calling
<1>6. Others /\ Own /\ UNCHANGED <<source, gone>>
  BY <1>1, <1>2, <1>3, <1>4, <1>5 DEF Load, Hit, Miss, GoOn, Do, Build
<1>7. GoneIsPast' /\ StillGone'
  BY <1>6 DEF IInv, GoneIsPast, StillGone
<1>8. Fresh'
  BY <1>0, <1>6 DEF IInv, Fresh
<1> QED
  BY <1>7, <1>8 DEF GoneInv

(* What load returns was in the hands of who built it.                     *)
LEMMA ReturnKeepsGone ==
  ASSUME IInv, NEW c \in Callers, Return(c)
  PROVE  GoneInv'
<1> DEFINE with == IF shared[c] THEN {d \in Callers : pc[d] = "wait" /\ key[d] = key[c]} ELSE {}
           D == {c} \cup with
<1>1. /\ pc[c] = "return"
      /\ UNCHANGED <<cacheVars, source, gone, before>>
      /\ \A d \in Callers \ D : pc'[d] = pc[d] /\ key'[d] = key[d] /\ ret'[d] = ret[d] /\ val'[d] = val[d]
      /\ \A d \in D : pc'[d] = "done" /\ val'[d] = NoValue /\ ret'[d] = val[c]
  BY DEF Return, Give, IInv, TypeOK, Placed
<1>2. \A d \in D : key[d] = key[c] /\ before[d] \subseteq gone[key[c]]
  BY <1>1 DEF IInv, StillGone, Calling
<1>3. val[c] \notin gone[key[c]]
  BY <1>1, NoVersionAssumption DEF IInv, GoneIsPast, TypeOK, Placed, Calling
<1>4. \A d \in D : ret'[d] \notin before[d]
  BY <1>1, <1>2, <1>3
<1>5. GoneIsPast'
  BY <1>1 DEF IInv, GoneIsPast
<1>6. StillGone'
  BY <1>1 DEF IInv, StillGone, cacheVars, Calling
<1>7. Map!Visible' = Map!Visible
  BY <1>1 DEF Map!Visible, cacheVars
<1>8. Fresh'
  BY <1>1, <1>4, <1>7 DEF IInv, Fresh
<1> QED
  BY <1>5, <1>6, <1>8 DEF GoneInv

(* Each step of CacheLoader keeps what is gone away.                       *)
LEMMA GoneInvKept == IInv /\ [Next]_vars => GoneInv'
<1> SUFFICES ASSUME IInv, [Next]_vars PROVE GoneInv'
  OBVIOUS
<1> TypeOK' /\ CallersInv'
  BY Types, CallersInvKept
<1>1. ASSUME NEW c \in Callers,
             \/ \E k \in Keys, single \in BOOLEAN : Load(c, k, single)
             \/ \E builder, decoded \in BOOLEAN : Hit(c, builder, decoded)
             \/ Miss(c) \/ GoOn(c) \/ Do(c) \/ Build(c)
      PROVE  GoneInv'
  <2>1. \/ UNCHANGED cacheVars
        \/ \E r \in Callers, K \in SUBSET Keys : Map!RLock(r, K)
        \/ \E r \in Callers : Map!Delete(r) \/ Map!RUnlock(r)
    BY <1>1 DEF Load, Hit, Miss, GoOn, Do, Build
  <2>2. \A k \in Keys : Map!Visible'[k] \in {Map!Visible[k], NoValue}
    BY <2>1, NothingShows DEF IInv
  <2> QED
    BY <1>1, <2>2, LoadKeepsGone
<1>2. ASSUME NEW c \in Callers, SetBuilt(c)
      PROVE  GoneInv'
  <2> DEFINE valMap == [k \in {key[c]} |-> val[c]]
  <2>1. key[c] \in Keys /\ val[c] \in Versions /\ val[c] \notin gone[key[c]]
    BY <1>2 DEF SetBuilt, IInv, Placed, Calling, TypeOK, GoneIsPast
  <2>2. valMap \in [{key[c]} -> Versions] /\ {key[c]} \in SUBSET Keys
    BY <2>1
  <2>3. Map!MultiSet(valMap) \/ \E negative \in BOOLEAN : Map!MultiSetWithTTL(valMap, negative)
    BY <1>2 DEF SetBuilt
  <2>4. \A k \in Keys : Map!Visible'[k] = IF k \in {key[c]} THEN valMap[k] ELSE Map!Visible[k]
    BY <2>2, <2>3, SetShows DEF IInv
  <2>5. \A k \in Keys : Map!Visible'[k] \notin gone[k]
    BY <2>1, <2>4 DEF IInv, Fresh
  <2>6. /\ UNCHANGED <<source, key, val, ret, gone, before, saw>>
        /\ pc[c] = "set" /\ pc' = [pc EXCEPT ![c] = "return"]
    BY <1>2 DEF SetBuilt, Map!MultiSet, Map!MultiSetWithTTL, Map!Overwrite, Map!readerVars
  <2>7. GoneIsPast' /\ StillGone'
    BY <2>6 DEF IInv, TypeOK, GoneIsPast, StillGone, Calling
  <2>8. Fresh'
    BY <2>5, <2>6 DEF IInv, Fresh
  <2> QED
    BY <2>7, <2>8 DEF GoneInv
<1>3. ASSUME NEW k \in Keys, Update(k)
      PROVE  GoneInv'
  <2>1. \A j \in Keys : source[j] \in Nat /\ source'[j] \in {source[j], source[j] + 1}
    BY <1>3, VersionsAreNat DEF Update, IInv, TypeOK
  <2>2. \A j \in Keys : gone[j] \subseteq Nat
    BY VersionsAreNat DEF IInv, TypeOK
  <2>3. UNCHANGED <<cacheVars, loadVars, gone>>
    BY <1>3 DEF Update
  <2>4. GoneIsPast'
    BY <2>1, <2>2, <2>3 DEF IInv, GoneIsPast, loadVars
  <2>5. StillGone' /\ Fresh'
    BY <2>3 DEF IInv, StillGone, Fresh, loadVars, cacheVars, Map!Visible
  <2> QED
    BY <2>4, <2>5 DEF GoneInv
<1>4. ASSUME UNCHANGED <<source, loadVars, gone>>,
             \A c \in Callers : pc[c] = "get" => saw'[c] = saw[c],
             \A k \in Keys : Map!Visible'[k] \in {Map!Visible[k], NoValue}
      PROVE  GoneInv'
  <2>1. \A k \in Keys : Map!Visible'[k] \notin gone[k]
    BY <1>4, NoVersionAssumption DEF IInv, Fresh, TypeOK
  <2> QED
    BY <1>4, <2>1 DEF IInv, GoneInv, GoneIsPast, StillGone, Fresh, loadVars
<1>5. ASSUME NEW c \in Callers, Access(c) \/ OtherRead(c) \/ OtherReadEnds(c)
      PROVE  GoneInv'
  <2>1. \/ \E K \in SUBSET Keys : Map!RLock(c, K)
        \/ \E k \in Keys : Map!Read(c, k)
        \/ Map!Delete(c) \/ Map!RUnlock(c)
    BY <1>5 DEF Access, OtherRead, OtherReadEnds
  <2>2. \A k \in Keys : Map!Visible'[k] \in {Map!Visible[k], NoValue}
    BY <2>1, NothingShows DEF IInv
  <2>3. \A d \in Callers : pc[d] = "get" => saw'[d] = saw[d]
    BY <1>5 DEF Access, OtherRead, OtherReadEnds, Map!Read, Map!Delete, Map!RLock, Map!RUnlock,
                Map!Leave, IInv, MapInv, Map!TypeOK
  <2> QED
    BY <1>4, <1>5, <2>2, <2>3 DEF Access, OtherRead, OtherReadEnds
<1>6. ASSUME NEW K \in SUBSET Keys, OtherSet(K)
      PROVE  GoneInv'
  <2> DEFINE valMap == [k \in K |-> source[k]]
  <2>1. valMap \in [K -> Versions]
    BY DEF IInv, TypeOK
  <2>2. Map!MultiSet(valMap) \/ \E negative \in BOOLEAN : Map!MultiSetWithTTL(valMap, negative)
    BY <1>6 DEF OtherSet
  <2>3. \A k \in Keys : Map!Visible'[k] = IF k \in K THEN valMap[k] ELSE Map!Visible[k]
    BY <2>1, <2>2, SetShows DEF IInv
  <2>4. Retire(K) /\ UNCHANGED <<source, loadVars, saw>>
    BY <1>6 DEF OtherSet, Map!MultiSet, Map!MultiSetWithTTL, Map!Overwrite, Map!readerVars
  <2> QED
    BY <2>3, <2>4, RetireKeeps
<1>7. ASSUME NEW K \in SUBSET Keys, Map!MultiDel(K), Retire(K), UNCHANGED <<source, loadVars>>
      PROVE  GoneInv'
  <2>1. \A k \in Keys : Map!Visible'[k] \in {Map!Visible[k], NoValue}
    BY <1>7, NothingShows DEF IInv
  <2>2. \A k \in K : Map!Visible'[k] = NoValue
    BY <1>7 DEF Map!MultiDel, Map!Visible
  <2>3. UNCHANGED saw
    BY <1>7 DEF Map!MultiDel, Map!readerVars
  <2> QED
    BY <1>7, <2>1, <2>2, <2>3, RetireKeeps
<1>8. CASE OtherDel
  <2>1. \E K \in SUBSET Keys : Map!MultiDel(K) /\ Retire(K)
    BY <1>8 DEF OtherDel, Map!DelAll, Map!GetDel
  <2> QED
    BY <1>7, <1>8, <2>1 DEF OtherDel
<1>9. ASSUME NEW k \in Keys, Expires(k)
      PROVE  GoneInv'
  <2>1. Map!Expire(k) /\ Retire({k}) /\ UNCHANGED <<source, loadVars, saw>>
    BY <1>9 DEF Expires, Map!Expire, Map!readerVars
  <2>2. \A j \in Keys : Map!Visible'[j] \in {Map!Visible[j], NoValue}
    BY <2>1, NothingShows DEF IInv
  <2>3. Map!Visible'[k] = NoValue
    BY <2>1 DEF Map!Expire, Map!Visible, IInv, MapInv, Map!TypeOK
  <2> QED
    BY <2>1, <2>2, <2>3, RetireKeeps
<1>10. CASE OtherCount \/ Fault
  <2>1. (\E K \in SUBSET Keys : Map!MultiDel(K)) \/ Map!MapFault
    BY <1>10 DEF OtherCount, Fault, Map!Count
  <2>2. \A k \in Keys : Map!Visible'[k] \in {Map!Visible[k], NoValue}
    BY <2>1, NothingShows DEF IInv
  <2>3. UNCHANGED saw
    BY <2>1 DEF Map!MultiDel, Map!MapFault, Map!readerVars
  <2> QED
    BY <1>4, <1>10, <2>2, <2>3 DEF OtherCount, Fault
<1>11. CASE UNCHANGED vars
  BY <1>11 DEF IInv, GoneInv, GoneIsPast, StillGone, Fresh, vars, loadVars, cacheVars, Map!Visible
<1> QED
  BY <1>1, <1>2, <1>3, <1>5, <1>6, <1>8, <1>11, <1>9, <1>10, ReturnKeepsGone
  DEF Next, Running, Goes, Ended

-----------------------------------------------------------------------------
(* The theorems.                                                           *)

(* The invariant holds at first and is kept.                               *)
LEMMA Invariance == Spec => []IInv
<1>1. Init => IInv
  <2> SUFFICES ASSUME Init PROVE IInv
    OBVIOUS
  <2> USE DEF Init, Map!Init, Map!Nothing
  <2>1. \A k \in Keys : 0 \in Versions
    BY VersionsAreNat
  <2>2. TypeOK
    BY <2>1 DEF TypeOK, Map!TypeOK
  <2>3. MapInv
    BY <2>2 DEF TypeOK, MapInv, Resting, Dropped, DueIsGone, LeftIsKept, ReadsCurrent, Map!ReadsCurrent
  <2>4. Placed /\ GoneIsPast /\ StillGone
    BY DEF Placed, Calling, GoneIsPast, StillGone
  <2>5. Fresh /\ Flights /\ OneBuild
    BY DEF Fresh, Flights, OneBuild
  <2> QED
    BY <2>2, <2>3, <2>4, <2>5 DEF IInv
<1>2. IInv /\ [Next]_vars => IInv'
  BY NextUsesMap, MapKeeps, Types, CallersInvKept, GoneInvKept DEF IInv, CallersInv, GoneInv
<1> QED
  BY <1>1, <1>2, PTL DEF Spec

(* Every variable has its type.                                            *)
THEOREM TypeCorrect == Spec => []TypeOK
  BY Invariance, PTL DEF IInv

(* Get, Exists and MultiGet give what was in the map when they took the    *)
(* lock, whatever other readers delete under the read lock meanwhile.      *)
THEOREM CurrentReads == Spec => []ReadsCurrent
  BY Invariance, PTL DEF IInv, MapInv

(* No read and no load is given a version that was taken from the cache,   *)
(* but for what a builder had read and load had still to set or return     *)
(* when it was taken.                                                      *)
THEOREM Freshness == Spec => []Fresh
  BY Invariance, PTL DEF IInv

(* With singleflight a key is built by one caller at a time, and who waits *)
(* waits for the caller that builds its key.                               *)
THEOREM AloneInFlight == Spec => []OneBuild
  BY Invariance, PTL DEF IInv

-----------------------------------------------------------------------------
(* The caching reverse proxy.                                                *)

Srvs == {"new", "download", "proxy", "store", "read", "done"}
Ends == {"none", "ok", "error", "left"}
Copiers == {"none", "read", "toClient", "toCache", "done"}
PipeEnds == {"open", "eof", "error", "closedPipe"}
Savers == {"none", "upload", "set", "undo", "unflag", "close", "done"}

Files == [of : Requests \cup {Nothing}, n : 0..Blocks]

ProxyTypeOK ==
    /\ header \in Requests \cup {Nothing}
    /\ file \in Files
    /\ flag \in BOOLEAN
    /\ srv \in [Requests -> Srvs]
    /\ end \in [Requests -> Ends]
    /\ received \in [Requests -> 0..Blocks]
    /\ clientGone \in [Requests -> BOOLEAN]
    /\ copier \in [Requests -> Copiers]
    /\ clientPipe \in [Requests -> PipeEnds]
    /\ cachePipe \in [Requests -> PipeEnds]
    /\ saver \in [Requests -> Savers]
    /\ sent \in [Requests -> 0..Blocks]
    /\ shut \in [Requests -> BOOLEAN]
    /\ deleter \in {"idle", "del", "file"}

\* Before its answer is split a request has been given nothing; once it is, it
\* does not go back.
Split(r) ==
    /\ copier[r] = "none" => sent[r] = 0 /\ saver[r] = "none" /\ srv[r] # "read"
    /\ copier[r] # "none" => srv[r] \in {"read", "done"}
    /\ srv[r] # "done" => end[r] = "none"
    /\ copier[r] = "none" /\ srv[r] # "done" => received[r] = 0

\* The copier gives a block to the client and then to the saver, and closes
\* the pipes when it ends.
Copied(r) ==
    /\ copier[r] \in {"read", "toClient"} => received[r] = sent[r]
    /\ copier[r] = "toCache" => received[r] = sent[r] + 1
    /\ copier[r] = "toClient" => sent[r] < Blocks
    /\ copier[r] # "done" => clientPipe[r] = "open" /\ cachePipe[r] = "open"

\* A pipe that ended without an error was given the whole body.
WholeOrError(r) ==
    /\ clientPipe[r] = "eof" => received[r] = Blocks
    /\ cachePipe[r] = "eof" => sent[r] = Blocks

RequestInv(r) == Split(r) /\ Copied(r) /\ WholeOrError(r)

\* An answer that ended well is whole, and so is what is kept.
Whole(r) == end[r] = "ok" => received[r] = Blocks
FileWhole == file # NoFile => file.n = Blocks

\* The inductive invariant.
ProxyInv ==
    /\ ProxyTypeOK
    /\ \A r \in Requests : RequestInv(r)
    /\ FileWhole
    /\ \A r \in Requests : Whole(r)
    /\ FlagHasOwner

-----------------------------------------------------------------------------
\* The steps of a request leave what the others have as it is.
Own(r) ==
    \A q \in Requests \ {r} :
        /\ srv'[q] = srv[q] /\ end'[q] = end[q] /\ received'[q] = received[q]
        /\ copier'[q] = copier[q] /\ clientPipe'[q] = clientPipe[q]
        /\ cachePipe'[q] = cachePipe[q] /\ saver'[q] = saver[q] /\ sent'[q] = sent[q]

\* So what is to be shown of a step is its type, its own request and the rest
\* of the store and the flag.
LEMMA Alone ==
    ASSUME ProxyInv, NEW r \in Requests, Own(r), ProxyTypeOK',
           RequestInv(r)', Whole(r)', FileWhole', FlagHasOwner'
    PROVE  ProxyInv'
<1>1. ASSUME NEW q \in Requests
      PROVE  RequestInv(q)' /\ Whole(q)'
    <2>1. CASE q = r
        BY <2>1
    <2>2. CASE q # r
        BY <2>2 DEF ProxyInv, Own, RequestInv, Split, Copied, WholeOrError, Whole
    <2> QED
        BY <2>1, <2>2
<1> QED
    BY <1>1 DEF ProxyInv

LEMMA FileTypes ==
    /\ NoFile \in Files
    /\ \A r \in Requests, n \in 0..Blocks : [of |-> r, n |-> n] \in Files
    /\ \A f \in Files : f.n \in 0..Blocks
    BY BlocksAssumption DEF NoFile, Files

LEMMA ProxyInitInv == ProxyInit => ProxyInv
<1> SUFFICES ASSUME ProxyInit PROVE ProxyInv
    OBVIOUS
<1> USE BlocksAssumption
<1>1. ProxyTypeOK
    <2>1. 0 \in 0..Blocks
        OBVIOUS
    <2>2. header \in Requests \cup {Nothing} /\ flag \in BOOLEAN /\ deleter \in {"idle", "del", "file"}
        BY DEF ProxyInit
    <2>3. /\ srv \in [Requests -> Srvs] /\ end \in [Requests -> Ends]
          /\ copier \in [Requests -> Copiers] /\ saver \in [Requests -> Savers]
        BY DEF ProxyInit, Srvs, Ends, Copiers, Savers
    <2>4. clientPipe \in [Requests -> PipeEnds] /\ cachePipe \in [Requests -> PipeEnds]
        BY DEF ProxyInit, PipeEnds
    <2>5. clientGone \in [Requests -> BOOLEAN] /\ shut \in [Requests -> BOOLEAN]
        BY DEF ProxyInit
    <2>6. received \in [Requests -> 0..Blocks] /\ sent \in [Requests -> 0..Blocks]
        BY <2>1 DEF ProxyInit
    <2>7. file \in Files
        BY FileTypes DEF ProxyInit
    <2> QED
        BY <2>2, <2>3, <2>4, <2>5, <2>6, <2>7 DEF ProxyTypeOK
<1>2. ASSUME NEW r \in Requests PROVE RequestInv(r) /\ Whole(r)
    BY DEF ProxyInit, RequestInv, Split, Copied, WholeOrError, Whole
<1>3. FileWhole /\ FlagHasOwner
    BY DEF ProxyInit, FileWhole, FlagHasOwner
<1> QED
    BY <1>1, <1>2, <1>3 DEF ProxyInv

\* The request's own goroutine.
LEMMA ServerKeeps ==
    ASSUME ProxyInv, NEW r \in Requests, Server(r) \/ ClientLeaves(r)
    PROVE  ProxyInv'
<1> USE BlocksAssumption
<1>1. CASE LoadHeader(r)
    <2>1. ProxyTypeOK' /\ Own(r)
        BY <1>1 DEF ProxyInv, ProxyTypeOK, Own, LoadHeader, Go, kept, pipes, Srvs
    <2>2. RequestInv(r)' /\ Whole(r)'
        BY <1>1 DEF ProxyInv, ProxyTypeOK, RequestInv, Split, Copied, WholeOrError, Whole, LoadHeader,
                    Go, kept, pipes
    <2>3. FileWhole' /\ FlagHasOwner'
        BY <1>1 DEF ProxyInv, FileWhole, FlagHasOwner, LoadHeader, kept
    <2> QED
        BY <2>1, <2>2, <2>3, Alone
<1>2. CASE LoadBody(r)
    <2>1. ProxyTypeOK' /\ Own(r)
        BY <1>2, FileTypes DEF ProxyInv, ProxyTypeOK, Own, LoadBody, Go, Finish, kept, pipes, Srvs, Ends
    <2>2. RequestInv(r)' /\ Whole(r)'
        BY <1>2 DEF ProxyInv, ProxyTypeOK, RequestInv, Split, Copied, WholeOrError, Whole, FileWhole,
                    LoadBody, Go, Finish, kept, pipes
    <2>3. FileWhole' /\ FlagHasOwner'
        BY <1>2 DEF ProxyInv, FileWhole, FlagHasOwner, LoadBody, kept
    <2> QED
        BY <2>1, <2>2, <2>3, Alone
<1>3. CASE FlagLoad(r)
    <2>1. ProxyTypeOK' /\ Own(r)
        BY <1>3 DEF ProxyInv, ProxyTypeOK, Own, FlagLoad, Go, Finish, kept, pipes, Srvs, Ends
    <2>2. RequestInv(r)' /\ Whole(r)'
        BY <1>3 DEF ProxyInv, ProxyTypeOK, RequestInv, Split, Copied, WholeOrError, Whole, FlagLoad,
                    Go, Finish, kept, pipes
    <2>3. FileWhole' /\ FlagHasOwner'
        BY <1>3 DEF ProxyInv, FileWhole, FlagHasOwner, FlagLoad, kept
    <2> QED
        BY <2>1, <2>2, <2>3, Alone
<1>4. CASE FlagStore(r)
    <2>1. ProxyTypeOK' /\ Own(r)
        BY <1>4 DEF ProxyInv, ProxyTypeOK, Own, FlagStore, Go, Srvs, Copiers, Savers
    <2>2. RequestInv(r)' /\ Whole(r)'
        BY <1>4 DEF ProxyInv, ProxyTypeOK, RequestInv, Split, Copied, WholeOrError, Whole, FlagStore, Go
    <2>3. FileWhole' /\ FlagHasOwner'
        BY <1>4 DEF ProxyInv, ProxyTypeOK, FileWhole, FlagHasOwner, FlagStore
    <2> QED
        BY <2>1, <2>2, <2>3, Alone
<1>5. CASE BodyEnds(r)
    <2>1. ProxyTypeOK' /\ Own(r)
        BY <1>5 DEF ProxyInv, ProxyTypeOK, Own, BodyEnds, Go, Finish, kept, pipes, Srvs, Ends
    <2>2. RequestInv(r)' /\ Whole(r)'
        BY <1>5 DEF ProxyInv, ProxyTypeOK, RequestInv, Split, Copied, WholeOrError, Whole, BodyEnds,
                    Go, Finish, kept, pipes
    <2>3. FileWhole' /\ FlagHasOwner'
        BY <1>5 DEF ProxyInv, FileWhole, FlagHasOwner, BodyEnds, kept
    <2> QED
        BY <2>1, <2>2, <2>3, Alone
<1>6. CASE ClientLeaves(r)
    <2>1. ProxyTypeOK' /\ Own(r)
        BY <1>6 DEF ProxyInv, ProxyTypeOK, Own, ClientLeaves, Go, Finish, kept, pipes, Srvs, Ends
    <2>2. RequestInv(r)' /\ Whole(r)'
        BY <1>6 DEF ProxyInv, ProxyTypeOK, RequestInv, Split, Copied, WholeOrError, Whole, ClientLeaves,
                    Go, Finish, kept, pipes
    <2>3. FileWhole' /\ FlagHasOwner'
        BY <1>6 DEF ProxyInv, FileWhole, FlagHasOwner, ClientLeaves, kept
    <2> QED
        BY <2>1, <2>2, <2>3, Alone
<1> QED
    BY <1>1, <1>2, <1>3, <1>4, <1>5, <1>6 DEF Server

\* The copier.  A pipe is closed without an error only when all was copied.
LEMMA CopierKeeps ==
    ASSUME ProxyInv, NEW r \in Requests, Copier(r)
    PROVE  ProxyInv'
<1> USE BlocksAssumption
<1>1. ProxyTypeOK' /\ Own(r)
    <2>1. CASE CopyRead(r)
        BY <2>1 DEF ProxyInv, ProxyTypeOK, Own, CopyRead, CloseBoth, kept, Copiers, PipeEnds
    <2>2. CASE CopyToClient(r)
        <3>1. srv[r] = "read" /\ copier[r] = "toClient" => received[r] + 1 \in 0..Blocks
            BY DEF ProxyInv, ProxyTypeOK, RequestInv, Copied
        <3> QED
            BY <2>2, <3>1 DEF ProxyInv, ProxyTypeOK, Own, CopyToClient, CloseBoth, kept, Copiers, PipeEnds
    <2>3. CASE CopyToCache(r)
        <3>1. copier[r] = "toCache" => sent[r] + 1 \in 0..Blocks
            BY DEF ProxyInv, ProxyTypeOK, RequestInv, Copied
        <3> QED
            BY <2>3, <3>1 DEF ProxyInv, ProxyTypeOK, Own, CopyToCache, CloseBoth, kept, Copiers, PipeEnds
    <2> QED
        BY <2>1, <2>2, <2>3 DEF Copier
<1>2. RequestInv(r)' /\ Whole(r)'
    <2>1. CASE CopyRead(r)
        BY <2>1 DEF ProxyInv, ProxyTypeOK, RequestInv, Split, Copied, WholeOrError, Whole, CopyRead,
                    CloseBoth, kept
    <2>2. CASE CopyToClient(r)
        BY <2>2 DEF ProxyInv, ProxyTypeOK, RequestInv, Split, Copied, WholeOrError, Whole, CopyToClient,
                    CloseBoth, kept
    <2>3. CASE CopyToCache(r)
        BY <2>3 DEF ProxyInv, ProxyTypeOK, RequestInv, Split, Copied, WholeOrError, Whole, CopyToCache,
                    CloseBoth, kept
    <2> QED
        BY <2>1, <2>2, <2>3 DEF Copier
<1>3. FileWhole' /\ FlagHasOwner'
    BY DEF ProxyInv, FileWhole, FlagHasOwner, Copier, CopyRead, CopyToClient, CopyToCache, kept
<1> QED
    BY <1>1, <1>2, <1>3, Alone

\* The saver keeps a body only when its pipe ended without an error, and is
\* among the flag's owners until it takes the flag down.
LEMMA SaverKeeps ==
    ASSUME ProxyInv, NEW r \in Requests, Saver(r)
    PROVE  ProxyInv'
<1> USE BlocksAssumption
<1> USE DEF Save, pipes
<1>1. ProxyTypeOK' /\ Own(r)
    <2>1. CASE SaveUpload(r)
        BY <2>1, FileTypes DEF ProxyInv, ProxyTypeOK, Own, SaveUpload, kept, Savers
    <2>2. CASE SaveHeader(r)
        BY <2>2, FileTypes DEF ProxyInv, ProxyTypeOK, Own, SaveHeader, kept, Savers
    <2>3. CASE SaveUndo(r)
        BY <2>3, FileTypes DEF ProxyInv, ProxyTypeOK, Own, SaveUndo, kept, Savers
    <2>4. CASE Unflag(r)
        BY <2>4, FileTypes DEF ProxyInv, ProxyTypeOK, Own, Unflag, kept, Savers
    <2>5. CASE CloseReader(r)
        BY <2>5, FileTypes DEF ProxyInv, ProxyTypeOK, Own, CloseReader, kept, Savers
    <2> QED
        BY <2>1, <2>2, <2>3, <2>4, <2>5 DEF Saver
<1>2. RequestInv(r)' /\ Whole(r)'
    BY DEF ProxyInv, ProxyTypeOK, RequestInv, Split, Copied, WholeOrError, Whole, Saver, SaveUpload,
           SaveHeader, SaveUndo, Unflag, CloseReader, kept
<1>3. FileWhole'
    BY DEF ProxyInv, ProxyTypeOK, FileWhole, RequestInv, WholeOrError, Saver, SaveUpload, SaveHeader,
           SaveUndo, Unflag, CloseReader, kept
<1>4. FlagHasOwner'
    BY DEF ProxyInv, ProxyTypeOK, FlagHasOwner, Saver, SaveUpload, SaveHeader, SaveUndo, Unflag,
           CloseReader, kept
<1> QED
    BY <1>1, <1>2, <1>3, <1>4, Alone

LEMMA ProxyInvStep == ProxyInv /\ [ProxyNext]_proxyVars => ProxyInv'
<1> SUFFICES ASSUME ProxyInv, [ProxyNext]_proxyVars PROVE ProxyInv'
    OBVIOUS
<1>1. CASE \E r \in Requests : Server(r) \/ ClientLeaves(r)
    BY <1>1, ServerKeeps
<1>2. CASE \E r \in Requests : Copier(r)
    BY <1>2, CopierKeeps
<1>3. CASE \E r \in Requests : Saver(r)
    BY <1>3, SaverKeeps
<1>4. CASE Expire \/ DeleteHeader \/ DeleteBody
    <2>1. ProxyTypeOK'
        BY <1>4, FileTypes DEF ProxyInv, ProxyTypeOK, Expire, DeleteHeader, DeleteBody, pipes
    <2>2. \A r \in Requests : RequestInv(r)' /\ Whole(r)'
        BY <1>4 DEF ProxyInv, RequestInv, Split, Copied, WholeOrError, Whole, Expire, DeleteHeader,
                    DeleteBody, pipes
    <2>3. FileWhole' /\ FlagHasOwner'
        BY <1>4 DEF ProxyInv, FileWhole, FlagHasOwner, Expire, DeleteHeader, DeleteBody
    <2> QED
        BY <2>1, <2>2, <2>3 DEF ProxyInv
<1>5. CASE UNCHANGED proxyVars
    BY <1>5 DEF proxyVars, pipes, ProxyInv, ProxyTypeOK, RequestInv, Split, Copied, WholeOrError, Whole,
                FileWhole, FlagHasOwner
<1> QED
    BY <1>1, <1>2, <1>3, <1>4, <1>5 DEF ProxyNext, AllDone

LEMMA ProxyAlways == ProxySpec => []ProxyInv
<1> QED
    BY ProxyInitInv, ProxyInvStep, PTL DEF ProxySpec

-----------------------------------------------------------------------------
\* No part of a body is kept or passed off as an answer, whichever of the
\* target, the client and the saver fails, for any number of requests.
THEOREM WholeAnswers == ProxySpec => []NoTruncation
<1>1. ProxyInv => NoTruncation
    BY DEF ProxyInv, FileWhole, Whole, NoTruncation
<1> QED
    BY <1>1, ProxyAlways, PTL

\* A path is never locked out of the cache by saves that overlap.
THEOREM FlagGivenBack == ProxySpec => []FlagHasOwner
<1>1. ProxyInv => FlagHasOwner
    BY DEF ProxyInv
<1> QED
    BY <1>1, ProxyAlways, PTL

=============================================================================
