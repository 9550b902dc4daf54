------------------------------ MODULE MapCache ------------------------------
(***************************************************************************)
(* mcache.Map (cache/mcache/cache.go): two Go maps, the values and the     *)
(* times at which they expire, under a sync.RWMutex.                       *)
(*                                                                         *)
(* A call that holds the lock for writing is one step, taken when nobody   *)
(* reads.  Get, Exists and MultiGet hold it for reading only, several at a *)
(* time, and delete what they find expired: they are a step per access of  *)
(* the maps.  Get and Exists are a MultiGet of one key, Set is a MultiSet  *)
(* of one, Del a MultiDel of one.                                          *)
(*                                                                         *)
(* Accesses of a Go map that race are undefined; what the runtime does is  *)
(* to notice, and then it ends the process, or not to notice.  A reader    *)
(* looks at the clock when it takes the lock: no writer is there between   *)
(* that and a later look, so it may as well have taken the lock later.     *)
(***************************************************************************)
CONSTANTS
    Keys,
    Values,
    Readers,    \* the goroutines that read
    NoValue     \* what a key without an entry has

VARIABLES
    store,       \* store[k]: the value of a key
    expiration,  \* expiration[k]: "none", or a time that is "ahead" or "passed"
    fatal,       \* the process was ended by the Go runtime
    \* the readers
    rd,          \* rd[r]: the access r makes next, or "out" of the lock
    left,        \* left[r]: the keys r has still to look at
    due,         \* due[r]: the keys that had expired when r read the clock
    at,          \* at[r]: the key r deletes
    got,         \* got[r]: the result of r
    \* history
    saw          \* saw[r]: what there was for r to see when it took the lock

mapVars == <<store, expiration>>
readerVars == <<rd, left, due, at, got, saw>>
vars == <<mapVars, fatal, readerVars>>

-----------------------------------------------------------------------------

NoKey == "none"
Nothing == [k \in Keys |-> NoValue]

Init ==
    /\ store = Nothing
    /\ expiration = [k \in Keys |-> "none"]
    /\ fatal = FALSE
    /\ rd = [r \in Readers |-> "out"]
    /\ left = [r \in Readers |-> {}]
    /\ due = [r \in Readers |-> {}]
    /\ at = [r \in Readers |-> NoKey]
    /\ got = [r \in Readers |-> Nothing]
    /\ saw = [r \in Readers |-> Nothing]

(* What a read that begins now is to be given.                             *)
Visible == [k \in Keys |-> IF expiration[k] = "passed" THEN NoValue ELSE store[k]]

(* rw.Lock                                                                 *)
Lock == \A r \in Readers : rd[r] = "out"

-----------------------------------------------------------------------------
(* The calls that write.                                                   *)

Overwrite(valMap, exp) ==
    /\ Lock
    /\ store' = [k \in Keys |-> IF k \in DOMAIN valMap THEN valMap[k] ELSE store[k]]
    /\ expiration' = [k \in Keys |-> IF k \in DOMAIN valMap THEN exp ELSE expiration[k]]
    /\ UNCHANGED <<fatal, readerVars>>

MultiSet(valMap) == Overwrite(valMap, "none")

(* A negative expiration is none; zero is a time that passes at once.      *)
MultiSetWithTTL(valMap, negative) == Overwrite(valMap, IF negative THEN "none" ELSE "ahead")

(* Variant: the value of a key stays.                                      *)
BadMultiDel(K) ==
    /\ Lock
    /\ expiration' = [k \in Keys |-> IF k \in K THEN "none" ELSE expiration[k]]
    /\ UNCHANGED <<store, fatal, readerVars>>

MultiDel(K) ==
    /\ Lock
    /\ store' = [k \in Keys |-> IF k \in K THEN NoValue ELSE store[k]]
    /\ expiration' = [k \in Keys |-> IF k \in K THEN "none" ELSE expiration[k]]
    /\ UNCHANGED <<fatal, readerVars>>

DelAll == MultiDel(Keys)

(* Whether it has expired or is given to the caller, it goes.              *)
GetDel(k) == MultiDel({k})

Count == MultiDel({k \in Keys : expiration[k] = "passed"})

(* Time goes on.                                                           *)
Expire(k) ==
    /\ expiration[k] = "ahead"
    /\ expiration' = [expiration EXCEPT ![k] = "passed"]
    /\ UNCHANGED <<store, fatal, readerVars>>

-----------------------------------------------------------------------------
(* Get, Exists and MultiGet.                                               *)

RLock(r, K) ==
    /\ rd[r] = "out"
    /\ rd' = [rd EXCEPT ![r] = "read"]
    /\ left' = [left EXCEPT ![r] = K]
    /\ due' = [due EXCEPT ![r] = {k \in K : expiration[k] = "passed"}]
    /\ saw' = [saw EXCEPT ![r] = [k \in Keys |-> IF k \in K THEN Visible[k] ELSE NoValue]]
    /\ UNCHANGED <<mapVars, fatal, at, got>>

(* The key has a time that has passed, or its value is the result.         *)
Read(r, k) ==
    /\ rd[r] = "read"
    /\ k \in left[r]
    /\ left' = [left EXCEPT ![r] = @ \ {k}]
    /\ IF k \in due[r] /\ expiration[k] # "none"
       THEN /\ rd' = [rd EXCEPT ![r] = "delStore"]
            /\ at' = [at EXCEPT ![r] = k]
            /\ UNCHANGED got
       ELSE /\ got' = [got EXCEPT ![r] = [@ EXCEPT ![k] = store[k]]]
            /\ UNCHANGED <<rd, at>>
    /\ UNCHANGED <<mapVars, fatal, due, saw>>

(* Variant: the time is deleted before the value.                          *)
BadDelete(r) ==
    \/ /\ rd[r] = "delStore"
       /\ expiration' = [expiration EXCEPT ![at[r]] = "none"]
       /\ rd' = [rd EXCEPT ![r] = "delExpiration"]
       /\ UNCHANGED <<store, at, fatal, left, due, got, saw>>
    \/ /\ rd[r] = "delExpiration"
       /\ store' = [store EXCEPT ![at[r]] = NoValue]
       /\ rd' = [rd EXCEPT ![r] = "read"]
       /\ at' = [at EXCEPT ![r] = NoKey]
       /\ UNCHANGED <<expiration, fatal, left, due, got, saw>>

(* The two deletes, with the lock held for reading.                        *)
Delete(r) ==
    \/ /\ rd[r] = "delStore"
       /\ store' = [store EXCEPT ![at[r]] = NoValue]
       /\ rd' = [rd EXCEPT ![r] = "delExpiration"]
       /\ UNCHANGED <<expiration, at, fatal, left, due, got, saw>>
    \/ /\ rd[r] = "delExpiration"
       /\ expiration' = [expiration EXCEPT ![at[r]] = "none"]
       /\ rd' = [rd EXCEPT ![r] = "read"]
       /\ at' = [at EXCEPT ![r] = NoKey]
       /\ UNCHANGED <<store, fatal, left, due, got, saw>>

(* Leaves the lock with the result.                                        *)
Leave(r) ==
    /\ rd[r] = "read"
    /\ left[r] = {}
    /\ rd' = [rd EXCEPT ![r] = "out"]
    /\ due' = [due EXCEPT ![r] = {}]
    /\ got' = [got EXCEPT ![r] = Nothing]
    /\ saw' = [saw EXCEPT ![r] = Nothing]
    /\ UNCHANGED <<mapVars, fatal, left, at>>

(* Variant: the return for an expired key comes before the unlock.         *)
BadRUnlock(r) == due[r] = {} /\ Leave(r)

RUnlock(r) == Leave(r)

(* Two readers are at accesses of the same map, one of them a delete.      *)
Race ==
    \E r, q \in Readers :
        /\ r # q
        /\ rd[r] \in {"delStore", "delExpiration"}
        /\ rd[q] = rd[r] \/ (rd[q] = "read" /\ left[q] # {})

(* The runtime notices and ends the process.                               *)
MapFault ==
    /\ Race
    /\ fatal' = TRUE
    /\ UNCHANGED <<mapVars, readerVars>>

-----------------------------------------------------------------------------

ReaderNext(r) ==
    \/ \E K \in SUBSET Keys : RLock(r, K)
    \/ \E k \in Keys : Read(r, k)
    \/ Delete(r)
    \/ RUnlock(r)

Next ==
    /\ ~ fatal
    /\ \/ \E r \in Readers : ReaderNext(r)
       \/ \E K \in SUBSET Keys : \E valMap \in [K -> Values] :
              MultiSet(valMap) \/ \E negative \in BOOLEAN : MultiSetWithTTL(valMap, negative)
       \/ \E K \in SUBSET Keys : MultiDel(K)
       \/ DelAll
       \/ \E k \in Keys : GetDel(k) \/ Expire(k)
       \/ Count
       \/ MapFault

Spec == Init /\ [][Next]_vars

-----------------------------------------------------------------------------
(* Properties.                                                             *)

TypeOK ==
    /\ store \in [Keys -> Values \cup {NoValue}]
    /\ expiration \in [Keys -> {"none", "ahead", "passed"}]
    /\ fatal \in BOOLEAN
    /\ rd \in [Readers -> {"out", "read", "delStore", "delExpiration"}]
    /\ left \in [Readers -> SUBSET Keys]
    /\ \A r \in Readers : rd[r] = "out" => left[r] = {}
    /\ due \in [Readers -> SUBSET Keys]
    /\ at \in [Readers -> Keys \cup {NoKey}]
    /\ \A r \in Readers : rd[r] \in {"delStore", "delExpiration"} => at[r] \in Keys
    /\ got \in [Readers -> [Keys -> Values \cup {NoValue}]]
    /\ saw \in [Readers -> [Keys -> Values \cup {NoValue}]]

(* Whatever other readers delete meanwhile, a reader is given for each key *)
(* what was there when it took the lock, except that an entry may be       *)
(* missing that has expired since: never a value that had expired, and     *)
(* never nothing for a value that still counts.                            *)
ReadsCurrent ==
    \A r \in Readers : \A k \in Keys \ left[r] :
        got[r][k] # saw[r][k] => got[r][k] = NoValue /\ Visible[k] = NoValue

=============================================================================
