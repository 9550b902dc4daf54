---------------------------- MODULE CacheLoader ----------------------------
(***************************************************************************)
(* GetEx and its like (load in cache/loader.go) on a mcache.Map: what is   *)
(* not in the cache is built from a source, through a singleflight.Group   *)
(* if the caller asks for it, and set.                                     *)
(*                                                                         *)
(* The source has a version of each key that grows; building a key reads   *)
(* it.  Others read, set and delete keys of the cache meanwhile; what they *)
(* set is what the source has then.                                        *)
(***************************************************************************)
EXTENDS Naturals

CONSTANTS
    Keys,
    Callers,     \* the goroutines that load, or read the cache otherwise
    MaxVersion,  \* MaxVersion[k]: bound of the versions of k
    NoValue

ASSUME MaxVersionAssumption == MaxVersion \in [Keys -> Nat]

Versions == UNION {0..MaxVersion[k] : k \in Keys}

ASSUME NoVersionAssumption == NoValue \notin Versions

VARIABLES
    store, expiration, fatal, rd, left, due, at, got, saw,  \* of the Map
    source,      \* source[k]: the version the builder of k would read now
    flight,      \* flight[k]: who executes the call in the singleflight.Group
    pc,          \* pc[c]: where c is in load; "done" when it has the result
    key,         \* key[c]: the key c loads
    shared,      \* shared[c]: whether c gave WithSingleflight
    val,         \* val[c]: what c built
    ret,         \* ret[c]: what load returned
    \* history
    gone,        \* gone[k]: the versions of k that are not to be seen any more
    before       \* before[c]: what was gone of its key when c called load

Map == INSTANCE MapCache WITH Values <- Versions, Readers <- Callers

cacheVars == <<store, expiration, fatal, rd, left, due, at, got, saw>>
loadVars == <<flight, pc, key, shared, val, ret, before>>
vars == <<cacheVars, source, loadVars, gone>>

-----------------------------------------------------------------------------

NoCaller == "none"
NoKey == "none"

ASSUME NamesAssumption == NoCaller \notin Callers /\ NoKey \notin Keys

Init ==
    /\ Map!Init
    /\ source = [k \in Keys |-> 0]
    /\ flight = [k \in Keys |-> NoCaller]
    /\ pc = [c \in Callers |-> "idle"]
    /\ key = [c \in Callers |-> NoKey]
    /\ shared = [c \in Callers |-> FALSE]
    /\ val = [c \in Callers |-> NoValue]
    /\ ret = [c \in Callers |-> NoValue]
    /\ gone = [k \in Keys |-> {}]
    /\ before = [c \in Callers |-> {}]

(* The versions of k that were built and are still to be set or returned.  *)
InHand(k) == {val[c] : c \in {d \in Callers : key[d] = k}} \ {NoValue}

(* The entries of K are taken away or replaced: what is neither the        *)
(* version of the source nor in somebody's hands has no way back.          *)
Retire(K) ==
    gone' = [k \in Keys |-> IF k \in K THEN {v \in Versions : v < source[k]} \ InHand(k)
                                       ELSE gone[k]]

-----------------------------------------------------------------------------
(* load                                                                    *)

(* Calls load, which calls the getter.                                     *)
Load(c, k, single) ==
    /\ pc[c] = "idle"
    /\ Map!RLock(c, {k})
    /\ pc' = [pc EXCEPT ![c] = "get"]
    /\ key' = [key EXCEPT ![c] = k]
    /\ shared' = [shared EXCEPT ![c] = single]
    /\ before' = [before EXCEPT ![c] = gone[k]]
    /\ UNCHANGED <<source, flight, val, ret, gone>>

(* The calls of load that D are in return v.                               *)
Give(D, v) ==
    /\ pc' = [d \in Callers |-> IF d \in D THEN "done" ELSE pc[d]]
    /\ key' = [d \in Callers |-> IF d \in D THEN NoKey ELSE key[d]]
    /\ shared' = [d \in Callers |-> d \notin D /\ shared[d]]
    /\ ret' = [d \in Callers |-> IF d \in D THEN v ELSE ret[d]]

(* Found and, if need be, decoded or not; or not found and without a       *)
(* builder.                                                                *)
Hit(c, builder, decoded) ==
    LET found == got[c][key[c]]
    IN  /\ pc[c] = "get"
        /\ found # NoValue \/ ~ builder
        /\ Map!RUnlock(c)
        /\ Give({c}, IF decoded THEN found ELSE NoValue)
        /\ UNCHANGED <<source, flight, val, gone, before>>

Miss(c) ==
    /\ pc[c] = "get"
    /\ got[c][key[c]] = NoValue
    /\ Map!RUnlock(c)
    /\ pc' = [pc EXCEPT ![c] = IF shared[c] THEN "do" ELSE "build"]
    /\ UNCHANGED <<source, flight, key, shared, val, ret, gone, before>>

(* Variant: a group for each call of load.                                 *)
BadDo(c) ==
    /\ pc[c] = "do"
    /\ flight' = [flight EXCEPT ![key[c]] = c]
    /\ pc' = [pc EXCEPT ![c] = "build"]
    /\ UNCHANGED <<cacheVars, source, key, shared, val, ret, gone, before>>

(* singleflight.Do: executes the call, or waits for who executes it.       *)
Do(c) ==
    /\ pc[c] = "do"
    /\ IF flight[key[c]] = NoCaller
       THEN /\ flight' = [flight EXCEPT ![key[c]] = c]
            /\ pc' = [pc EXCEPT ![c] = "build"]
       ELSE /\ pc' = [pc EXCEPT ![c] = "wait"]
            /\ UNCHANGED flight
    /\ UNCHANGED <<cacheVars, source, key, shared, val, ret, gone, before>>

(* The builder reads the source, or fails: then nothing is set, nor is     *)
(* what cannot be encoded.                                                 *)
Build(c) ==
    /\ pc[c] = "build"
    /\ \/ /\ val' = [val EXCEPT ![c] = source[key[c]]]
          /\ pc' \in {[pc EXCEPT ![c] = to] : to \in {"set", "return"}}
       \/ /\ pc' = [pc EXCEPT ![c] = "return"]
          /\ UNCHANGED val
    /\ UNCHANGED <<cacheVars, source, flight, key, shared, ret, gone, before>>

(* Set, with the expiration of the options or that of WithDynamicTTL.      *)
SetBuilt(c) ==
    LET valMap == [k \in {key[c]} |-> val[c]]
    IN  /\ pc[c] = "set"
        /\ Map!MultiSet(valMap) \/ \E negative \in BOOLEAN : Map!MultiSetWithTTL(valMap, negative)
        /\ pc' = [pc EXCEPT ![c] = "return"]
        /\ UNCHANGED <<source, flight, key, shared, val, ret, gone, before>>

(* load returns what was built or the error; Do ends the call and gives    *)
(* the same to all who waited for it.                                      *)
Return(c) ==
    LET with == IF shared[c] THEN {d \in Callers : pc[d] = "wait" /\ key[d] = key[c]} ELSE {}
    IN  /\ pc[c] = "return"
        /\ Give({c} \cup with, val[c])
        /\ flight' = IF shared[c] THEN [flight EXCEPT ![key[c]] = NoCaller] ELSE flight
        /\ val' = [val EXCEPT ![c] = NoValue]
        /\ UNCHANGED <<cacheVars, source, gone, before>>

(* The caller of load goes on.                                             *)
GoOn(c) ==
    /\ pc[c] = "done"
    /\ pc' = [pc EXCEPT ![c] = "idle"]
    /\ ret' = [ret EXCEPT ![c] = NoValue]
    /\ before' = [before EXCEPT ![c] = {}]
    /\ UNCHANGED <<cacheVars, source, flight, key, shared, val, gone>>

-----------------------------------------------------------------------------
(* Other users of the cache.                                               *)

Update(k) ==
    /\ source[k] < MaxVersion[k]
    /\ source' = [source EXCEPT ![k] = @ + 1]
    /\ UNCHANGED <<cacheVars, loadVars, gone>>

(* Get, Exists or MultiGet of a caller that is not in load.                *)
OtherRead(c) ==
    /\ pc[c] = "idle"
    /\ \E K \in SUBSET Keys \ {{}} : Map!RLock(c, K)
    /\ UNCHANGED <<source, loadVars, gone>>

OtherReadEnds(c) ==
    /\ pc[c] = "idle"
    /\ Map!RUnlock(c)
    /\ UNCHANGED <<source, loadVars, gone>>

OtherSet(K) ==
    LET valMap == [k \in K |-> source[k]]
    IN  /\ Map!MultiSet(valMap) \/ \E negative \in BOOLEAN : Map!MultiSetWithTTL(valMap, negative)
        /\ Retire(K)
        /\ UNCHANGED <<source, loadVars>>

OtherDel ==
    /\ \/ \E K \in SUBSET Keys \ {{}} : Map!MultiDel(K) /\ Retire(K)
       \/ Map!DelAll /\ Retire(Keys)
       \/ \E k \in Keys : Map!GetDel(k) /\ Retire({k})
    /\ UNCHANGED <<source, loadVars>>

OtherCount ==
    /\ Map!Count
    /\ UNCHANGED <<source, loadVars, gone>>

(* A reader goes on, by itself or in load.                                 *)
Access(c) ==
    /\ (\E k \in Keys : Map!Read(c, k)) \/ Map!Delete(c)
    /\ UNCHANGED <<source, loadVars, gone>>

Expires(k) ==
    /\ Map!Expire(k)
    /\ Retire({k})
    /\ UNCHANGED <<source, loadVars>>

Fault ==
    /\ Map!MapFault
    /\ UNCHANGED <<source, loadVars, gone>>

(* The process is over.                                                    *)
Ended ==
    /\ fatal
    /\ UNCHANGED vars

-----------------------------------------------------------------------------

(* What a goroutine does of itself once it has called.                     *)
Goes(c) ==
    \/ \E builder, decoded \in BOOLEAN : Hit(c, builder, decoded)
    \/ Miss(c) \/ Do(c) \/ Build(c) \/ Return(c)
    \/ Access(c) \/ OtherReadEnds(c)

Running ==
    \/ \E c \in Callers :
           \/ \E k \in Keys, single \in BOOLEAN : Load(c, k, single)
           \/ Goes(c) \/ SetBuilt(c) \/ GoOn(c) \/ OtherRead(c)
    \/ \E k \in Keys : Update(k) \/ Expires(k)
    \/ \E K \in SUBSET Keys \ {{}} : OtherSet(K)
    \/ OtherDel
    \/ OtherCount
    \/ Fault

Next == (~ fatal /\ Running) \/ Ended

Spec == Init /\ [][Next]_vars

(* A goroutine goes on; the lock lets every writer in at last, whatever    *)
(* readers come (a pending Lock holds off new readers).                    *)
Fairness ==
    \A c \in Callers :
        /\ WF_vars(~ fatal /\ Goes(c))
        /\ SF_vars(~ fatal /\ SetBuilt(c))

FairSpec == Spec /\ Fairness

-----------------------------------------------------------------------------
(* Properties.                                                             *)

(* Every variable has its type; a call of the group is executed by one of  *)
(* its callers.                                                            *)
TypeOK ==
    /\ Map!TypeOK
    /\ source \in [Keys -> Versions]
    /\ flight \in [Keys -> Callers \cup {NoCaller}]
    /\ pc \in [Callers -> {"idle", "get", "do", "wait", "build", "set", "return", "done"}]
    /\ key \in [Callers -> Keys \cup {NoKey}]
    /\ shared \in [Callers -> BOOLEAN]
    /\ val \in [Callers -> Versions \cup {NoValue}]
    /\ ret \in [Callers -> Versions \cup {NoValue}]
    /\ gone \in [Keys -> SUBSET Versions]
    /\ before \in [Callers -> SUBSET Versions]

(* Whatever other readers of mcache.Map delete under the read lock         *)
(* meanwhile, Get, Exists and MultiGet give for each key what was there    *)
(* when they took the lock, except that an entry may be missing that has   *)
(* expired since.                                                          *)
ReadsCurrent == Map!ReadsCurrent

(* A version that Del, DelAll, GetDel, a set or its expiration took from   *)
(* the cache, and that a builder had not read and load still to set or     *)
(* return then, does not come back: no read is given it, and no load that  *)
(* is called later returns it, be it from the cache, from its builder or   *)
(* from the flight of somebody else.                                       *)
Fresh ==
    /\ \A k \in Keys : Map!Visible[k] \notin gone[k]
    /\ \A c \in Callers : ret[c] \notin before[c]

(* With WithSingleflight a key is not built twice at a time, and who waits *)
(* waits for somebody that builds that key.                                *)
OneBuild ==
    \A c \in Callers : shared[c] /\ pc[c] \in {"build", "set", "return", "wait"} =>
        LET lead == flight[key[c]]
        IN  /\ lead # NoCaller /\ key[lead] = key[c]
            /\ pc[lead] \in {"build", "set", "return"}
            /\ pc[c] # "wait" => lead = c

(* Every load ends, unless the process does: nobody is left waiting for a  *)
(* flight or for the lock of the map.                                      *)
LoadEnds == \A c \in Callers : pc[c] \notin {"idle", "done"} ~> pc[c] = "done" \/ fatal

=============================================================================
