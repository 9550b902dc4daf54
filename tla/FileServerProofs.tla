-------------------------- MODULE FileServerProofs --------------------------
(* The upload tokens of FileServer and the files its calls leave, for any    *)
(* number of goroutines, tokens, keys and calls, over each of the four       *)
(* storage clients.                                                          *)
EXTENDS FileServer, FiniteSetTheorems, SequenceTheorems, FunctionTheorems, TLAPS

-----------------------------------------------------------------------------
(* What a step of a storage client does to the calls: it moves its own call  *)
(* on, to the same destination.                                              *)

\* A call has a place and a destination.
IsCall(o) == {"pc", "dst"} \subseteq DOMAIN o
CallsShape == op = [c \in Callers |-> op[c]] /\ \A c \in Callers : IsCall(op[c])

Kept(c, o) == IsCall(o) /\ o.dst = op[c].dst
Moved(c) == op' = [op EXCEPT ![c] = op'[c]] /\ Kept(c, op'[c])

LEMMA AtKept ==
    ASSUME CallsShape, NEW c \in Callers
    PROVE  /\ \A p : Kept(c, At(c, p))
           /\ \A r : Kept(c, Done(c, r))
           /\ \A p, i : Kept(c, [At(c, p) EXCEPT !.fd = i, !.off = 1])
           /\ \A p, i : Kept(c, [At(c, p) EXCEPT !.from = i])
           /\ \A p, v : Kept(c, [At(c, p) EXCEPT !.value = v])
           /\ \A n : Kept(c, [op[c] EXCEPT !.off = n])
           /\ Kept(c, AfterRemove(c)) /\ Kept(c, AfterCopy(c))
    BY DEF CallsShape, IsCall, Kept, At, Done, AfterRemove, AfterCopy

LEMMA CommitMoves ==
    ASSUME CallsShape, NEW c \in Callers, NEW d, NEW x, NEW o, Kept(c, o), Commit(c, d, x, o)
    PROVE  Moved(c)
    BY DEF CallsShape, Moved, Commit

LEMMA LocalMoves ==
    ASSUME CallsShape, NEW c \in Callers, LocalStep(c)
    PROVE  Moved(c)
<1>1. CASE LocalCreate(c)
    BY <1>1, AtKept, CommitMoves DEF LocalCreate, Return, Stay
<1>2. CASE LocalWrite(c)
    BY <1>2, AtKept, CommitMoves DEF LocalWrite, Return, Stay
<1>3. CASE LocalLook(c)
    BY <1>3, AtKept, CommitMoves DEF LocalLook, Return, Stay
<1>4. CASE LocalDelete(c)
    BY <1>4, AtKept, CommitMoves DEF LocalDelete, Return, Stay
<1>5. CASE LocalStatDest(c)
    BY <1>5, AtKept, CommitMoves DEF LocalStatDest, Return, Stay
<1>6. CASE LocalRemove(c)
    BY <1>6, AtKept, CommitMoves DEF LocalRemove, Return, Stay
<1>7. CASE LocalMoveStat(c)
    BY <1>7, AtKept, CommitMoves DEF LocalMoveStat, Return, Stay
<1>8. CASE LocalRename(c)
    BY <1>8, AtKept, CommitMoves DEF LocalRename, Return, Stay
<1>9. CASE LocalCopyOpen(c)
    BY <1>9, AtKept, CommitMoves DEF LocalCopyOpen, Return, Stay
<1> QED
    BY <1>1, <1>2, <1>3, <1>4, <1>5, <1>6, <1>7, <1>8, <1>9 DEF LocalStep

LEMMA CacheMoves ==
    ASSUME CallsShape, NEW c \in Callers, CacheStep(c)
    PROVE  Moved(c)
<1>1. CASE CacheUpload(c)
    BY <1>1, AtKept, CommitMoves DEF CacheUpload, Return, Stay, Remote
<1>2. CASE CacheLook(c)
    BY <1>2, AtKept, CommitMoves DEF CacheLook, Return, Stay, Remote
<1>3. CASE CacheDelete(c)
    BY <1>3, AtKept, CommitMoves DEF CacheDelete, Return, Stay, Remote
<1>4. CASE CacheCopyCheck(c)
    BY <1>4, AtKept, CommitMoves DEF CacheCopyCheck, Return, Stay, Remote
<1>5. CASE CacheCopyGet(c)
    BY <1>5, AtKept, CommitMoves DEF CacheCopyGet, Return, Stay, Remote
<1>6. CASE CacheCopySet(c)
    BY <1>6, AtKept, CommitMoves DEF CacheCopySet, Return, Stay, Remote
<1>7. CASE CacheMoveDel(c)
    BY <1>7, AtKept, CommitMoves DEF CacheMoveDel, Return, Stay, Remote
<1> QED
    BY <1>1, <1>2, <1>3, <1>4, <1>5, <1>6, <1>7 DEF CacheStep

LEMMA S3Moves ==
    ASSUME CallsShape, NEW c \in Callers, S3Step(c)
    PROVE  Moved(c)
<1>1. CASE S3Upload(c)
    BY <1>1, AtKept, CommitMoves DEF S3Upload, Return, Stay, Remote
<1>2. CASE S3Look(c)
    BY <1>2, AtKept, CommitMoves DEF S3Look, Return, Stay, Remote
<1>3. CASE S3Delete(c)
    BY <1>3, AtKept, CommitMoves DEF S3Delete, Return, Stay, Remote
<1>4. CASE S3CopyStat(c)
    BY <1>4, AtKept, CommitMoves DEF S3CopyStat, Return, Stay, Remote
<1>5. CASE S3CopyObject(c)
    BY <1>5, AtKept, CommitMoves DEF S3CopyObject, Return, Stay, Remote
<1>6. CASE S3MoveRemove(c)
    BY <1>6, AtKept, CommitMoves DEF S3MoveRemove, Return, Stay, Remote
<1> QED
    BY <1>1, <1>2, <1>3, <1>4, <1>5, <1>6 DEF S3Step

LEMMA QiniuMoves ==
    ASSUME CallsShape, NEW c \in Callers, QiniuStep(c)
    PROVE  Moved(c)
<1>1. CASE QiniuUpload(c)
    BY <1>1, AtKept, CommitMoves DEF QiniuUpload, Return, Stay, Remote
<1>2. CASE QiniuLook(c)
    BY <1>2, AtKept, CommitMoves DEF QiniuLook, Return, Stay, Remote
<1>3. CASE QiniuDelete(c)
    BY <1>3, AtKept, CommitMoves DEF QiniuDelete, Return, Stay, Remote
<1>4. CASE QiniuMove(c)
    BY <1>4, AtKept, CommitMoves DEF QiniuMove, Return, Stay, Remote, QiniuRefuses
<1>5. CASE QiniuCopy(c)
    BY <1>5, AtKept, CommitMoves DEF QiniuCopy, Return, Stay, Remote, QiniuRefuses
<1> QED
    BY <1>1, <1>2, <1>3, <1>4, <1>5 DEF QiniuStep

LEMMA StoreMoves ==
    ASSUME CallsShape, NEW c \in Callers, StoreStep(c)
    PROVE  Moved(c)
    BY LocalMoves, CacheMoves, S3Moves, QiniuMoves DEF StoreStep

\* A method begins with a call of its own, to the key it names.
LEMMA BeginMoves ==
    ASSUME CallsShape, NEW c \in Callers, NEW kind, NEW s, NEW k, NEW over, NEW v,
           Begin(c, kind, s, k, over, v)
    PROVE  op' = [op EXCEPT ![c] = op'[c]] /\ IsCall(op'[c]) /\ op'[c].dst = k
    BY DEF CallsShape, IsCall, Begin, Idle

-----------------------------------------------------------------------------
(* The inductive invariant.                                                  *)

\* A PUT request has a place, a token, a key and a body.
IsRequest(q) == {"pc", "tok", "key", "body"} \subseteq DOMAIN q
RequestsShape == req = [c \in Callers |-> req[c]] /\ \A c \in Callers : IsRequest(req[c])

TypeOK ==
    /\ tokens \in [Tokens -> Keys \cup {NoKey}]
    /\ issued \in [Tokens -> Keys \cup {NoKey}]
    /\ taken \in SUBSET Tokens
    /\ late \in [Callers -> SUBSET Tokens]
    /\ RequestsShape
    /\ CallsShape

\* A token that is good leads to the key it was made for and was not taken; a
\* token that was taken had been made, so it is not made again.
TokenGood ==
    \A t \in Tokens :
        /\ tokens[t] # NoKey => tokens[t] = issued[t] /\ t \notin taken
        /\ t \in taken => issued[t] # NoKey

\* A request past its Get has a token that nobody had taken when it came; past
\* its Del the token is no longer good, whoever else holds it.
ReqInv(c) ==
    /\ req[c].pc # "done" =>
          /\ req[c].tok \in Tokens \ late[c]
          /\ req[c].key = issued[req[c].tok] /\ req[c].key # NoKey
          /\ req[c].body \in Bodies
    /\ req[c].pc = "body" => tokens[req[c].tok] = NoKey
    /\ req[c].pc = "upload" => op[c].dst = issued[req[c].tok]

IInv == TypeOK /\ TokenGood /\ \A c \in Callers : ReqInv(c)

-----------------------------------------------------------------------------
LEMMA InitIInv == Init => IInv
<1> SUFFICES ASSUME Init PROVE IInv
    OBVIOUS
<1>1. TypeOK
    <2>1. CallsShape
        BY DEF Init, StoreInit, CallsShape, IsCall, Idle
    <2>2. RequestsShape
        BY DEF Init, RequestsShape, IsRequest, NoRequest
    <2> QED
        BY <2>1, <2>2 DEF Init, TypeOK
<1>2. TokenGood
    BY DEF Init, TokenGood
<1>3. \A c \in Callers : ReqInv(c)
    BY DEF Init, ReqInv, NoRequest
<1> QED
    BY <1>1, <1>2, <1>3 DEF IInv

\* Making a token touches none that was made before.
LEMMA AuthKeeps ==
    ASSUME IInv, NEW t \in Tokens, NEW k \in Keys, GenerateUploadAuth(t, k)
    PROVE  IInv'
<1> USE NoTokenAssumption
<1>1. TypeOK'
    BY DEF IInv, TypeOK, GenerateUploadAuth, storeVars, CallsShape, IsCall,
           RequestsShape, IsRequest
<1>2. TokenGood'
    BY DEF IInv, TypeOK, TokenGood, GenerateUploadAuth
<1>3. ASSUME NEW c \in Callers PROVE ReqInv(c)'
    BY DEF IInv, TypeOK, ReqInv, GenerateUploadAuth, storeVars
<1> QED
    BY <1>1, <1>2, <1>3 DEF IInv

LEMMA ExpireKeeps ==
    ASSUME IInv, NEW t \in Tokens, Expire(t)
    PROVE  IInv'
<1>1. TypeOK'
    BY DEF IInv, TypeOK, Expire, storeVars, CallsShape, IsCall,
           RequestsShape, IsRequest
<1>2. TokenGood'
    BY DEF IInv, TypeOK, TokenGood, Expire
<1>3. ASSUME NEW c \in Callers PROVE ReqInv(c)'
    BY DEF IInv, TypeOK, ReqInv, Expire, storeVars
<1> QED
    BY <1>1, <1>2, <1>3 DEF IInv

\* A request reads its token: what it remembers as taken does not have it.
LEMMA GetKeeps ==
    ASSUME IInv, NEW c \in Callers, NEW t \in Tokens, NEW b \in Bodies, TokenGet(c, t, b)
    PROVE  IInv'
<1>0. PICK q : /\ req' = [req EXCEPT ![c] = q] /\ IsRequest(q)
               /\ \/ q.pc = "done"
                  \/ /\ q.pc = "del" /\ q.tok = t /\ q.key = tokens[t] /\ tokens[t] # NoKey
                     /\ q.body = b
    <2>1. /\ [NoRequest EXCEPT !.tok = t, !.code = 400].pc = "done"
          /\ IsRequest([NoRequest EXCEPT !.tok = t, !.code = 400])
        BY DEF NoRequest, IsRequest
    <2>0. /\ [NoRequest EXCEPT !.tok = t, !.code = 500].pc = "done"
          /\ IsRequest([NoRequest EXCEPT !.tok = t, !.code = 500])
        BY DEF NoRequest, IsRequest
    <2>2. LET q == [pc |-> "del", tok |-> t, key |-> tokens[t], body |-> b, code |-> 0]
          IN  IsRequest(q) /\ q.pc = "del" /\ q.tok = t /\ q.key = tokens[t] /\ q.body = b
        BY DEF IsRequest
    <2>3. CASE req' = [req EXCEPT ![c] = [NoRequest EXCEPT !.tok = t, !.code = 400]]
        BY <2>1, <2>3
    <2>4. CASE req' = [req EXCEPT ![c] = [NoRequest EXCEPT !.tok = t, !.code = 500]]
        BY <2>0, <2>4
    <2>5. CASE /\ tokens[t] # NoKey
               /\ req' = [req EXCEPT ![c] = [pc |-> "del", tok |-> t, key |-> tokens[t],
                                             body |-> b, code |-> 0]]
        BY <2>2, <2>5
    <2> QED
        BY <2>3, <2>4, <2>5 DEF TokenGet
<1>1. req' = [req EXCEPT ![c] = q] /\ req'[c] = q /\ late'[c] = taken
    BY <1>0 DEF IInv, TypeOK, TokenGet, RequestsShape
<1>2. TypeOK'
    <2>1. /\ UNCHANGED <<op, tokens, issued, taken>>
          /\ late' = [late EXCEPT ![c] = taken]
        BY DEF TokenGet, storeVars
    <2>2. RequestsShape'
        BY <1>0 DEF IInv, TypeOK, RequestsShape
    <2>3. CallsShape'
        BY <2>1 DEF IInv, TypeOK, CallsShape
    <2> QED
        BY <2>1, <2>2, <2>3 DEF IInv, TypeOK
<1>3. TokenGood'
    BY DEF IInv, TokenGood, TokenGet
<1>4. ReqInv(c)'
    BY <1>0, <1>1 DEF IInv, TypeOK, TokenGood, ReqInv, TokenGet, RequestsShape, IsRequest
<1>5. ASSUME NEW d \in Callers, d # c PROVE ReqInv(d)'
    BY <1>1, <1>5 DEF IInv, TypeOK, ReqInv, TokenGet, storeVars, RequestsShape
<1> QED
    BY <1>2, <1>3, <1>4, <1>5 DEF IInv

\* Del, an empty body and the end of an upload.
LEMMA RequestKeeps ==
    ASSUME IInv, NEW c \in Callers, TokenDel(c) \/ EmptyBody(c) \/ Uploaded(c)
    PROVE  IInv'
<1>1. /\ req' = [req EXCEPT ![c] = req'[c]] /\ IsRequest(req'[c])
      /\ req'[c].pc \in {"done", "body"} /\ req'[c].tok = req[c].tok /\ req'[c].key = req[c].key
      /\ req'[c].body = req[c].body
    BY DEF IInv, TypeOK, TokenDel, EmptyBody, Uploaded, Answer, RequestsShape, IsRequest
<1>2. tokens' = tokens \/ (req[c].pc = "del" /\ tokens' = [tokens EXCEPT ![req[c].tok] = NoKey])
    BY DEF TokenDel, EmptyBody, Uploaded
<1>3. UNCHANGED <<storeVars, issued, taken, late>>
    BY DEF TokenDel, EmptyBody, Uploaded
<1>4. TypeOK'
    BY <1>1, <1>2, <1>3 DEF IInv, TypeOK, storeVars, CallsShape, IsCall,
           RequestsShape, IsRequest
<1>5. TokenGood'
    BY <1>2, <1>3 DEF IInv, TypeOK, TokenGood
<1>6. req'[c].pc = "body" => req[c].pc = "del" /\ tokens'[req[c].tok] = NoKey
    BY DEF IInv, TypeOK, ReqInv, TokenDel, EmptyBody, Uploaded, Answer, RequestsShape, IsRequest
<1>7. ReqInv(c)'
    BY <1>1, <1>3, <1>6 DEF IInv, TypeOK, ReqInv, RequestsShape
<1>8. ASSUME NEW d \in Callers, d # c PROVE ReqInv(d)'
    BY <1>1, <1>2, <1>3, <1>8 DEF IInv, TypeOK, ReqInv, storeVars, RequestsShape
<1> QED
    BY <1>4, <1>5, <1>7, <1>8 DEF IInv

\* The upload begins: its token is taken from here on, and no longer good.
LEMMA TakeKeeps ==
    ASSUME IInv, NEW c \in Callers, TakeBody(c)
    PROVE  IInv'
<1>1. /\ req' = [req EXCEPT ![c].pc = "upload"] /\ req[c].pc = "body"
      /\ taken' = taken \cup {req[c].tok}
      /\ UNCHANGED <<tokens, issued, late>>
    BY DEF TakeBody
<1>2. CallsShape
    BY DEF IInv, TypeOK
<1>3. op' = [op EXCEPT ![c] = op'[c]] /\ IsCall(op'[c]) /\ op'[c].dst = req[c].key
    BY <1>2 DEF TakeBody, Upload, Begin, Idle, CallsShape, IsCall
<1>4. TypeOK'
    <2>1. CallsShape'
        BY <1>2, <1>3 DEF CallsShape, IsCall
    <2>2. RequestsShape'
        BY <1>1 DEF IInv, TypeOK, RequestsShape, IsRequest
    <2>3. req[c].tok \in Tokens
        BY <1>1 DEF IInv, ReqInv
    <2> QED
        BY <1>1, <2>1, <2>2, <2>3 DEF IInv, TypeOK
<1>5. TokenGood'
    BY <1>1 DEF IInv, TypeOK, TokenGood, ReqInv
<1>6. ReqInv(c)'
    BY <1>1, <1>3 DEF IInv, TypeOK, ReqInv, RequestsShape, IsRequest
<1>7. ASSUME NEW d \in Callers, d # c PROVE ReqInv(d)'
    BY <1>1, <1>2, <1>3, <1>7 DEF IInv, TypeOK, ReqInv, CallsShape, RequestsShape
<1> QED
    BY <1>4, <1>5, <1>6, <1>7 DEF IInv

\* A step that only moves a call on, or begins one where no request is.
LEMMA CallKeeps ==
    ASSUME IInv, NEW c \in Callers, UNCHANGED <<tokens, req, issued, taken, late>>,
           op' = [op EXCEPT ![c] = op'[c]], IsCall(op'[c]),
           req[c].pc = "done" \/ op'[c].dst = op[c].dst
    PROVE  IInv'
<1>1. TypeOK'
    BY DEF IInv, TypeOK, CallsShape, RequestsShape
<1>2. TokenGood'
    BY DEF IInv, TokenGood
<1>3. ASSUME NEW d \in Callers PROVE ReqInv(d)'
    BY DEF IInv, TypeOK, ReqInv, CallsShape
<1> QED
    BY <1>1, <1>2, <1>3 DEF IInv

LEMMA StepIInv == IInv /\ [Next]_vars => IInv'
<1> SUFFICES ASSUME IInv, [Next]_vars PROVE IInv'
    OBVIOUS
<1>0. CallsShape
    BY DEF IInv, TypeOK
<1>1. CASE \E t \in Tokens, k \in Keys : GenerateUploadAuth(t, k)
    BY <1>1, AuthKeeps
<1>2. CASE \E t \in Tokens : Expire(t)
    BY <1>2, ExpireKeeps
<1>3. CASE \E c \in Callers, t \in Tokens, b \in Bodies : TokenGet(c, t, b)
    BY <1>3, GetKeeps
<1>4. CASE \E c \in Callers : TokenDel(c) \/ EmptyBody(c) \/ Uploaded(c)
    BY <1>4, RequestKeeps
<1>5. CASE \E c \in Callers : TakeBody(c)
    BY <1>5, TakeKeeps
<1>6. ASSUME NEW c \in Callers, Call(c) \/ \E k \in Keys : Download(c, k)
      PROVE  IInv'
    <2>1. UNCHANGED <<tokens, req, issued, taken, late>> /\ req[c].pc = "done"
        BY <1>6 DEF Call, Download, Free
    <2>2. op' = [op EXCEPT ![c] = op'[c]] /\ IsCall(op'[c])
        BY <1>0, <1>6, BeginMoves DEF Call, Download, Upload, Delete, Look, Move, Copy
    <2> QED
        BY <2>1, <2>2, CallKeeps
<1>7. ASSUME NEW c \in Callers, StoreStep(c) /\ UNCHANGED serverVars
      PROVE  IInv'
    BY <1>0, <1>7, StoreMoves, CallKeeps DEF Moved, Kept, serverVars
<1>8. ASSUME \/ \E k \in Keys : CacheExpire(k) /\ UNCHANGED serverVars
             \/ UNCHANGED vars
      PROVE  IInv'
    <2>1. UNCHANGED <<op, tokens, req, issued, taken, late>>
        BY <1>8 DEF CacheExpire, vars, storeVars, serverVars
    <2> QED
        BY <2>1 DEF IInv, TypeOK, TokenGood, ReqInv, CallsShape, RequestsShape
<1> QED
    BY <1>1, <1>2, <1>3, <1>4, <1>5, <1>6, <1>7, <1>8 DEF Next

-----------------------------------------------------------------------------
\* No request that comes in after an upload with a token began uploads with
\* the token again, and a token's upload goes to the key it was made for.
THEOREM TokensOnce == Spec => []TokenOnce
<1>1. IInv => TokenOnce
    BY DEF IInv, ReqInv, TokenOnce
<1> QED
    BY <1>1, InitIInv, StepIInv, PTL DEF Spec

-----------------------------------------------------------------------------
(* What the storage clients keep.  The invariant of the store, of a call     *)
(* that may not overwrite, and of a call that is left alone.                 *)

Named == Objects \cup {NoObject}
CallFields == {"kind", "src", "dst", "over", "pc", "res", "value", "fd", "from", "off"}

\* Where each kind of call can be.
StepsOf(kind) ==
    {"done"} \cup
    CASE kind = "upload" -> {"upload", "create", "write"}
      [] kind = "delete" -> {"delete"}
      [] kind = "look" -> {"look"}
      [] kind = "copy" -> {"copy", "statDest", "remove", "open", "create", "write",
                           "get", "set", "copyObject"}
      [] kind = "move" -> {"move", "statSource", "statDest", "remove", "rename",
                           "get", "set", "copyObject", "del"}
      [] OTHER -> {}

CallOK(o) ==
    /\ CallFields \subseteq DOMAIN o
    /\ o.kind \in {"none", "upload", "delete", "look", "copy", "move"}
    /\ o.pc \in StepsOf(o.kind)
    /\ o.fd \in Named /\ o.from \in Named /\ o.off \in Nat /\ o.value \in Contents
    /\ o.pc # "done" => o.src \in Keys /\ o.dst \in Keys
    /\ o.pc = "done" => o.fd = NoObject /\ o.from = NoObject
    /\ o.kind \in {"upload", "delete", "look"} => o.src = o.dst
    /\ o.pc = "write" => o.fd # NoObject /\ o.off >= 1
    /\ o.kind = "copy" /\ o.pc \in {"create", "write"} => o.from # NoObject

\* Two keys never name the same object.
DirOK(d) ==
    /\ d \in [Keys -> Named]
    /\ \A j, k \in Keys : d[j] = d[k] /\ d[j] # NoObject => j = k

CallsOK ==
    /\ op = [c \in Callers |-> op[c]]
    /\ before = [c \in Callers |-> before[c]]
    /\ quiet \in [Callers -> SUBSET Keys]
    /\ \A c \in Callers : CallOK(op[c])

StoreOK ==
    /\ DirOK(dir)
    /\ DOMAIN data = Live(dir, op)
    /\ \A i \in Live(dir, op) : data[i] \in Contents
    /\ CallsOK

\* What the keys hold in a store.
Holds(d, x) == [k \in Keys |-> Content(d, x, k)]

\* A call that may not overwrite and found its destination there never gets
\* past its look at it.
Keeps(o, b, h) ==
    /\ o.kind \in {"move", "copy"} /\ ~o.over /\ b[o.dst] # Missing
    => /\ h[o.dst] = b[o.dst]
       /\ o.pc \in {"copy", "move", "statSource", "statDest", "done"}

Looking == {"upload", "delete", "look", "copy", "move", "statSource", "statDest", "remove",
            "get", "copyObject"}

TwoKeys(o) == o.kind \in {"move", "copy"} /\ o.src # o.dst

\* f is the first n blocks of s.
Prefix(f, s, n) == Len(f) = n /\ n <= Len(s) /\ \A i \in 1..n : f[i] = s[i]

Answered(o, b, h) ==
    /\ o.pc = "done" /\ o.res = "ok"
    => CASE o.kind = "upload" -> h[o.dst] = o.value
         [] o.kind = "delete" -> h[o.dst] = Missing
         [] o.kind = "look" -> h[o.dst] = b[o.dst] /\ h[o.dst] # Missing
         [] o.kind = "copy" /\ o.src # o.dst -> h[o.dst] = b[o.src] /\ h[o.src] = b[o.src]
         [] o.kind = "move" /\ o.src # o.dst -> h[o.dst] = b[o.src] /\ h[o.src] = Missing
         [] OTHER -> TRUE

\* How far a call has come whose keys nobody else touched: d names the objects
\* and h is what the keys hold, b what they held when the call began.
Writes(o, b, d, h) ==
    /\ o.kind = "upload" /\ o.pc = "write" => o.fd = d[o.dst] /\ Prefix(h[o.dst], o.value, o.off - 1)
    /\ TwoKeys(o) /\ o.pc \in {"create", "write"} => o.from = d[o.src]
    /\ TwoKeys(o) /\ o.pc = "write" => o.fd = d[o.dst] /\ Prefix(h[o.dst], b[o.src], o.off - 1)

Under(o, b, h) ==
    /\ o.pc \in Looking \/ (o.pc = "create" /\ o.kind = "upload")
          => h[o.src] = b[o.src] /\ h[o.dst] = b[o.dst]
    /\ TwoKeys(o) /\ o.pc \in {"rename", "open", "create", "write", "set"} => h[o.src] = b[o.src]
    /\ TwoKeys(o) /\ o.pc = "set" => o.value = b[o.src]
    /\ TwoKeys(o) /\ o.pc = "del" => h[o.dst] = b[o.src]

Survives(o, b, h) ==
    TwoKeys(o) /\ b[o.src] # Missing => b[o.src] \in {h[o.src], h[o.dst]}

Promise(o, b, d, h) ==
    Writes(o, b, d, h) /\ Under(o, b, h) /\ Answered(o, b, h) /\ Survives(o, b, h)

\* The two for caller c when the store is d and x and its call is o.
Word(c, d, x, o) ==
    /\ o.dst \in quiet[c] => Keeps(o, before[c], Holds(d, x))
    /\ {o.src, o.dst} \subseteq quiet[c] => Promise(o, before[c], d, Holds(d, x))

StoreInv == StoreOK /\ \A c \in Callers : Word(c, dir, data, op[c])

-----------------------------------------------------------------------------
\* A union has no more elements than the two sets together.
LEMMA UnionCount ==
    ASSUME NEW S, NEW T, IsFiniteSet(S), IsFiniteSet(T)
    PROVE  IsFiniteSet(S \cup T) /\ Cardinality(S \cup T) <= Cardinality(S) + Cardinality(T)
<1>1. IsFiniteSet(S \cap T)
    BY FS_Intersection
<1>2. Cardinality(S) \in Nat /\ Cardinality(T) \in Nat /\ Cardinality(S \cap T) \in Nat
    BY <1>1, FS_CardinalityType
<1>3. /\ IsFiniteSet(S \cup T)
      /\ Cardinality(S \cup T) = Cardinality(S) + Cardinality(T) - Cardinality(S \cap T)
    BY FS_Union
<1> QED
    BY <1>2, <1>3

\* There is always an object that nothing names: keys and descriptors are
\* fewer than the objects.
LEMMA FreshIsNew ==
    ASSUME DirOK(dir), \A c \in Callers : CallOK(op[c])
    PROVE  Fresh \in Objects /\ Fresh \notin Live(dir, op)
<1> DEFINE A == {dir[k] : k \in Keys}
           B == {op[c].fd : c \in Callers}
           C == {op[c].from : c \in Callers}
           fds == [c \in Callers |-> op[c].fd]
           froms == [c \in Callers |-> op[c].from]
<1>1. dir \in Surjection(Keys, A) /\ fds \in Surjection(Callers, B) /\ froms \in Surjection(Callers, C)
    BY DEF Surjection, DirOK
<1> HIDE DEF fds, froms
<1>2. /\ IsFiniteSet(A) /\ Cardinality(A) <= Cardinality(Keys)
      /\ IsFiniteSet(B) /\ Cardinality(B) <= Cardinality(Callers)
      /\ IsFiniteSet(C) /\ Cardinality(C) <= Cardinality(Callers)
    BY <1>1, FS_Surjection, ObjectsAssumption
<1> DEFINE All == (A \cup B) \cup C
<1>3. Live(dir, op) \subseteq All
    BY DEF Live
<1> HIDE DEF A, B, C
<1>4. IsFiniteSet(A \cup B) /\ Cardinality(A \cup B) <= Cardinality(A) + Cardinality(B)
    BY <1>2, UnionCount
<1>5. IsFiniteSet(All) /\ Cardinality(All) <= Cardinality(A) + Cardinality(B) + Cardinality(C)
    <2>1. IsFiniteSet(All) /\ Cardinality(All) <= Cardinality(A \cup B) + Cardinality(C)
        BY <1>2, <1>4, UnionCount
    <2>2. /\ Cardinality(A) \in Nat /\ Cardinality(B) \in Nat /\ Cardinality(C) \in Nat
          /\ Cardinality(A \cup B) \in Nat /\ Cardinality(All) \in Nat
        BY <1>2, <1>4, <2>1, FS_CardinalityType
    <2> QED
        BY <1>4, <2>1, <2>2
<1>6. ~(Objects \subseteq All)
    <2> SUFFICES ASSUME Objects \subseteq All PROVE FALSE
        OBVIOUS
    <2>1. Cardinality(Objects) <= Cardinality(All)
        BY <1>5, FS_Subset
    <2> QED
        BY <1>2, <1>5, <2>1, FS_CardinalityType, ObjectsAssumption
<1>7. \E i \in Objects : i \notin Live(dir, op)
    BY <1>3, <1>6
<1> QED
    BY <1>7 DEF Fresh

\* A step of c leaves the other calls alone, and quiet the keys that still
\* hold what they held.
LEMMA CommitEffect ==
    ASSUME CallsOK, NEW c \in Callers, NEW d, NEW x, NEW o, Commit(c, d, x, o)
    PROVE  /\ dir' = d /\ op' = [op EXCEPT ![c] = o] /\ op'[c] = o /\ before' = before
           /\ DOMAIN data' = Live(d, op')
           /\ \A i \in Live(d, op') : data'[i] = x[i]
           /\ \A k \in Keys : Content(dir', data', k) = Content(d, x, k)
           /\ quiet' \in [Callers -> SUBSET Keys] /\ quiet'[c] = quiet[c]
           /\ \A h \in Callers \ {c}, k \in Keys : k \in quiet'[h] =>
                 k \in quiet[h] /\ Content(d, x, k) = Held(k) /\ d[k] = dir[k]
<1>1. dir' = d /\ op' = [op EXCEPT ![c] = o] /\ op'[c] = o /\ before' = before
    BY DEF Commit, CallsOK
<1>2. DOMAIN data' = Live(d, op') /\ \A i \in Live(d, op') : data'[i] = x[i]
    BY DEF Commit
<1>3. ASSUME NEW k \in Keys PROVE Content(dir', data', k) = Content(d, x, k)
    BY <1>1, <1>2 DEF Content, Live
<1>4. /\ quiet' \in [Callers -> SUBSET Keys] /\ quiet'[c] = quiet[c]
      /\ \A h \in Callers \ {c}, k \in Keys : k \in quiet'[h] =>
                 k \in quiet[h] /\ Content(d, x, k) = Held(k) /\ d[k] = dir[k]
    BY DEF Commit, CallsOK
<1> QED
    BY <1>1, <1>2, <1>3, <1>4

\* A promise is about the objects and the contents of its two keys.
LEMMA PromiseSame ==
    ASSUME NEW o, NEW b, NEW d, NEW h, NEW e, NEW g,
           d[o.src] = e[o.src], d[o.dst] = e[o.dst], h[o.src] = g[o.src], h[o.dst] = g[o.dst],
           Promise(o, b, d, h)
    PROVE  Promise(o, b, e, g)
<1>1. Writes(o, b, e, g)
    BY DEF Promise, Writes, Prefix
<1>2. Under(o, b, g)
    BY DEF Promise, Under
<1>3. Answered(o, b, g)
    BY DEF Promise, Answered
<1>4. Survives(o, b, g)
    BY DEF Promise, Survives
<1> QED
    BY <1>1, <1>2, <1>3, <1>4 DEF Promise

\* A step that leaves a good store and keeps its own word.
Allowed(c, d, x, o) ==
    /\ DirOK(d)
    /\ \A i \in Live(d, [op EXCEPT ![c] = o]) : x[i] \in Contents
    /\ CallOK(o)
    /\ Word(c, d, x, o)

LEMMA CommitKeeps ==
    ASSUME StoreInv, NEW c \in Callers, NEW d, NEW x, NEW o, Commit(c, d, x, o),
           Allowed(c, d, x, o)
    PROVE  StoreInv'
<1>0. CallsOK
    BY DEF StoreInv, StoreOK
<1>1. /\ dir' = d /\ op' = [op EXCEPT ![c] = o] /\ op'[c] = o /\ before' = before
      /\ DOMAIN data' = Live(d, op')
      /\ \A i \in Live(d, op') : data'[i] = x[i]
      /\ \A k \in Keys : Content(dir', data', k) = Content(d, x, k)
      /\ quiet' \in [Callers -> SUBSET Keys] /\ quiet'[c] = quiet[c]
    BY <1>0, CommitEffect
<1>2. \A h \in Callers \ {c}, k \in Keys : k \in quiet'[h] =>
         k \in quiet[h] /\ Content(d, x, k) = Held(k) /\ d[k] = dir[k]
    BY <1>0, CommitEffect
<1>3. \A h \in Callers \ {c} : op'[h] = op[h]
    BY <1>0, <1>1 DEF CallsOK
<1>4. CallsOK'
    <2>1. \A h \in Callers : CallOK(op'[h])
        BY <1>0, <1>1, <1>3 DEF CallsOK, Allowed
    <2>2. op' = [h \in Callers |-> op'[h]] /\ before' = [h \in Callers |-> before'[h]]
        BY <1>0, <1>1 DEF CallsOK
    <2> QED
        BY <1>1, <2>1, <2>2 DEF CallsOK
<1>5. StoreOK'
    BY <1>1, <1>4 DEF StoreOK, Allowed
<1>6. Holds(dir', data') = Holds(d, x)
    BY <1>1 DEF Holds
<1>7. Word(c, dir, data, op[c])'
    BY <1>1, <1>6 DEF Allowed, Word
<1>8. ASSUME NEW h \in Callers, h # c PROVE Word(h, dir, data, op[h])'
    <2> DEFINE q == op[h]
    <2>1. Word(h, dir, data, q) /\ quiet'[h] \subseteq Keys
        BY <1>1 DEF StoreInv
    <2>2. \A k \in quiet'[h] : /\ k \in quiet[h] /\ d[k] = dir[k]
                               /\ Holds(d, x)[k] = Holds(dir, data)[k]
        BY <1>2, <1>8, <2>1 DEF Holds, Held
    <2>3. q.dst \in quiet'[h] => Keeps(q, before[h], Holds(d, x))
        BY <2>1, <2>2 DEF Word, Keeps
    <2>4. {q.src, q.dst} \subseteq quiet'[h] => Promise(q, before[h], d, Holds(d, x))
        <3> SUFFICES ASSUME {q.src, q.dst} \subseteq quiet'[h]
                     PROVE  Promise(q, before[h], d, Holds(d, x))
            OBVIOUS
        <3>1. Promise(q, before[h], dir, Holds(dir, data))
            BY <2>1, <2>2 DEF Word
        <3> HIDE DEF q
        <3> QED
            BY <2>2, <3>1, PromiseSame
    <2> QED
        BY <1>1, <1>3, <1>6, <1>8, <2>3, <2>4 DEF Word
<1> QED
    BY <1>5, <1>7, <1>8 DEF StoreInv

\* The fields of a call that goes on and of one that ends.
SameCall(o, q) ==
    /\ CallFields \subseteq DOMAIN o
    /\ o.kind = q.kind /\ o.src = q.src /\ o.dst = q.dst /\ o.over = q.over

LEMMA AtFields ==
    ASSUME NEW c, CallFields \subseteq DOMAIN op[c], NEW p
    PROVE  /\ SameCall(At(c, p), op[c])
           /\ At(c, p).pc = p /\ At(c, p).res = op[c].res /\ At(c, p).value = op[c].value
           /\ At(c, p).fd = op[c].fd /\ At(c, p).from = op[c].from /\ At(c, p).off = op[c].off
    BY DEF SameCall, CallFields, At

LEMMA DoneFields ==
    ASSUME NEW c, CallFields \subseteq DOMAIN op[c], NEW r
    PROVE  /\ SameCall(Done(c, r), op[c])
           /\ Done(c, r).pc = "done" /\ Done(c, r).res = r
           /\ Done(c, r).fd = NoObject /\ Done(c, r).from = NoObject /\ Done(c, r).off = 0
           /\ Done(c, r).value = IF op[c].kind = "upload" THEN op[c].value ELSE <<>>
    BY DEF SameCall, CallFields, Done

LEMMA EmptyContents == <<>> \in Contents
    BY EmptySeq DEF Contents

LEMMA DoneOK ==
    ASSUME NEW c \in Callers, CallOK(op[c]), NEW r
    PROVE  CallOK(Done(c, r))
<1>1. CallFields \subseteq DOMAIN op[c]
    BY DEF CallOK
<1> QED
    BY <1>1, DoneFields, EmptyContents DEF CallOK, SameCall, Named, StepsOf

\* A call that ends drops its descriptors.
LEMMA DoneLive ==
    ASSUME CallsOK, NEW c \in Callers, NEW d, NEW o, NEW r
    PROVE  Live(d, [op EXCEPT ![c] = Done(c, r)]) \subseteq Live(d, [op EXCEPT ![c] = o])
<1>1. Done(c, r).fd = NoObject /\ Done(c, r).from = NoObject
    BY DoneFields DEF CallsOK, CallOK
<1> QED
    BY <1>1 DEF Live, CallsOK

\* A step that may go on may as well fail, whatever it has done by then.
LEMMA FailAllowed ==
    ASSUME CallsOK, NEW c \in Callers, NEW d, NEW x, NEW o, Allowed(c, d, x, o),
           SameCall(o, op[c]), NEW r, r # "ok"
    PROVE  Allowed(c, d, x, Done(c, r))
<1> DEFINE q == Done(c, r)
<1>1. /\ q.kind = o.kind /\ q.src = o.src /\ q.dst = o.dst /\ q.over = o.over
      /\ q.pc = "done" /\ q.res = r
    BY DoneFields DEF SameCall, CallsOK, CallOK
<1>2. CallOK(q)
    BY DoneOK DEF CallsOK
<1>3. \A i \in Live(d, [op EXCEPT ![c] = q]) : x[i] \in Contents
    BY DoneLive DEF Allowed
<1> HIDE DEF q
<1>4. Word(c, d, x, q)
    BY <1>1 DEF Allowed, Word, Keeps, Promise, Survives, Writes, Under, Answered, TwoKeys, Looking
<1> QED
    BY <1>2, <1>3, <1>4 DEF Allowed, q

LEMMA NowAllowed ==
    ASSUME StoreInv, NEW c \in Callers
    PROVE  Allowed(c, dir, data, op[c]) /\ SameCall(op[c], op[c])
<1>1. [op EXCEPT ![c] = op[c]] = op
    BY DEF StoreInv, StoreOK, CallsOK
<1> QED
    BY <1>1 DEF StoreInv, StoreOK, CallsOK, CallOK, Allowed, SameCall

LEMMA FailKeeps ==
    ASSUME StoreInv, NEW c \in Callers, NEW r, r # "ok", Return(c, r)
    PROVE  StoreInv'
<1>1. Allowed(c, dir, data, Done(c, r))
    BY NowAllowed, FailAllowed DEF StoreInv, StoreOK
<1> QED
    BY <1>1, CommitKeeps DEF Return, Stay

LEMMA RemoteKeeps ==
    ASSUME StoreInv, NEW c \in Callers, NEW d, NEW x, NEW o, Remote(c, d, x, o),
           Allowed(c, d, x, o), SameCall(o, op[c])
    PROVE  StoreInv'
<1>1. Allowed(c, d, x, Done(c, "error"))
    BY FailAllowed DEF StoreInv, StoreOK
<1> QED
    BY <1>1, CommitKeeps, FailKeeps DEF Remote

-----------------------------------------------------------------------------
(* The changes a request makes to the store.                                 *)

LEMMA LiveBound ==
    ASSUME CallsOK, NEW c \in Callers, NEW d, NEW o, NEW S, Live(dir, op) \subseteq S,
           \A k \in Keys : d[k] \in S \cup {NoObject}, {o.fd, o.from} \subseteq S \cup {NoObject}
    PROVE  Live(d, [op EXCEPT ![c] = o]) \subseteq S
<1>1. ASSUME NEW h \in Callers
      PROVE  {[op EXCEPT ![c] = o][h].fd, [op EXCEPT ![c] = o][h].from} \subseteq S \cup {NoObject}
    BY DEF Live, CallsOK
<1> QED
    BY <1>1 DEF Live

\* The descriptors of o are none or name what is in use.
Descriptors(o) == {o.fd, o.from} \subseteq Live(dir, op) \cup {NoObject}

LEMMA OwnDescriptors ==
    ASSUME StoreOK, NEW c \in Callers, NEW o, o.fd = op[c].fd, o.from = op[c].from
    PROVE  Descriptors(o)
    BY DEF Descriptors, Live, StoreOK, CallsOK, CallOK, Named

LEMMA HeldType ==
    ASSUME StoreOK, NEW k \in Keys
    PROVE  /\ Holds(dir, data)[k] = Held(k)
           /\ dir[k] = NoObject => Held(k) = Missing
           /\ dir[k] # NoObject => dir[k] \in Live(dir, op) /\ Held(k) = data[dir[k]]
                                   /\ Held(k) \in Contents /\ Held(k) # Missing
    BY MissingAssumption DEF Holds, Held, Content, StoreOK, Live, DirOK, Named

LEMMA SameStore ==
    ASSUME StoreInv, NEW c \in Callers, NEW o, CallOK(o), Descriptors(o), Word(c, dir, data, o)
    PROVE  Allowed(c, dir, data, o)
<1>1. Live(dir, [op EXCEPT ![c] = o]) \subseteq Live(dir, op)
    <2>1. \A k \in Keys : dir[k] \in Live(dir, op) \cup {NoObject}
        BY DEF Live
    <2> QED
        BY <2>1, LiveBound DEF StoreInv, StoreOK, Descriptors
<1> QED
    BY <1>1 DEF StoreInv, StoreOK, Allowed

LEMMA PutStore ==
    ASSUME StoreOK, NEW c \in Callers, NEW k \in Keys, NEW v \in Contents, NEW o, Descriptors(o)
    PROVE  /\ DirOK(PutDir(k))
           /\ \A i \in Live(PutDir(k), [op EXCEPT ![c] = o]) : PutData(v)[i] \in Contents
           /\ \A j \in Keys : Holds(PutDir(k), PutData(v))[j] =
                                  IF j = k THEN v ELSE Holds(dir, data)[j]
           /\ \A j \in Keys \ {k} : PutDir(k)[j] = dir[j]
<1>1. Fresh \in Objects /\ Fresh \notin Live(dir, op)
    BY FreshIsNew DEF StoreOK, CallsOK
<1> HIDE DEF Fresh
<1>2. \A j \in Keys : PutDir(k)[j] = IF j = k THEN Fresh ELSE dir[j]
    BY DEF PutDir, StoreOK, DirOK
<1>3. DirOK(PutDir(k))
    <2>1. PutDir(k) \in [Keys -> Named]
        BY <1>1 DEF PutDir, StoreOK, DirOK, Named
    <2>2. \A j \in Keys : dir[j] # Fresh
        BY <1>1, NoObjectAssumption DEF Live
    <2> QED
        BY <1>2, <2>1, <2>2 DEF StoreOK, DirOK
<1>4. /\ DOMAIN PutData(v) = Live(dir, op) \cup {Fresh}
      /\ PutData(v)[Fresh] = v
      /\ \A i \in Live(dir, op) : PutData(v)[i] = data[i]
    BY <1>1 DEF PutData, WithObject, StoreOK
<1>5. Live(PutDir(k), [op EXCEPT ![c] = o]) \subseteq Live(dir, op) \cup {Fresh}
    <2> DEFINE S == Live(dir, op) \cup {Fresh}
    <2>1. \A j \in Keys : PutDir(k)[j] \in S \cup {NoObject}
        BY <1>2 DEF Live
    <2>2. {o.fd, o.from} \subseteq S \cup {NoObject} /\ Live(dir, op) \subseteq S
        BY DEF Descriptors
    <2> HIDE DEF S
    <2> QED
        BY <2>1, <2>2, LiveBound DEF StoreOK, S
<1>6. \A i \in Live(PutDir(k), [op EXCEPT ![c] = o]) : PutData(v)[i] \in Contents
    BY <1>4, <1>5 DEF StoreOK
<1>7. ASSUME NEW j \in Keys
      PROVE  Holds(PutDir(k), PutData(v))[j] = IF j = k THEN v ELSE Holds(dir, data)[j]
    <2>1. dir[j] # NoObject => dir[j] \in Live(dir, op)
        BY DEF Live
    <2> QED
        BY <1>1, <1>2, <1>4, <2>1, NoObjectAssumption DEF Holds, Content
<1> QED
    BY <1>2, <1>3, <1>6, <1>7

LEMMA RemoveStore ==
    ASSUME StoreOK, NEW c \in Callers, NEW k \in Keys, NEW o, Descriptors(o)
    PROVE  /\ DirOK(NoKeyDir(k))
           /\ \A i \in Live(NoKeyDir(k), [op EXCEPT ![c] = o]) : data[i] \in Contents
           /\ \A j \in Keys : Holds(NoKeyDir(k), data)[j] =
                                  IF j = k THEN Missing ELSE Holds(dir, data)[j]
           /\ \A j \in Keys \ {k} : NoKeyDir(k)[j] = dir[j]
<1>1. \A j \in Keys : NoKeyDir(k)[j] = IF j = k THEN NoObject ELSE dir[j]
    BY DEF NoKeyDir, StoreOK, DirOK
<1>2. DirOK(NoKeyDir(k))
    <2>1. NoKeyDir(k) \in [Keys -> Named]
        BY DEF NoKeyDir, StoreOK, DirOK, Named
    <2> QED
        BY <1>1, <2>1 DEF StoreOK, DirOK
<1>3. Live(NoKeyDir(k), [op EXCEPT ![c] = o]) \subseteq Live(dir, op)
    <2>1. \A j \in Keys : NoKeyDir(k)[j] \in Live(dir, op) \cup {NoObject}
        BY <1>1 DEF Live
    <2> QED
        BY <2>1, LiveBound DEF StoreOK, Descriptors
<1>4. \A j \in Keys : Holds(NoKeyDir(k), data)[j] = IF j = k THEN Missing ELSE Holds(dir, data)[j]
    BY <1>1 DEF Holds, Content
<1> QED
    BY <1>1, <1>2, <1>3, <1>4 DEF StoreOK

\* The directory once the name s has become the name k.
Renamed(s, k) ==
    [j \in Keys |-> IF j = k THEN dir[s] ELSE IF j = s THEN NoObject ELSE dir[j]]

LEMMA RenameStore ==
    ASSUME StoreOK, NEW c \in Callers, NEW s \in Keys, NEW k \in Keys, NEW o, Descriptors(o)
    PROVE  /\ DirOK(Renamed(s, k))
           /\ \A i \in Live(Renamed(s, k), [op EXCEPT ![c] = o]) : data[i] \in Contents
           /\ \A j \in Keys : Holds(Renamed(s, k), data)[j] =
                                  IF j = k THEN Holds(dir, data)[s]
                                  ELSE IF j = s THEN Missing ELSE Holds(dir, data)[j]
<1>1. DirOK(Renamed(s, k))
    BY DEF Renamed, StoreOK, DirOK, Named
<1>2. Live(Renamed(s, k), [op EXCEPT ![c] = o]) \subseteq Live(dir, op)
    <2>1. \A j \in Keys : Renamed(s, k)[j] \in Live(dir, op) \cup {NoObject}
        BY DEF Live, Renamed
    <2> QED
        BY <2>1, LiveBound DEF StoreOK, Descriptors
<1>3. \A j \in Keys : Holds(Renamed(s, k), data)[j] =
                          IF j = k THEN Holds(dir, data)[s]
                          ELSE IF j = s THEN Missing ELSE Holds(dir, data)[j]
    BY DEF Holds, Content, Renamed
<1> QED
    BY <1>1, <1>2, <1>3 DEF StoreOK

-----------------------------------------------------------------------------
(* What a step may be at, by the place its call is in.                       *)

LEMMA OwnWord ==
    ASSUME StoreInv, NEW c \in Callers
    PROVE  /\ StoreOK /\ CallsOK /\ CallOK(op[c]) /\ CallFields \subseteq DOMAIN op[c]
           /\ op[c].dst \in quiet[c] => Keeps(op[c], before[c], Holds(dir, data))
           /\ {op[c].src, op[c].dst} \subseteq quiet[c] =>
                 /\ Writes(op[c], before[c], dir, Holds(dir, data))
                 /\ Under(op[c], before[c], Holds(dir, data))
                 /\ Survives(op[c], before[c], Holds(dir, data))
           /\ quiet[c] \subseteq Keys
    BY DEF StoreInv, StoreOK, CallsOK, CallOK, Word, Promise

\* An answer that is not nil, or nil when the call kept its word.
LEMMA OkWord ==
    ASSUME StoreInv, NEW c \in Callers, NEW d, NEW x,
           op[c].dst \in quiet[c] => Keeps(Done(c, "ok"), before[c], Holds(d, x)),
           {op[c].src, op[c].dst} \subseteq quiet[c] =>
                 /\ Answered(Done(c, "ok"), before[c], Holds(d, x))
                 /\ Survives(Done(c, "ok"), before[c], Holds(d, x))
    PROVE  Word(c, d, x, Done(c, "ok"))
<1>1. /\ Done(c, "ok").pc = "done" /\ Done(c, "ok").src = op[c].src /\ Done(c, "ok").dst = op[c].dst
    BY OwnWord, DoneFields DEF SameCall
<1> QED
    BY <1>1 DEF Word, Promise, Writes, Under, TwoKeys, Looking

LEMMA UploadAllowed ==
    ASSUME StoreInv, NEW c \in Callers, op[c].pc = "upload"
    PROVE  /\ Allowed(c, PutDir(op[c].dst), PutData(op[c].value), Done(c, "ok"))
           /\ SameCall(Done(c, "ok"), op[c])
<1> DEFINE q == op[c]
           o == Done(c, "ok")
           d == PutDir(q.dst)
           x == PutData(q.value)
<1>1. StoreOK /\ CallOK(q) /\ CallFields \subseteq DOMAIN q
    BY OwnWord
<1>2. q.kind = "upload" /\ q.dst \in Keys /\ q.value \in Contents
    BY <1>1 DEF CallOK, StepsOf
<1>3. /\ SameCall(o, q) /\ o.pc = "done" /\ o.fd = NoObject /\ o.from = NoObject
      /\ o.value = q.value /\ CallOK(o) /\ Descriptors(o)
    BY <1>1, <1>2, DoneFields, DoneOK DEF Descriptors
<1> HIDE DEF o
<1>4. /\ DirOK(d) /\ \A i \in Live(d, [op EXCEPT ![c] = o]) : x[i] \in Contents
      /\ Holds(d, x)[q.dst] = q.value
    BY <1>1, <1>2, <1>3, PutStore
<1>5. Keeps(o, before[c], Holds(d, x)) /\ Answered(o, before[c], Holds(d, x))
      /\ Survives(o, before[c], Holds(d, x))
    BY <1>2, <1>3, <1>4 DEF Keeps, Answered, Survives, TwoKeys, SameCall
<1>6. Word(c, d, x, o)
    BY <1>5, OkWord DEF o
<1> QED
    BY <1>3, <1>4, <1>6 DEF Allowed, o

LEMMA DeleteAllowed ==
    ASSUME StoreInv, NEW c \in Callers, op[c].pc = "delete"
    PROVE  /\ Allowed(c, NoKeyDir(op[c].src), data, Done(c, "ok"))
           /\ SameCall(Done(c, "ok"), op[c])
<1> DEFINE q == op[c]
           o == Done(c, "ok")
           d == NoKeyDir(q.src)
<1>1. StoreOK /\ CallOK(q) /\ CallFields \subseteq DOMAIN q
    BY OwnWord
<1>2. q.kind = "delete" /\ q.src \in Keys /\ q.src = q.dst
    BY <1>1 DEF CallOK, StepsOf
<1>3. /\ SameCall(o, q) /\ o.pc = "done" /\ o.fd = NoObject /\ o.from = NoObject
      /\ CallOK(o) /\ Descriptors(o)
    BY <1>1, <1>2, DoneFields, DoneOK DEF Descriptors
<1> HIDE DEF o
<1>4. /\ DirOK(d) /\ \A i \in Live(d, [op EXCEPT ![c] = o]) : data[i] \in Contents
      /\ Holds(d, data)[q.dst] = Missing
    BY <1>1, <1>2, <1>3, RemoveStore
<1>5. Keeps(o, before[c], Holds(d, data)) /\ Answered(o, before[c], Holds(d, data))
      /\ Survives(o, before[c], Holds(d, data))
    BY <1>2, <1>3, <1>4 DEF Keeps, Answered, Survives, TwoKeys, SameCall
<1>6. Word(c, d, data, o)
    BY <1>5, OkWord DEF o
<1> QED
    BY <1>3, <1>4, <1>6 DEF Allowed, o

\* IsFileExists and DownloadFile find the file that was there all along.
LEMMA LookKeeps ==
    ASSUME StoreInv, NEW c \in Callers, op[c].pc = "look",
           Return(c, IF dir[op[c].src] = NoObject THEN "notFound" ELSE "ok")
    PROVE  StoreInv'
<1>1. CASE dir[op[c].src] = NoObject
    BY <1>1, FailKeeps
<1>2. CASE dir[op[c].src] # NoObject
    <2> DEFINE q == op[c]
               o == Done(c, "ok")
    <2>1. StoreOK /\ CallOK(q) /\ CallFields \subseteq DOMAIN q
        BY OwnWord
    <2>2. q.kind = "look" /\ q.src \in Keys /\ q.src = q.dst
        BY <2>1 DEF CallOK, StepsOf
    <2>3. /\ SameCall(o, q) /\ o.pc = "done" /\ o.fd = NoObject /\ o.from = NoObject
          /\ CallOK(o) /\ Descriptors(o)
        BY <2>1, <2>2, DoneFields, DoneOK DEF Descriptors
    <2> HIDE DEF o
    <2>4. Holds(dir, data)[q.dst] # Missing
        BY <1>2, <2>1, <2>2, HeldType
    <2>5. Keeps(o, before[c], Holds(dir, data)) /\ Survives(o, before[c], Holds(dir, data))
        BY <2>2, <2>3 DEF Keeps, Survives, TwoKeys, SameCall
    <2>6. {q.src, q.dst} \subseteq quiet[c] => Answered(o, before[c], Holds(dir, data))
        BY <2>2, <2>3, <2>4, OwnWord DEF Answered, SameCall, Under, Looking
    <2>7. Word(c, dir, data, o)
        BY <2>5, <2>6, OkWord DEF o
    <2>8. Allowed(c, dir, data, o)
        BY <2>3, <2>7, SameStore
    <2> QED
        BY <1>2, <2>8, CommitKeeps DEF Return, Stay, o
<1> QED
    BY <1>1, <1>2

\* A call that may not overwrite is past its look at the destination, or just
\* found nothing there: nothing was there when it began.
NothingThere(c) ==
    op[c].dst \in quiet[c] /\ ~op[c].over => before[c][op[c].dst] = Missing

LEMMA NotThere ==
    ASSUME StoreInv, NEW c \in Callers, op[c].kind \in {"move", "copy"},
           \/ op[c].pc \notin {"copy", "move", "statSource", "statDest", "done"}
           \/ op[c].over
           \/ dir[op[c].dst] = NoObject
    PROVE  NothingThere(c)
<1> SUFFICES ASSUME op[c].dst \in quiet[c], ~op[c].over PROVE before[c][op[c].dst] = Missing
    BY DEF NothingThere
<1>1. op[c].dst \in Keys /\ Keeps(op[c], before[c], Holds(dir, data))
    BY OwnWord
<1>2. dir[op[c].dst] = NoObject => Holds(dir, data)[op[c].dst] = Missing
    BY <1>1, HeldType DEF StoreInv
<1> QED
    BY <1>1, <1>2 DEF Keeps

\* A copy has put v at its destination: it is what the source held.
LEMMA CopyAllowed ==
    ASSUME StoreInv, NEW c \in Callers, op[c].pc \in {"set", "copyObject", "copy"},
           NothingThere(c), NEW v \in Contents,
           {op[c].src, op[c].dst} \subseteq quiet[c] /\ TwoKeys(op[c]) => v = before[c][op[c].src]
    PROVE  /\ Allowed(c, PutDir(op[c].dst), PutData(v), AfterCopy(c))
           /\ SameCall(AfterCopy(c), op[c])
<1> DEFINE q == op[c]
           b == before[c]
           d == PutDir(q.dst)
           h == Holds(d, PutData(v))
<1>1. StoreOK /\ CallOK(q) /\ CallFields \subseteq DOMAIN q
    BY OwnWord
<1>2. q.kind \in {"move", "copy"} /\ q.dst \in Keys /\ q.src \in Keys
      /\ (q.pc = "copy" => q.kind = "copy")
    BY <1>1 DEF CallOK, StepsOf
<1>3. ASSUME NEW o, Descriptors(o)
      PROVE  /\ DirOK(d) /\ \A i \in Live(d, [op EXCEPT ![c] = o]) : PutData(v)[i] \in Contents
             /\ h[q.dst] = v
             /\ q.src # q.dst => h[q.src] = Holds(dir, data)[q.src]
    BY <1>1, <1>2, <1>3, PutStore
<1>4. {q.src, q.dst} \subseteq quiet[c] /\ q.src # q.dst =>
          Holds(dir, data)[q.src] = b[q.src] /\ v = b[q.src]
    BY <1>2, OwnWord DEF Under, TwoKeys, Looking
<1>5. CASE q.kind = "move"
    <2> DEFINE o == At(c, "del")
    <2>1. /\ SameCall(o, q) /\ o.pc = "del" /\ o.value = q.value
          /\ o.fd = q.fd /\ o.from = q.from /\ o.off = q.off
        BY <1>1, AtFields
    <2> HIDE DEF o
    <2>2. CallOK(o)
        BY <1>1, <1>2, <1>5, <2>1 DEF CallOK, SameCall, StepsOf
    <2>3. Descriptors(o)
        BY <1>1, <2>1, OwnDescriptors
    <2>4. h[q.dst] = v
        BY <1>3, <2>3
    <2> HIDE DEF h, d
    <2>5. o.dst \in quiet[c] => Keeps(o, b, h)
        BY <2>1 DEF Keeps, NothingThere, SameCall
    <2>6. {o.src, o.dst} \subseteq quiet[c] => Promise(o, b, d, h)
        BY <1>2, <1>4, <1>5, <2>1, <2>4
           DEF Promise, Writes, Under, Answered, Survives, TwoKeys, SameCall, Looking
    <2>7. Word(c, d, PutData(v), o)
        BY <2>5, <2>6 DEF Word, h
    <2>8. Allowed(c, d, PutData(v), o)
        BY <1>3, <2>2, <2>3, <2>7 DEF Allowed
    <2> QED
        BY <1>5, <2>1, <2>8 DEF AfterCopy, o, d
<1>6. CASE q.kind = "copy"
    <2> DEFINE o == Done(c, "ok")
    <2>1. /\ SameCall(o, q) /\ o.pc = "done" /\ o.fd = NoObject /\ o.from = NoObject
          /\ CallOK(o) /\ Descriptors(o)
        BY <1>1, DoneFields, DoneOK DEF Descriptors
    <2> HIDE DEF o
    <2>2. h[q.dst] = v /\ (q.src # q.dst => h[q.src] = Holds(dir, data)[q.src])
        BY <1>3, <2>1
    <2> HIDE DEF h, d
    <2>3. q.dst \in quiet[c] => Keeps(o, b, h)
        BY <2>1 DEF Keeps, NothingThere, SameCall
    <2>4. {q.src, q.dst} \subseteq quiet[c] => Answered(o, b, h) /\ Survives(o, b, h)
        BY <1>2, <1>4, <1>6, <2>1, <2>2 DEF Answered, Survives, TwoKeys, SameCall
    <2>5. Word(c, d, PutData(v), o)
        BY <2>3, <2>4, OkWord DEF h, o
    <2>6. Allowed(c, d, PutData(v), o)
        BY <1>3, <2>1, <2>5 DEF Allowed
    <2> QED
        BY <1>6, <2>1, <2>6 DEF AfterCopy, o, d
<1> QED
    BY <1>2, <1>5, <1>6

\* The source of a move goes once its destination has the file.
LEMMA MoveDelAllowed ==
    ASSUME StoreInv, NEW c \in Callers, op[c].pc = "del"
    PROVE  /\ Allowed(c, NoKeyDir(op[c].src), data, Done(c, "ok"))
           /\ SameCall(Done(c, "ok"), op[c])
<1> DEFINE q == op[c]
           b == before[c]
           o == Done(c, "ok")
           d == NoKeyDir(q.src)
           h == Holds(d, data)
<1>1. StoreOK /\ CallOK(q) /\ CallFields \subseteq DOMAIN q
    BY OwnWord
<1>2. q.kind = "move" /\ q.src \in Keys /\ q.dst \in Keys
    BY <1>1 DEF CallOK, StepsOf
<1>3. /\ SameCall(o, q) /\ o.pc = "done" /\ o.fd = NoObject /\ o.from = NoObject
      /\ CallOK(o) /\ Descriptors(o)
    BY <1>1, DoneFields, DoneOK DEF Descriptors
<1>4. NothingThere(c)
    BY <1>2, NotThere
<1> HIDE DEF o
<1>5. /\ DirOK(d) /\ \A i \in Live(d, [op EXCEPT ![c] = o]) : data[i] \in Contents
      /\ h[q.src] = Missing
      /\ q.src # q.dst => h[q.dst] = Holds(dir, data)[q.dst]
    BY <1>1, <1>2, <1>3, RemoveStore
<1> HIDE DEF h, d
<1>6. q.dst \in quiet[c] => Keeps(o, b, h)
    BY <1>3, <1>4, <1>5 DEF Keeps, NothingThere, SameCall
<1>7. {q.src, q.dst} \subseteq quiet[c] => Answered(o, b, h) /\ Survives(o, b, h)
    BY <1>2, <1>3, <1>5, OwnWord DEF Answered, Survives, TwoKeys, SameCall, Under
<1>8. Word(c, d, data, o)
    BY <1>6, <1>7, OkWord DEF h, o
<1> QED
    BY <1>3, <1>5, <1>8 DEF Allowed, o, d

\* A file gets its new name in one step.
LEMMA RenameAllowed ==
    ASSUME StoreInv, NEW c \in Callers, op[c].pc \in {"rename", "move"}, NothingThere(c)
    PROVE  /\ Allowed(c, Renamed(op[c].src, op[c].dst), data, Done(c, "ok"))
           /\ SameCall(Done(c, "ok"), op[c])
<1> DEFINE q == op[c]
           b == before[c]
           o == Done(c, "ok")
           d == Renamed(q.src, q.dst)
           h == Holds(d, data)
<1>1. StoreOK /\ CallOK(q) /\ CallFields \subseteq DOMAIN q
    BY OwnWord
<1>2. q.kind = "move" /\ q.src \in Keys /\ q.dst \in Keys
    BY <1>1 DEF CallOK, StepsOf
<1>3. /\ SameCall(o, q) /\ o.pc = "done" /\ o.fd = NoObject /\ o.from = NoObject
      /\ CallOK(o) /\ Descriptors(o)
    BY <1>1, DoneFields, DoneOK DEF Descriptors
<1> HIDE DEF o
<1>4. /\ DirOK(d) /\ \A i \in Live(d, [op EXCEPT ![c] = o]) : data[i] \in Contents
      /\ h[q.dst] = Holds(dir, data)[q.src]
      /\ q.src # q.dst => h[q.src] = Missing
    BY <1>1, <1>2, <1>3, RenameStore
<1> HIDE DEF h, d
<1>5. q.dst \in quiet[c] => Keeps(o, b, h)
    BY <1>3 DEF Keeps, NothingThere, SameCall
<1>6. {q.src, q.dst} \subseteq quiet[c] => Answered(o, b, h) /\ Survives(o, b, h)
    BY <1>2, <1>3, <1>4, OwnWord DEF Answered, Survives, TwoKeys, SameCall, Under, Looking
<1>7. Word(c, d, data, o)
    BY <1>5, <1>6, OkWord DEF h, o
<1> QED
    BY <1>3, <1>4, <1>7 DEF Allowed, o, d

\* A call goes on to its next place and changes nothing.
LEMMA OnwardKeeps ==
    ASSUME StoreInv, NEW c \in Callers, op[c].pc \in {"copy", "move", "statSource", "statDest"},
           NEW p \in StepsOf(op[c].kind) \cap {"statDest", "remove", "get", "copyObject", "rename", "open"},
           p = "statDest" \/ NothingThere(c), Stay(c, At(c, p))
    PROVE  StoreInv'
<1> DEFINE q == op[c]
           b == before[c]
           o == At(c, p)
           h == Holds(dir, data)
<1>1. StoreOK /\ CallOK(q) /\ CallFields \subseteq DOMAIN q
    BY OwnWord
<1>2. q.kind \in {"move", "copy"} /\ q.src \in Keys /\ q.dst \in Keys
    BY <1>1 DEF CallOK, StepsOf
<1>3. /\ SameCall(o, q) /\ o.pc = p /\ o.value = q.value
      /\ o.fd = q.fd /\ o.from = q.from /\ o.off = q.off
    BY <1>1, AtFields
<1> HIDE DEF o
<1>4. CallOK(o)
    BY <1>1, <1>2, <1>3 DEF CallOK, SameCall
<1>5. Descriptors(o)
    BY <1>1, <1>3, OwnDescriptors
<1> HIDE DEF h
<1>6. q.dst \in quiet[c] => Keeps(o, b, h)
    BY <1>2, <1>3, OwnWord DEF Keeps, NothingThere, SameCall, h
<1>7. {q.src, q.dst} \subseteq quiet[c] => Promise(o, b, dir, h)
    <2> SUFFICES ASSUME {q.src, q.dst} \subseteq quiet[c] PROVE Promise(o, b, dir, h)
        OBVIOUS
    <2>1. h[q.src] = b[q.src] /\ h[q.dst] = b[q.dst] /\ Survives(q, b, h)
        BY OwnWord DEF Under, Looking, h
    <2> QED
        BY <1>2, <1>3, <2>1
           DEF Promise, Writes, Under, Answered, Survives, TwoKeys, SameCall, Looking
<1>8. Word(c, dir, data, o)
    BY <1>3, <1>6, <1>7 DEF Word, SameCall, h
<1> QED
    BY <1>4, <1>5, <1>8, SameStore, CommitKeeps DEF Stay, o

\* CopyFile of the cache remembers what the source holds.
LEMMA SourceKeeps ==
    ASSUME StoreInv, NEW c \in Callers, op[c].pc = "get", dir[op[c].src] # NoObject,
           Stay(c, [At(c, "set") EXCEPT !.value = Held(op[c].src)])
    PROVE  StoreInv'
<1> DEFINE q == op[c]
           b == before[c]
           o == [At(c, "set") EXCEPT !.value = Held(q.src)]
           h == Holds(dir, data)
<1>1. StoreOK /\ CallOK(q) /\ CallFields \subseteq DOMAIN q
    BY OwnWord
<1>2. q.kind \in {"move", "copy"} /\ q.src \in Keys /\ q.dst \in Keys
    BY <1>1 DEF CallOK, StepsOf
<1>3. /\ SameCall(o, q) /\ o.pc = "set" /\ o.value = Held(q.src)
      /\ o.fd = q.fd /\ o.from = q.from /\ o.off = q.off
    BY <1>1 DEF SameCall, CallFields, At
<1> HIDE DEF o
<1>4. Held(q.src) \in Contents /\ h[q.src] = Held(q.src)
    BY <1>1, <1>2, HeldType
<1>5. CallOK(o)
    BY <1>1, <1>2, <1>3, <1>4 DEF CallOK, SameCall, StepsOf
<1>6. Descriptors(o)
    BY <1>1, <1>3, OwnDescriptors
<1>7. NothingThere(c)
    BY <1>2, NotThere
<1> HIDE DEF h
<1>8. q.dst \in quiet[c] => Keeps(o, b, h)
    BY <1>3, <1>7 DEF Keeps, NothingThere, SameCall
<1>9. {q.src, q.dst} \subseteq quiet[c] => Promise(o, b, dir, h)
    <2> SUFFICES ASSUME {q.src, q.dst} \subseteq quiet[c] PROVE Promise(o, b, dir, h)
        OBVIOUS
    <2>1. h[q.src] = b[q.src] /\ h[q.dst] = b[q.dst] /\ Survives(q, b, h)
        BY OwnWord DEF Under, Looking, h
    <2> QED
        BY <1>2, <1>3, <1>4, <2>1
           DEF Promise, Writes, Under, Answered, Survives, TwoKeys, SameCall, Looking
<1>10. Word(c, dir, data, o)
    BY <1>3, <1>8, <1>9 DEF Word, SameCall, h
<1> QED
    BY <1>5, <1>6, <1>10, SameStore, CommitKeeps DEF Stay, o

\* removeBeforeOverwrite removes the destination, never a source of its own.
LEMMA RemoveKeeps ==
    ASSUME StoreInv, NEW c \in Callers, op[c].pc = "remove",
           Commit(c, NoKeyDir(op[c].dst), data, AfterRemove(c))
    PROVE  StoreInv'
<1> DEFINE q == op[c]
           b == before[c]
           o == AfterRemove(c)
           d == NoKeyDir(q.dst)
           h == Holds(d, data)
<1>1. StoreOK /\ CallOK(q) /\ CallFields \subseteq DOMAIN q
    BY OwnWord
<1>2. q.kind \in {"move", "copy"} /\ q.src \in Keys /\ q.dst \in Keys
    BY <1>1 DEF CallOK, StepsOf
<1>3. /\ SameCall(o, q) /\ o.pc = (IF q.kind = "move" THEN "rename" ELSE "open")
      /\ o.value = q.value /\ o.fd = q.fd /\ o.from = q.from /\ o.off = q.off
    BY <1>1, AtFields DEF AfterRemove
<1> HIDE DEF o
<1>4. CallOK(o)
    BY <1>1, <1>2, <1>3 DEF CallOK, SameCall, StepsOf
<1>5. Descriptors(o)
    BY <1>1, <1>3, OwnDescriptors
<1>6. /\ DirOK(d) /\ \A i \in Live(d, [op EXCEPT ![c] = o]) : data[i] \in Contents
      /\ q.src # q.dst => h[q.src] = Holds(dir, data)[q.src]
    BY <1>1, <1>2, <1>5, RemoveStore
<1>7. NothingThere(c)
    BY <1>2, NotThere
<1> HIDE DEF h, d
<1>8. q.dst \in quiet[c] => Keeps(o, b, h)
    BY <1>3, <1>7 DEF Keeps, NothingThere, SameCall
<1>9. {q.src, q.dst} \subseteq quiet[c] => Promise(o, b, d, h)
    <2> SUFFICES ASSUME {q.src, q.dst} \subseteq quiet[c] PROVE Promise(o, b, d, h)
        OBVIOUS
    <2>1. q.src # q.dst => h[q.src] = b[q.src]
        BY <1>6, OwnWord DEF Under, Looking
    <2> QED
        BY <1>2, <1>3, <2>1
           DEF Promise, Writes, Under, Answered, Survives, TwoKeys, SameCall, Looking
<1>10. Word(c, d, data, o)
    BY <1>3, <1>8, <1>9 DEF Word, SameCall, h
<1>11. Allowed(c, d, data, o)
    BY <1>4, <1>6, <1>10 DEF Allowed
<1> QED
    BY <1>11, CommitKeeps DEF d, o

\* CopyFile opens its source: the descriptor is the object the source names.
LEMMA OpenKeeps ==
    ASSUME StoreInv, NEW c \in Callers, op[c].pc = "open", dir[op[c].src] # NoObject,
           Stay(c, [At(c, "create") EXCEPT !.from = dir[op[c].src]])
    PROVE  StoreInv'
<1> DEFINE q == op[c]
           b == before[c]
           o == [At(c, "create") EXCEPT !.from = dir[q.src]]
           h == Holds(dir, data)
<1>1. StoreOK /\ CallOK(q) /\ CallFields \subseteq DOMAIN q
    BY OwnWord
<1>2. q.kind = "copy" /\ q.src \in Keys /\ q.dst \in Keys
    BY <1>1 DEF CallOK, StepsOf
<1>3. /\ SameCall(o, q) /\ o.pc = "create" /\ o.value = q.value
      /\ o.fd = q.fd /\ o.from = dir[q.src] /\ o.off = q.off
    BY <1>1 DEF SameCall, CallFields, At
<1> HIDE DEF o
<1>4. dir[q.src] \in Live(dir, op) /\ dir[q.src] \in Named
    BY <1>1, <1>2, HeldType DEF StoreOK, DirOK
<1>5. CallOK(o)
    BY <1>1, <1>2, <1>3, <1>4 DEF CallOK, SameCall, StepsOf
<1>6. Descriptors(o)
    <2>1. Descriptors(q)
        BY <1>1, OwnDescriptors
    <2> QED
        BY <1>3, <1>4, <2>1 DEF Descriptors
<1>7. NothingThere(c)
    BY <1>2, NotThere
<1> HIDE DEF h
<1>8. q.dst \in quiet[c] => Keeps(o, b, h)
    BY <1>3, <1>7 DEF Keeps, NothingThere, SameCall
<1>9. {q.src, q.dst} \subseteq quiet[c] => Promise(o, b, dir, h)
    <2> SUFFICES ASSUME {q.src, q.dst} \subseteq quiet[c] PROVE Promise(o, b, dir, h)
        OBVIOUS
    <2>1. (q.src # q.dst => h[q.src] = b[q.src]) /\ Survives(q, b, h)
        BY <1>2, OwnWord DEF Under, TwoKeys, h
    <2> QED
        BY <1>2, <1>3, <2>1
           DEF Promise, Writes, Under, Answered, Survives, TwoKeys, SameCall, Looking
<1>10. Word(c, dir, data, o)
    BY <1>3, <1>8, <1>9 DEF Word, SameCall, h
<1> QED
    BY <1>5, <1>6, <1>10, SameStore, CommitKeeps DEF Stay, o

-----------------------------------------------------------------------------
(* The descriptors of the local client.                                      *)

LEMMA ContentsLen ==
    ASSUME NEW f \in Contents
    PROVE  /\ Len(f) \in Nat /\ DOMAIN f = 1..Len(f)
           /\ \A i \in 1..Len(f) : f[i] \in Bodies \cup Keys \cup {Missing}
    BY LenProperties, ElementOfSeq DEF Contents

LEMMA WriteAtType ==
    ASSUME NEW f \in Contents, NEW n \in Nat \ {0}, NEW e \in Bodies \cup Keys \cup {Missing}
    PROVE  /\ WriteAt(f, n, e) \in Contents
           /\ n > Len(f) => Len(WriteAt(f, n, e)) = n
           /\ n = Len(f) + 1 =>
                 \A i \in 1..n : WriteAt(f, n, e)[i] = IF i = n THEN e ELSE f[i]
<1> DEFINE B == Bodies \cup Keys \cup {Missing}
           m == IF n > Len(f) THEN n ELSE Len(f)
<1>1. Len(f) \in Nat /\ m \in Nat /\ \A i \in 1..Len(f) : f[i] \in B
    BY ContentsLen
<1> HIDE DEF m
<1>2. WriteAt(f, n, e) = [i \in 1..m |-> IF i = n THEN e ELSE IF i <= Len(f) THEN f[i] ELSE Missing]
    BY DEF WriteAt, m
<1>3. WriteAt(f, n, e) \in [1..m -> B]
    BY <1>1, <1>2
<1>4. WriteAt(f, n, e) \in Contents
    BY <1>1, <1>3, SeqDef DEF Contents
<1>5. Len(WriteAt(f, n, e)) = m
    <2>1. DOMAIN WriteAt(f, n, e) = 1..m /\ DOMAIN WriteAt(f, n, e) = 1..Len(WriteAt(f, n, e))
          /\ Len(WriteAt(f, n, e)) \in Nat
        BY <1>2, <1>4, ContentsLen
    <2> QED
        BY <1>1, <2>1
<1>6. n > Len(f) => m = n
    BY DEF m
<1>7. n = Len(f) + 1 => \A i \in 1..n : WriteAt(f, n, e)[i] = IF i = n THEN e ELSE f[i]
    BY <1>1, <1>2, <1>6
<1> QED
    BY <1>4, <1>5, <1>6, <1>7

\* A file whose first Len(s) blocks are those of s, and no more, is s.
LEMMA WholePrefix ==
    ASSUME NEW f \in Contents, NEW s \in Contents, NEW n \in Nat, n >= Len(s), Prefix(f, s, n)
    PROVE  f = s
<1>1. Len(f) = Len(s) /\ \A i \in 1..Len(f) : f[i] = s[i]
    BY ContentsLen DEF Prefix
<1> QED
    BY <1>1, SeqEqual DEF Contents

\* os.Create: the descriptor of a new file, or of the one there, emptied.
LEMMA CreateKeeps ==
    ASSUME StoreInv, NEW c \in Callers, op[c].pc = "create",
           NEW i, i = (IF dir[op[c].dst] = NoObject THEN Fresh ELSE dir[op[c].dst]),
           Commit(c, [dir EXCEPT ![op[c].dst] = i], WithObject(i, <<>>),
                  [At(c, "write") EXCEPT !.fd = i, !.off = 1])
    PROVE  StoreInv'
<1> DEFINE q == op[c]
           b == before[c]
           d == [dir EXCEPT ![q.dst] = i]
           x == WithObject(i, <<>>)
           o == [At(c, "write") EXCEPT !.fd = i, !.off = 1]
           h == Holds(d, x)
<1>1. StoreOK /\ CallOK(q) /\ CallFields \subseteq DOMAIN q
    BY OwnWord
<1>2. q.kind \in {"upload", "copy"} /\ q.src \in Keys /\ q.dst \in Keys
    BY <1>1 DEF CallOK, StepsOf
<1>3. /\ SameCall(o, q) /\ o.pc = "write" /\ o.value = q.value
      /\ o.fd = i /\ o.from = q.from /\ o.off = 1
    BY <1>1 DEF SameCall, CallFields, At
<1>4. Fresh \in Objects /\ Fresh \notin Live(dir, op)
    BY <1>1, FreshIsNew DEF StoreOK, CallsOK
<1>5. i \in Objects /\ i # NoObject /\ \A k \in Keys \ {q.dst} : dir[k] # i
    BY <1>1, <1>2, <1>4, NoObjectAssumption DEF StoreOK, DirOK, Named, Live
<1> HIDE DEF o
<1>6. CallOK(o)
    BY <1>1, <1>2, <1>3, <1>5 DEF CallOK, SameCall, StepsOf, Named
<1>7. /\ DirOK(d)
      /\ d[q.dst] = i /\ \A k \in Keys \ {q.dst} : d[k] = dir[k]
    BY <1>1, <1>2, <1>5 DEF StoreOK, DirOK, Named
<1> HIDE DEF d
<1>8. /\ DOMAIN x = Live(dir, op) \cup {i} /\ x[i] = <<>>
      /\ \A j \in Live(dir, op) \ {i} : x[j] = data[j]
    BY <1>1 DEF WithObject, StoreOK
<1> HIDE DEF x
<1>9. \A j \in Live(d, [op EXCEPT ![c] = o]) : x[j] \in Contents
    <2> DEFINE S == Live(dir, op) \cup {i}
    <2>1. \A k \in Keys : d[k] \in S \cup {NoObject}
        BY <1>7 DEF Live
    <2>2. {o.fd, o.from} \subseteq S \cup {NoObject} /\ Live(dir, op) \subseteq S
        BY <1>3 DEF Live
    <2> HIDE DEF S
    <2>3. Live(d, [op EXCEPT ![c] = o]) \subseteq S
        BY <1>1, <2>1, <2>2, LiveBound DEF StoreOK
    <2> QED
        BY <1>1, <1>8, <2>3, EmptyContents DEF StoreOK, S
<1>10. h[q.dst] = <<>> /\ (q.src # q.dst => h[q.src] = Holds(dir, data)[q.src])
    <2>1. q.src # q.dst => dir[q.src] # i /\ (dir[q.src] # NoObject => dir[q.src] \in Live(dir, op))
        BY <1>2, <1>5 DEF Live
    <2> QED
        BY <1>2, <1>5, <1>7, <1>8, <2>1 DEF Holds, Content
<1> HIDE DEF h
<1>11. q.dst \in quiet[c] => Keeps(o, b, h)
    <2>1. q.kind = "copy" => NothingThere(c)
        BY NotThere
    <2> QED
        BY <1>2, <1>3, <2>1 DEF Keeps, NothingThere, SameCall
<1>12. {q.src, q.dst} \subseteq quiet[c] => Promise(o, b, d, h)
    <2> SUFFICES ASSUME {q.src, q.dst} \subseteq quiet[c] PROVE Promise(o, b, d, h)
        OBVIOUS
    <2>1. q.kind = "copy" /\ q.src # q.dst =>
              /\ Holds(dir, data)[q.src] = b[q.src] /\ q.from = dir[q.src] /\ q.from # NoObject
        BY <1>1, OwnWord DEF Under, Writes, TwoKeys, CallOK
    <2>2. q.kind = "copy" /\ q.src # q.dst => b[q.src] \in Contents
        BY <1>1, <1>2, <2>1, HeldType
    <2>3. Len(<<>>) = 0 /\ 1 - 1 = 0
        OBVIOUS
    <2>4. \A s \in Contents : Prefix(<<>>, s, 0)
        BY <2>3, ContentsLen DEF Prefix
    <2>5. Writes(o, b, d, h)
        <3>1. q.kind = "upload" => Prefix(h[q.dst], o.value, o.off - 1)
            BY <1>1, <1>3, <1>10, <2>3, <2>4 DEF CallOK
        <3>2. q.kind = "copy" /\ q.src # q.dst => Prefix(h[q.dst], b[q.src], o.off - 1)
            BY <1>3, <1>10, <2>2, <2>3, <2>4
        <3> QED
            BY <1>2, <1>3, <1>7, <2>1, <3>1, <3>2 DEF Writes, TwoKeys, SameCall
    <2>6. Under(o, b, h) /\ Answered(o, b, h) /\ Survives(o, b, h)
        BY <1>2, <1>3, <1>10, <2>1 DEF Under, Answered, Survives, TwoKeys, SameCall, Looking
    <2> QED
        BY <2>5, <2>6 DEF Promise
<1>13. Word(c, d, x, o)
    BY <1>3, <1>11, <1>12 DEF Word, SameCall, h
<1>14. Allowed(c, d, x, o)
    BY <1>6, <1>7, <1>9, <1>13 DEF Allowed
<1> QED
    BY <1>14, CommitKeeps DEF d, x, o

\* Where a write is: the descriptor is in use, and for a call left alone it is
\* the destination's, the source being the one the file is compared with.
LEMMA WriteAtPlace ==
    ASSUME StoreInv, NEW c \in Callers, op[c].pc = "write"
    PROVE  /\ op[c].kind \in {"upload", "copy"} /\ op[c].src \in Keys /\ op[c].dst \in Keys
           /\ op[c].fd \in Live(dir, op) /\ op[c].fd # NoObject
           /\ op[c].off \in Nat \ {0}
           /\ Source(c) \in Contents /\ data[op[c].fd] \in Contents
           /\ {op[c].src, op[c].dst} \subseteq quiet[c]
                 /\ (op[c].kind = "upload" \/ op[c].src # op[c].dst)
              => /\ op[c].fd = dir[op[c].dst]
                 /\ Holds(dir, data)[op[c].dst] = data[op[c].fd]
                 /\ Prefix(data[op[c].fd], Source(c), op[c].off - 1)
                 /\ op[c].kind = "copy" => /\ Source(c) = before[c][op[c].src]
                                           /\ Holds(dir, data)[op[c].src] = before[c][op[c].src]
<1> DEFINE q == op[c]
           b == before[c]
           h == Holds(dir, data)
<1>1. StoreOK /\ CallOK(q)
    BY OwnWord
<1>2. /\ q.kind \in {"upload", "copy"} /\ q.src \in Keys /\ q.dst \in Keys
      /\ q.fd \in Named /\ q.fd # NoObject /\ q.off \in Nat \ {0} /\ q.value \in Contents
      /\ q.kind = "copy" => q.from # NoObject
    BY <1>1 DEF CallOK, StepsOf
<1>3. q.fd \in Live(dir, op) /\ (q.kind = "copy" => q.from \in Live(dir, op))
    BY <1>2 DEF Live
<1>4. Source(c) \in Contents /\ data[q.fd] \in Contents
    BY <1>1, <1>2, <1>3 DEF Source, StoreOK
<1>5. ASSUME {q.src, q.dst} \subseteq quiet[c], q.kind = "upload" \/ q.src # q.dst
      PROVE  /\ q.fd = dir[q.dst]
             /\ h[q.dst] = data[q.fd]
             /\ Prefix(data[q.fd], Source(c), q.off - 1)
             /\ q.kind = "copy" => Source(c) = b[q.src] /\ h[q.src] = b[q.src]
    <2>1. Writes(q, b, dir, h) /\ Under(q, b, h)
        BY <1>5, OwnWord
    <2>2. q.fd = dir[q.dst]
        BY <1>2, <1>5, <2>1 DEF Writes, TwoKeys
    <2>3. h[q.dst] = data[q.fd]
        BY <1>1, <1>2, <2>2, HeldType
    <2>4. q.kind = "copy" => q.from = dir[q.src] /\ h[q.src] = b[q.src]
        BY <1>2, <1>5, <2>1 DEF Writes, Under, TwoKeys
    <2>5. q.kind = "copy" => Source(c) = b[q.src]
        BY <1>1, <1>2, <2>4, HeldType DEF Source
    <2>6. Prefix(h[q.dst], Source(c), q.off - 1)
        BY <1>2, <1>5, <2>1, <2>5 DEF Writes, TwoKeys, Source
    <2> QED
        BY <2>2, <2>3, <2>4, <2>5, <2>6
<1> QED
    BY <1>2, <1>3, <1>4, <1>5

\* A block is written at the descriptor's offset.
LEMMA BlockKeeps ==
    ASSUME StoreInv, NEW c \in Callers, op[c].pc = "write",
           NEW n, n = op[c].off, NEW f, f = op[c].fd, n <= Len(Source(c)),
           Commit(c, dir, [data EXCEPT ![f] = WriteAt(data[f], n, Source(c)[n])],
                  [op[c] EXCEPT !.off = n + 1])
    PROVE  StoreInv'
<1> DEFINE q == op[c]
           b == before[c]
           w == WriteAt(data[f], n, Source(c)[n])
           x == [data EXCEPT ![f] = w]
           o == [op[c] EXCEPT !.off = n + 1]
           h == Holds(dir, x)
           g == Holds(dir, data)
<1>1. StoreOK /\ CallOK(q) /\ CallFields \subseteq DOMAIN q
    BY OwnWord
<1>2. /\ q.kind \in {"upload", "copy"} /\ q.src \in Keys /\ q.dst \in Keys
      /\ f \in Live(dir, op) /\ f # NoObject /\ n \in Nat \ {0}
      /\ Source(c) \in Contents /\ data[f] \in Contents
    BY WriteAtPlace
<1>3. /\ SameCall(o, q) /\ o.pc = "write" /\ o.value = q.value
      /\ o.fd = f /\ o.from = q.from /\ o.off = n + 1
    BY <1>1 DEF SameCall, CallFields
<1>4. n \in 1..Len(Source(c)) /\ Source(c)[n] \in Bodies \cup Keys \cup {Missing}
    BY <1>2, ContentsLen
<1>5. w \in Contents
    BY <1>2, <1>4, WriteAtType
<1> HIDE DEF o
<1>6. CallOK(o)
    BY <1>1, <1>2, <1>3 DEF CallOK, SameCall
<1>7. Descriptors(o)
    BY <1>1, <1>3, OwnDescriptors
<1>8. x[f] = w /\ \A j \in Live(dir, op) \ {f} : x[j] = data[j]
    BY <1>1, <1>2 DEF StoreOK
<1> HIDE DEF x, w
<1>9. \A j \in Live(dir, [op EXCEPT ![c] = o]) : x[j] \in Contents
    <2>1. \A k \in Keys : dir[k] \in Live(dir, op) \cup {NoObject}
        BY DEF Live
    <2>2. Live(dir, [op EXCEPT ![c] = o]) \subseteq Live(dir, op)
        BY <1>1, <1>7, <2>1, LiveBound DEF StoreOK, Descriptors
    <2> QED
        BY <1>1, <1>5, <1>8, <2>2 DEF StoreOK
<1>10. \A k \in Keys : h[k] = IF dir[k] = f THEN w ELSE g[k]
    <2>1. \A k \in Keys : dir[k] # NoObject => dir[k] \in Live(dir, op)
        BY DEF Live
    <2> QED
        BY <1>2, <1>8, <2>1 DEF Holds, Content
<1> HIDE DEF h, g
<1>11. q.dst \in quiet[c] => Keeps(o, b, h)
    <2>1. q.kind = "copy" => NothingThere(c)
        BY NotThere
    <2> QED
        BY <1>2, <1>3, <2>1 DEF Keeps, NothingThere, SameCall
<1>12. {q.src, q.dst} \subseteq quiet[c] => Promise(o, b, dir, h)
    <2>1. CASE ~({q.src, q.dst} \subseteq quiet[c] /\ (q.kind = "upload" \/ q.src # q.dst))
        BY <1>2, <1>3, <2>1
           DEF Promise, Writes, Under, Answered, Survives, TwoKeys, SameCall, Looking
    <2>2. CASE {q.src, q.dst} \subseteq quiet[c] /\ (q.kind = "upload" \/ q.src # q.dst)
        <3>1. /\ f = dir[q.dst] /\ Prefix(data[f], Source(c), n - 1)
              /\ q.kind = "copy" => Source(c) = b[q.src] /\ g[q.src] = b[q.src]
            BY <2>2, WriteAtPlace DEF g
        <3>2. n = Len(data[f]) + 1
            BY <1>2, <3>1, ContentsLen DEF Prefix
        <3>3. Prefix(w, Source(c), n)
            <4>0. n > Len(data[f])
                BY <1>2, <3>2, ContentsLen
            <4>1. Len(w) = n /\ \A i \in 1..n : w[i] = IF i = n THEN Source(c)[n] ELSE data[f][i]
                <5> DEFINE p == data[f]
                           e == Source(c)[n]
                <5>1. p \in Contents /\ e \in Bodies \cup Keys \cup {Missing} /\ n > Len(p) /\ n = Len(p) + 1
                    BY <1>2, <1>4, <3>2, <4>0
                <5>2. w = WriteAt(p, n, e)
                    BY DEF w
                <5> HIDE DEF p, e
                <5>3. Len(w) = n /\ \A i \in 1..n : w[i] = IF i = n THEN e ELSE p[i]
                    BY <1>2, <5>1, <5>2, WriteAtType
                <5> QED
                    BY <5>3 DEF p, e
            <4>2. \A i \in 1..n : i = n \/ i \in 1..(n - 1)
                BY <1>2
            <4> QED
                BY <1>4, <3>1, <4>1, <4>2 DEF Prefix
        <3>4. h[q.dst] = w
            BY <1>2, <1>10, <3>1
        <3>5. q.kind = "copy" => h[q.src] = b[q.src] /\ q.from = dir[q.src]
            <4>1. q.kind = "copy" => q.src # q.dst
                BY <2>2
            <4>2. q.src # q.dst => dir[q.src] # f
                BY <1>1, <1>2, <3>1 DEF StoreOK, DirOK
            <4>3. q.kind = "copy" => q.from = dir[q.src]
                BY <2>2, OwnWord DEF Writes, TwoKeys
            <4> QED
                BY <1>2, <1>10, <3>1, <4>1, <4>2, <4>3
        <3>6. o.off - 1 = n
            BY <1>2, <1>3
        <3>7. Writes(o, b, dir, h)
            BY <1>2, <1>3, <3>1, <3>3, <3>4, <3>5, <3>6 DEF Writes, TwoKeys, SameCall, Source
        <3>8. Under(o, b, h) /\ Answered(o, b, h) /\ Survives(o, b, h)
            BY <1>2, <1>3, <3>5 DEF Under, Answered, Survives, TwoKeys, SameCall, Looking
        <3> QED
            BY <3>7, <3>8 DEF Promise
    <2> QED
        BY <2>1, <2>2
<1>13. Word(c, dir, x, o)
    BY <1>3, <1>11, <1>12 DEF Word, SameCall, h
<1>14. Allowed(c, dir, x, o)
    BY <1>1, <1>6, <1>9, <1>13 DEF Allowed, StoreOK
<1> QED
    BY <1>14, CommitKeeps DEF x, w, o

\* Past the last block the file is the whole of its source.
LEMMA WrittenKeeps ==
    ASSUME StoreInv, NEW c \in Callers, op[c].pc = "write", op[c].off > Len(Source(c)),
           Return(c, "ok")
    PROVE  StoreInv'
<1> DEFINE q == op[c]
           b == before[c]
           o == Done(c, "ok")
           h == Holds(dir, data)
<1>1. StoreOK /\ CallOK(q) /\ CallFields \subseteq DOMAIN q
    BY OwnWord
<1>2. /\ q.kind \in {"upload", "copy"} /\ q.src \in Keys /\ q.dst \in Keys
      /\ q.off \in Nat \ {0} /\ Source(c) \in Contents /\ data[q.fd] \in Contents
    BY WriteAtPlace
<1>3. /\ SameCall(o, q) /\ o.pc = "done" /\ o.fd = NoObject /\ o.from = NoObject
      /\ o.value = (IF q.kind = "upload" THEN q.value ELSE <<>>)
      /\ CallOK(o) /\ Descriptors(o)
    BY <1>1, DoneFields, DoneOK DEF Descriptors
<1> HIDE DEF o
<1>4. q.dst \in quiet[c] => Keeps(o, b, h)
    <2>1. q.kind = "copy" => NothingThere(c)
        BY NotThere
    <2> QED
        BY <1>2, <1>3, <2>1 DEF Keeps, NothingThere, SameCall
<1>5. {q.src, q.dst} \subseteq quiet[c] => Answered(o, b, h) /\ Survives(o, b, h)
    <2>1. CASE q.kind = "copy" /\ q.src = q.dst
        BY <1>3, <2>1 DEF Answered, Survives, TwoKeys, SameCall
    <2>2. ASSUME {q.src, q.dst} \subseteq quiet[c], q.kind = "upload" \/ q.src # q.dst
          PROVE  Answered(o, b, h) /\ Survives(o, b, h)
        <3>1. /\ h[q.dst] = data[q.fd] /\ Prefix(data[q.fd], Source(c), q.off - 1)
              /\ q.kind = "copy" => Source(c) = b[q.src] /\ h[q.src] = b[q.src]
            BY <2>2, WriteAtPlace
        <3>2. q.off - 1 \in Nat /\ q.off - 1 >= Len(Source(c))
            BY <1>2, ContentsLen
        <3>3. h[q.dst] = Source(c)
            BY <1>2, <3>1, <3>2, WholePrefix
        <3> HIDE DEF h
        <3> QED
            BY <1>2, <1>3, <2>2, <3>1, <3>3 DEF Answered, Survives, TwoKeys, SameCall, Source
    <2> QED
        BY <1>2, <2>1, <2>2
<1>6. Word(c, dir, data, o)
    BY <1>4, <1>5, OkWord DEF h, o
<1>7. Allowed(c, dir, data, o)
    BY <1>3, <1>6, SameStore
<1> QED
    BY <1>7, CommitKeeps DEF Return, Stay, o

-----------------------------------------------------------------------------
(* The steps of each client keep the invariant.                              *)

LEMMA Kinds ==
    ASSUME StoreInv, NEW c \in Callers, op[c].pc # "done"
    PROVE  /\ op[c].pc \in StepsOf(op[c].kind) /\ op[c].src \in Keys /\ op[c].dst \in Keys
           /\ op[c].pc = "copy" => op[c].kind = "copy"
           /\ op[c].pc = "open" => op[c].kind = "copy"
           /\ op[c].pc \in {"move", "statSource", "rename"} => op[c].kind = "move"
           /\ op[c].pc \in {"statDest", "remove", "get", "set", "copyObject"} =>
                  op[c].kind \in {"move", "copy"}
           /\ op[c].pc = "upload" => op[c].kind = "upload"
<1>1. CallOK(op[c])
    BY OwnWord
<1> QED
    BY <1>1 DEF CallOK, StepsOf

LEMMA LocalKeeps ==
    ASSUME StoreInv, NEW c \in Callers, LocalStep(c)
    PROVE  StoreInv'
<1> USE DEF Is
<1>1. CASE LocalCreate(c)
    BY <1>1, FailKeeps, CreateKeeps DEF LocalCreate
<1>2. CASE LocalWrite(c)
    BY <1>2, FailKeeps, BlockKeeps, WrittenKeeps DEF LocalWrite
<1>3. CASE LocalLook(c)
    BY <1>3, FailKeeps, LookKeeps DEF LocalLook
<1>4. CASE LocalDelete(c)
    BY <1>4, FailKeeps, DeleteAllowed, CommitKeeps DEF LocalDelete
<1>5. CASE LocalStatDest(c)
    <2>1. op[c].pc = "statDest" /\ op[c].kind \in {"move", "copy"}
        BY <1>5, Kinds DEF LocalStatDest
    <2>2. ASSUME dir[op[c].dst] = NoObject, Stay(c, AfterRemove(c)) PROVE StoreInv'
        <3>1. NothingThere(c)
            BY <2>1, <2>2, NotThere
        <3> QED
            BY <2>1, <2>2, <3>1, OnwardKeeps DEF AfterRemove, StepsOf
    <2>3. ASSUME op[c].over, Stay(c, At(c, "remove")) PROVE StoreInv'
        <3>1. NothingThere(c)
            BY <2>3 DEF NothingThere
        <3> QED
            BY <2>1, <2>3, <3>1, OnwardKeeps DEF StepsOf
    <2> QED
        BY <1>5, <2>2, <2>3, FailKeeps DEF LocalStatDest
<1>6. CASE LocalRemove(c)
    BY <1>6, FailKeeps, RemoveKeeps DEF LocalRemove
<1>7. CASE LocalMoveStat(c)
    <2>1. op[c].pc = "statSource" /\ op[c].kind = "move"
        BY <1>7, Kinds DEF LocalMoveStat
    <2> QED
        BY <1>7, <2>1, FailKeeps, OnwardKeeps DEF LocalMoveStat, StepsOf
<1>8. CASE LocalRename(c)
    <2>1. op[c].pc = "rename" /\ op[c].kind = "move"
        BY <1>8, Kinds DEF LocalRename
    <2>2. NothingThere(c)
        BY <2>1, NotThere
    <2> QED
        BY <1>8, <2>1, <2>2, FailKeeps, RenameAllowed, CommitKeeps DEF LocalRename, Renamed
<1>9. CASE LocalCopyOpen(c)
    BY <1>9, FailKeeps, OpenKeeps DEF LocalCopyOpen
<1> QED
    BY <1>1, <1>2, <1>3, <1>4, <1>5, <1>6, <1>7, <1>8, <1>9 DEF LocalStep

\* What the cache, S3 and Qiniu have in common.
LEMMA UploadKeeps ==
    ASSUME StoreInv, NEW c \in Callers, op[c].pc = "upload",
           Remote(c, PutDir(op[c].dst), PutData(op[c].value), Done(c, "ok"))
    PROVE  StoreInv'
    BY UploadAllowed, RemoteKeeps

LEMMA DeleteKeeps ==
    ASSUME StoreInv, NEW c \in Callers, op[c].pc \in {"delete", "del"},
           Remote(c, NoKeyDir(op[c].src), data, Done(c, "ok"))
    PROVE  StoreInv'
    BY DeleteAllowed, MoveDelAllowed, RemoteKeeps

\* The first look of CopyFile and MoveFile, at a destination it must not touch.
LEMMA CheckKeeps ==
    ASSUME StoreInv, NEW c \in Callers, op[c].pc \in {"copy", "move"},
           op[c].over \/ dir[op[c].dst] = NoObject,
           NEW p \in {"get", "copyObject"}, Stay(c, At(c, p))
    PROVE  StoreInv'
<1>1. op[c].kind \in {"move", "copy"}
    BY Kinds
<1>2. NothingThere(c)
    BY <1>1, NotThere
<1> QED
    BY <1>1, <1>2, OnwardKeeps DEF StepsOf

\* The copy itself, of what was read or of what the server finds.
LEMMA PutKeeps ==
    ASSUME StoreInv, NEW c \in Callers,
           \/ op[c].pc = "copyObject"
           \/ op[c].pc = "copy" /\ (op[c].over \/ dir[op[c].dst] = NoObject),
           dir[op[c].src] # NoObject,
           Remote(c, PutDir(op[c].dst), PutData(Held(op[c].src)), AfterCopy(c))
    PROVE  StoreInv'
<1>1. op[c].kind \in {"move", "copy"} /\ op[c].src \in Keys
    BY Kinds
<1>2. NothingThere(c)
    BY <1>1, NotThere
<1>3. Held(op[c].src) \in Contents /\ Holds(dir, data)[op[c].src] = Held(op[c].src)
    BY <1>1, HeldType DEF StoreInv
<1>4. {op[c].src, op[c].dst} \subseteq quiet[c] => Held(op[c].src) = before[c][op[c].src]
    BY <1>3, OwnWord DEF Under, Looking
<1> QED
    BY <1>2, <1>3, <1>4, CopyAllowed, RemoteKeeps

LEMMA CacheKeeps ==
    ASSUME StoreInv, NEW c \in Callers, CacheStep(c)
    PROVE  StoreInv'
<1> USE DEF Is
<1>1. CASE CacheUpload(c)
    BY <1>1, UploadKeeps DEF CacheUpload
<1>2. CASE CacheLook(c)
    BY <1>2, FailKeeps, LookKeeps DEF CacheLook
<1>3. CASE CacheDelete(c)
    BY <1>3, DeleteKeeps DEF CacheDelete
<1>4. CASE CacheCopyCheck(c)
    BY <1>4, FailKeeps, CheckKeeps DEF CacheCopyCheck
<1>5. CASE CacheCopyGet(c)
    BY <1>5, FailKeeps, SourceKeeps DEF CacheCopyGet
<1>6. CASE CacheCopySet(c)
    <2>1. op[c].pc = "set" /\ op[c].kind \in {"move", "copy"}
        BY <1>6, Kinds DEF CacheCopySet
    <2>2. NothingThere(c)
        BY <2>1, NotThere
    <2>3. op[c].value \in Contents
        BY OwnWord DEF CallOK
    <2>4. {op[c].src, op[c].dst} \subseteq quiet[c] /\ TwoKeys(op[c]) =>
             op[c].value = before[c][op[c].src]
        BY <2>1, OwnWord DEF Under
    <2> QED
        BY <1>6, <2>1, <2>2, <2>3, <2>4, CopyAllowed, RemoteKeeps DEF CacheCopySet
<1>7. CASE CacheMoveDel(c)
    BY <1>7, DeleteKeeps DEF CacheMoveDel
<1> QED
    BY <1>1, <1>2, <1>3, <1>4, <1>5, <1>6, <1>7 DEF CacheStep

LEMMA S3Keeps ==
    ASSUME StoreInv, NEW c \in Callers, S3Step(c)
    PROVE  StoreInv'
<1> USE DEF Is
<1>1. CASE S3Upload(c)
    BY <1>1, UploadKeeps DEF S3Upload
<1>2. CASE S3Look(c)
    BY <1>2, FailKeeps, LookKeeps DEF S3Look
<1>3. CASE S3Delete(c)
    BY <1>3, DeleteKeeps DEF S3Delete
<1>4. CASE S3CopyStat(c)
    BY <1>4, FailKeeps, CheckKeeps DEF S3CopyStat
<1>5. CASE S3CopyObject(c)
    BY <1>5, FailKeeps, PutKeeps DEF S3CopyObject
<1>6. CASE S3MoveRemove(c)
    BY <1>6, DeleteKeeps DEF S3MoveRemove
<1> QED
    BY <1>1, <1>2, <1>3, <1>4, <1>5, <1>6 DEF S3Step

\* An upload of what the key holds already.
LEMMA SameUploadKeeps ==
    ASSUME StoreInv, NEW c \in Callers, op[c].pc = "upload", Held(op[c].dst) = op[c].value,
           Return(c, "ok")
    PROVE  StoreInv'
<1> DEFINE q == op[c]
           o == Done(c, "ok")
           h == Holds(dir, data)
<1>1. StoreOK /\ CallOK(q) /\ CallFields \subseteq DOMAIN q
    BY OwnWord
<1>2. q.kind = "upload" /\ q.dst \in Keys
    BY Kinds
<1>3. /\ SameCall(o, q) /\ o.pc = "done" /\ o.fd = NoObject /\ o.from = NoObject
      /\ o.value = q.value /\ CallOK(o) /\ Descriptors(o)
    BY <1>1, <1>2, DoneFields, DoneOK DEF Descriptors
<1> HIDE DEF o
<1>4. h[q.dst] = q.value
    BY <1>1, <1>2, HeldType
<1> HIDE DEF h
<1>5. Keeps(o, before[c], h) /\ Answered(o, before[c], h) /\ Survives(o, before[c], h)
    BY <1>2, <1>3, <1>4 DEF Keeps, Answered, Survives, TwoKeys, SameCall
<1>6. Word(c, dir, data, o)
    BY <1>5, OkWord DEF h, o
<1>7. Allowed(c, dir, data, o)
    BY <1>3, <1>6, SameStore
<1> QED
    BY <1>7, CommitKeeps DEF Return, Stay, o

LEMMA QiniuKeeps ==
    ASSUME StoreInv, NEW c \in Callers, QiniuStep(c)
    PROVE  StoreInv'
<1> USE DEF Is
<1>1. CASE QiniuUpload(c)
    BY <1>1, FailKeeps, UploadKeeps, SameUploadKeeps DEF QiniuUpload
<1>2. CASE QiniuLook(c)
    BY <1>2, FailKeeps, LookKeeps DEF QiniuLook
<1>3. CASE QiniuDelete(c)
    BY <1>3, FailKeeps, DeleteKeeps DEF QiniuDelete
<1>4. CASE QiniuMove(c)
    <2>1. op[c].pc = "move" /\ op[c].kind = "move"
        BY <1>4, Kinds DEF QiniuMove
    <2>2. CASE QiniuRefuses(c)
        BY <2>2, FailKeeps DEF QiniuRefuses
    <2>3. CASE QiniuTakes(c) /\ Remote(c, Renamed(op[c].src, op[c].dst), data, Done(c, "ok"))
        <3>1. NothingThere(c)
            BY <2>1, <2>3, NotThere DEF QiniuTakes
        <3> QED
            BY <2>1, <2>3, <3>1, RenameAllowed, RemoteKeeps
    <2> QED
        BY <1>4, <2>2, <2>3 DEF QiniuMove, Renamed
<1>5. CASE QiniuCopy(c)
    <2>1. op[c].pc = "copy" /\ op[c].kind = "copy"
        BY <1>5, Kinds DEF QiniuCopy
    <2>2. AfterCopy(c) = Done(c, "ok")
        BY <2>1 DEF AfterCopy
    <2> QED
        BY <1>5, <2>1, <2>2, FailKeeps, PutKeeps DEF QiniuCopy, QiniuRefuses, QiniuTakes
<1> QED
    BY <1>1, <1>2, <1>3, <1>4, <1>5 DEF QiniuStep

LEMMA StoreStepKeeps ==
    ASSUME StoreInv, NEW c \in Callers, StoreStep(c)
    PROVE  StoreInv'
    BY LocalKeeps, CacheKeeps, S3Keeps, QiniuKeeps DEF StoreStep

-----------------------------------------------------------------------------
(* Calls that begin, and the cache that drops an entry.                      *)

LEMMA BeginKeeps ==
    ASSUME StoreInv, NEW c \in Callers, NEW kind \in {"upload", "delete", "look", "copy", "move"},
           NEW s \in Keys, NEW k \in Keys, NEW over, NEW v \in Contents,
           kind \in {"upload", "delete", "look"} => s = k,
           Begin(c, kind, s, k, over, v)
    PROVE  StoreInv'
<1> DEFINE o == [Idle EXCEPT !.kind = kind, !.src = s, !.dst = k, !.over = over,
                             !.value = v, !.pc = FirstStep(kind)]
           b == [q \in Keys |-> IF q \in {s, k} THEN Held(q) ELSE Missing]
           h == Holds(dir, data)
<1>0. StoreOK /\ CallsOK /\ CallOK(op[c]) /\ op[c].pc = "done"
    BY OwnWord DEF Begin
<1>1. /\ CallFields \subseteq DOMAIN o
      /\ o.kind = kind /\ o.src = s /\ o.dst = k /\ o.over = over /\ o.value = v
      /\ o.pc = FirstStep(kind) /\ o.fd = NoObject /\ o.from = NoObject /\ o.off = 0
    BY DEF CallFields, Idle
<1>2. /\ op' = [op EXCEPT ![c] = o] /\ before' = [before EXCEPT ![c] = b]
      /\ quiet' = [quiet EXCEPT ![c] = {s, k}] /\ UNCHANGED <<dir, data>>
    BY DEF Begin
<1> HIDE DEF o
<1>3. /\ FirstStep(kind) \in StepsOf(kind) \ {"done", "write"}
      /\ FirstStep(kind) \in {"create", "statDest", "statSource", kind}
      /\ FirstStep(kind) = "create" => kind = "upload"
    BY DEF FirstStep, StepsOf
<1>4. CallOK(o)
    BY <1>1, <1>3 DEF CallOK, Named
<1>5. /\ op' = [d \in Callers |-> op'[d]] /\ op'[c] = o /\ \A d \in Callers \ {c} : op'[d] = op[d]
      /\ before' = [d \in Callers |-> before'[d]] /\ before'[c] = b
      /\ \A d \in Callers \ {c} : before'[d] = before[d]
      /\ quiet' \in [Callers -> SUBSET Keys] /\ quiet'[c] = {s, k}
      /\ \A d \in Callers \ {c} : quiet'[d] = quiet[d]
    BY <1>0, <1>2 DEF CallsOK
<1>6. CallsOK'
    BY <1>0, <1>4, <1>5 DEF CallsOK
<1>7. StoreOK'
    <2>1. op[c].fd = NoObject /\ op[c].from = NoObject
        BY <1>0 DEF CallOK
    <2>2. Live(dir, op)' = Live(dir, op)
        BY <1>1, <1>2, <1>5, <2>1 DEF Live
    <2> QED
        BY <1>0, <1>2, <1>6, <2>2 DEF StoreOK
<1>8. h[s] = Held(s) /\ h[k] = Held(k) /\ b[s] = Held(s) /\ b[k] = Held(k)
    BY DEF Holds, Held
<1> HIDE DEF h, b
<1>9. Keeps(o, b, h)
    BY <1>1, <1>3, <1>8 DEF Keeps
<1>10. Promise(o, b, dir, h)
    BY <1>1, <1>3, <1>8 DEF Promise, Writes, Under, Answered, Survives, TwoKeys, Looking
<1>11. Word(c, dir, data, op[c])'
    BY <1>2, <1>5, <1>9, <1>10 DEF Word, h
<1>12. ASSUME NEW d \in Callers, d # c PROVE Word(d, dir, data, op[d])'
    BY <1>2, <1>5, <1>12 DEF StoreInv, Word
<1> QED
    BY <1>7, <1>11, <1>12 DEF StoreInv

LEMMA FullContents ==
    ASSUME NEW e \in Bodies \cup Keys
    PROVE  Full(e) \in Contents
<1>1. Full(e) \in [1..Blocks -> Bodies \cup Keys \cup {Missing}] /\ Blocks \in Nat
    BY DEF Full, Blocks
<1> QED
    BY <1>1, SeqDef DEF Contents

LEMMA CallBegins ==
    ASSUME StoreInv, NEW c \in Callers, Call(c) \/ \E k \in Keys : Download(c, k)
    PROVE  StoreInv'
<1>1. ASSUME NEW k \in Keys, NEW e \in Bodies, Upload(c, k, e) PROVE StoreInv'
    <2>1. Full(e) \in Contents
        BY FullContents
    <2> QED
        BY <1>1, <2>1, BeginKeeps DEF Upload
<1>2. ASSUME NEW k \in Keys, Delete(c, k) \/ Look(c, k) PROVE StoreInv'
    BY <1>2, EmptyContents, BeginKeeps DEF Delete, Look
<1>3. ASSUME NEW k \in Keys, NEW s \in Keys, NEW over \in BOOLEAN,
             Move(c, s, k, over) \/ Copy(c, s, k, over)
      PROVE  StoreInv'
    BY <1>3, EmptyContents, BeginKeeps DEF Move, Copy
<1> QED
    BY <1>1, <1>2, <1>3 DEF Call, Download

LEMMA ExpireStore ==
    ASSUME StoreInv, NEW k \in Keys, CacheExpire(k)
    PROVE  StoreInv'
<1>0. StoreOK /\ CallsOK
    BY DEF StoreInv, StoreOK
<1>1. /\ dir' = NoKeyDir(k) /\ UNCHANGED <<op, before>>
      /\ data' = [i \in Live(dir', op) |-> data[i]]
      /\ quiet' = [h \in Callers |-> quiet[h] \ {k}]
    BY DEF CacheExpire
<1>2. /\ DirOK(dir') /\ \A j \in Keys : dir'[j] = IF j = k THEN NoObject ELSE dir[j]
    BY <1>0, <1>1 DEF NoKeyDir, StoreOK, DirOK, Named
<1>3. Live(dir', op) \subseteq Live(dir, op)
    BY <1>2 DEF Live
<1>4. CallsOK'
    BY <1>0, <1>1 DEF CallsOK
<1>5. StoreOK'
    BY <1>0, <1>1, <1>2, <1>3, <1>4 DEF StoreOK
<1>6. \A j \in Keys \ {k} : dir'[j] = dir[j] /\ Holds(dir', data')[j] = Holds(dir, data)[j]
    BY <1>1, <1>2 DEF Holds, Content, Live
<1>7. ASSUME NEW c \in Callers PROVE Word(c, dir, data, op[c])'
    <2> DEFINE q == op[c]
    <2>1. Word(c, dir, data, q) /\ quiet'[c] = quiet[c] \ {k} /\ quiet[c] \subseteq Keys
        BY <1>0, <1>1 DEF StoreInv, CallsOK
    <2>2. q.dst \in quiet'[c] => Keeps(q, before[c], Holds(dir', data'))
        BY <1>6, <2>1 DEF Word, Keeps
    <2>3. {q.src, q.dst} \subseteq quiet'[c] => Promise(q, before[c], dir', Holds(dir', data'))
        BY <1>6, <2>1, PromiseSame DEF Word
    <2> QED
        BY <1>1, <2>2, <2>3 DEF Word
<1> QED
    BY <1>5, <1>7 DEF StoreInv

\* There are enough objects to tell the files of earlier runs apart.
LEMMA NamesExist ==
    ASSUME NEW kept \in SUBSET Keys
    PROVE  \E f \in [kept -> Objects] : \A j, k \in kept : f[j] = f[k] => j = k
<1> DEFINE n == Cardinality(kept)
           m == Cardinality(Objects)
<1>1. IsFiniteSet(kept) /\ n \in Nat /\ n <= Cardinality(Keys)
    BY FS_Subset, FS_CardinalityType, ObjectsAssumption
<1>2. m \in Nat /\ n <= m
    BY <1>1, FS_CardinalityType, ObjectsAssumption
<1>3. ExistsBijection(kept, 1..n) /\ ExistsBijection(1..m, Objects)
    BY <1>1, FS_CardinalityType, Fun_ExistsBijSymmetric, ObjectsAssumption
<1>4. PICK g \in Bijection(kept, 1..n), e \in Bijection(1..m, Objects) : TRUE
    BY <1>3 DEF ExistsBijection
<1>5. g \in [kept -> 1..n] /\ (\A j, k \in kept : g[j] = g[k] => j = k)
    BY <1>4 DEF Bijection, Injection, IsInjective
<1>6. e \in [1..m -> Objects] /\ (\A i, j \in 1..m : e[i] = e[j] => i = j)
    BY <1>4 DEF Bijection, Injection, IsInjective
<1>7. \A k \in kept : g[k] \in 1..m
    BY <1>1, <1>2, <1>5
<1> DEFINE f == [k \in kept |-> e[g[k]]]
<1> HIDE DEF n, m
<1>8. f \in [kept -> Objects] /\ \A j, k \in kept : f[j] = f[k] => j = k
    BY <1>5, <1>6, <1>7
<1> QED
    BY <1>8

LEMMA InitStore == StoreInit => StoreInv
<1> SUFFICES ASSUME StoreInit PROVE StoreInv
    OBVIOUS
<1>1. PICK kept \in SUBSET Keys :
         LET name == CHOOSE f \in [kept -> Objects] : \A j, k \in kept : f[j] = f[k] => j = k
         IN  /\ dir = [k \in Keys |-> IF k \in kept THEN name[k] ELSE NoObject]
             /\ data = [i \in {name[k] : k \in kept} |-> Full(CHOOSE k \in kept : name[k] = i)]
    BY DEF StoreInit
<1> DEFINE name == CHOOSE f \in [kept -> Objects] : \A j, k \in kept : f[j] = f[k] => j = k
<1>2. name \in [kept -> Objects] /\ \A j, k \in kept : name[j] = name[k] => j = k
    BY NamesExist
<1>3. /\ dir = [k \in Keys |-> IF k \in kept THEN name[k] ELSE NoObject]
      /\ data = [i \in {name[k] : k \in kept} |-> Full(CHOOSE k \in kept : name[k] = i)]
    BY <1>1
<1> HIDE DEF name
<1>4. /\ op = [c \in Callers |-> Idle] /\ before = [c \in Callers |-> [k \in Keys |-> Missing]]
      /\ quiet = [c \in Callers |-> {}]
    BY DEF StoreInit
<1>5. DirOK(dir)
    <2>1. dir \in [Keys -> Named]
        BY <1>2, <1>3 DEF Named
    <2>2. ASSUME NEW j \in Keys, NEW k \in Keys, dir[j] = dir[k], dir[j] # NoObject PROVE j = k
        <3>1. j \in kept /\ dir[j] = name[j]
            BY <1>3, <2>2
        <3>2. k \in kept /\ dir[k] = name[k]
            BY <1>3, <2>2
        <3> QED
            BY <1>2, <2>2, <3>1, <3>2
    <2> QED
        BY <2>1, <2>2 DEF DirOK
<1>6. CallOK(Idle)
    BY EmptyContents DEF CallOK, CallFields, Idle, StepsOf, Named
<1>7. CallsOK
    BY <1>4, <1>6 DEF CallsOK
<1>8. Live(dir, op) = {name[k] : k \in kept}
    <2>1. \A c \in Callers : op[c].fd = NoObject /\ op[c].from = NoObject
        BY <1>4 DEF Idle
    <2>2. \A k \in kept : name[k] \in Objects /\ name[k] # NoObject /\ k \in Keys /\ dir[k] = name[k]
        BY <1>2, <1>3, NoObjectAssumption
    <2>3. \A k \in Keys : dir[k] # NoObject => k \in kept /\ dir[k] = name[k]
        BY <1>3
    <2> QED
        BY <2>1, <2>2, <2>3 DEF Live
<1>9. \A i \in Live(dir, op) : data[i] \in Contents
    <2> SUFFICES ASSUME NEW i \in Live(dir, op) PROVE data[i] \in Contents
        OBVIOUS
    <2>1. (CHOOSE k \in kept : name[k] = i) \in kept
        BY <1>8
    <2>2. data[i] = Full(CHOOSE k \in kept : name[k] = i)
        BY <1>3, <1>8
    <2> QED
        BY <2>1, <2>2, FullContents
<1>10. StoreOK
    BY <1>3, <1>5, <1>7, <1>8, <1>9 DEF StoreOK
<1>11. ASSUME NEW c \in Callers PROVE Word(c, dir, data, op[c])
    <2>1. quiet[c] = {} /\ op[c].dst \notin quiet[c]
        BY <1>4
    <2>2. ~({op[c].src, op[c].dst} \subseteq quiet[c])
        BY <2>1
    <2> QED
        BY <2>1, <2>2 DEF Word
<1> QED
    BY <1>10, <1>11 DEF StoreInv

-----------------------------------------------------------------------------
(* The server over its client.                                               *)

\* A body that is uploaded is one a client sent, to the key of its token.
LEMMA TakeBegins ==
    ASSUME IInv, StoreInv, NEW c \in Callers, TakeBody(c)
    PROVE  StoreInv'
<1>1. req[c].pc = "body" /\ Upload(c, req[c].key, req[c].body)
    BY DEF TakeBody
<1>2. req[c].key \in Keys /\ req[c].body \in Bodies
    BY <1>1 DEF IInv, ReqInv, TypeOK
<1>3. Full(req[c].body) \in Contents
    BY <1>2, FullContents
<1> QED
    BY <1>1, <1>2, <1>3, BeginKeeps DEF Upload

LEMMA StepStore == IInv /\ StoreInv /\ [Next]_vars => StoreInv'
<1> SUFFICES ASSUME IInv, StoreInv, [Next]_vars PROVE StoreInv'
    OBVIOUS
<1>1. CASE \/ \E t \in Tokens, k \in Keys : GenerateUploadAuth(t, k)
           \/ \E t \in Tokens : Expire(t)
           \/ \E c \in Callers, t \in Tokens, b \in Bodies : TokenGet(c, t, b)
           \/ \E c \in Callers : TokenDel(c) \/ EmptyBody(c) \/ Uploaded(c)
           \/ UNCHANGED vars
    <2>1. UNCHANGED <<dir, data, op, before, quiet>>
        BY <1>1 DEF GenerateUploadAuth, Expire, TokenGet, TokenDel, EmptyBody, Uploaded, vars,
                    storeVars
    <2> QED
        BY <2>1 DEF StoreInv, StoreOK, CallsOK, Word
<1>2. CASE \E c \in Callers : TakeBody(c)
    BY <1>2, TakeBegins
<1>3. CASE \E c \in Callers : Call(c) \/ \E k \in Keys : Download(c, k)
    BY <1>3, CallBegins
<1>4. CASE \E c \in Callers : StoreStep(c) /\ UNCHANGED serverVars
    BY <1>4, StoreStepKeeps
<1>5. CASE \E k \in Keys : CacheExpire(k) /\ UNCHANGED serverVars
    BY <1>5, ExpireStore
<1> QED
    BY <1>1, <1>2, <1>3, <1>4, <1>5 DEF Next

LEMMA StoreAlways == Spec => []StoreInv
<1>1. Init => StoreInv
    BY InitStore DEF Init
<1> QED
    BY <1>1, StepStore, InitIInv, StepIInv, PTL DEF Spec

\* What a MoveFile or CopyFile that may not overwrite found at its destination
\* is still there, whichever client it goes through, as long as nobody else
\* has touched that key.
THEOREM ExistingKept == Spec => []KeepsExisting
<1>1. ASSUME StoreInv, NEW c \in Callers,
             ~op[c].over, op[c].kind \in {"move", "copy"},
             op[c].dst \in quiet[c], before[c][op[c].dst] # Missing
      PROVE  Held(op[c].dst) = before[c][op[c].dst]
    <2>1. op[c].dst \in Keys /\ Keeps(op[c], before[c], Holds(dir, data))
        BY <1>1, OwnWord
    <2> QED
        BY <1>1, <2>1 DEF Keeps, Holds, Held
<1>2. StoreInv => KeepsExisting
    BY <1>1 DEF KeepsExisting
<1> QED
    BY <1>2, StoreAlways, PTL

\* A method that returned nil has done what it promises, and a MoveFile or
\* CopyFile between two keys has its source's file at one of them at every
\* request on the way, as long as nobody else touches its keys.
THEOREM FilesAreKept == Spec => []FilesKept
<1>1. ASSUME StoreInv, NEW c \in Callers, Alone(c)
      PROVE  /\ op[c].src \in Keys /\ op[c].dst \in Keys
             /\ Holds(dir, data)[op[c].src] = Held(op[c].src)
             /\ Holds(dir, data)[op[c].dst] = Held(op[c].dst)
             /\ Answered(op[c], before[c], Holds(dir, data))
             /\ Survives(op[c], before[c], Holds(dir, data))
    <2>1. op[c].src \in Keys /\ op[c].dst \in Keys
        BY <1>1, OwnWord DEF Alone
    <2>2. Promise(op[c], before[c], dir, Holds(dir, data))
        BY <1>1 DEF StoreInv, Word, Alone
    <2> QED
        BY <2>1, <2>2 DEF Promise, Holds, Held
<1>2. ASSUME StoreInv PROVE OkMeansDone
    <2> SUFFICES ASSUME NEW c \in Callers, Ended(c), op[c].res = "ok", Alone(c)
                 PROVE  CASE op[c].kind = "upload" -> Held(op[c].dst) = op[c].value
                          [] op[c].kind = "delete" -> Held(op[c].dst) = Missing
                          [] op[c].kind = "look" -> Held(op[c].dst) = before[c][op[c].dst] /\ Held(op[c].dst) # Missing
                          [] op[c].kind = "copy" /\ op[c].src # op[c].dst ->
                                 Held(op[c].dst) = before[c][op[c].src] /\ Held(op[c].src) = before[c][op[c].src]
                          [] op[c].kind = "move" /\ op[c].src # op[c].dst ->
                                 Held(op[c].dst) = before[c][op[c].src] /\ Held(op[c].src) = Missing
                          [] OTHER -> TRUE
        BY DEF OkMeansDone
    <2> QED
        BY <1>1, <1>2 DEF Answered, Ended
<1>3. ASSUME StoreInv PROVE SourceSurvives
    BY <1>1, <1>3 DEF SourceSurvives, Survives, TwoKeys
<1>4. StoreInv => FilesKept
    BY <1>2, <1>3 DEF FilesKept
<1> QED
    BY <1>4, StoreAlways, PTL

=============================================================================
