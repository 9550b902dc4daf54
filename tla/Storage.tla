------------------------------ MODULE Storage ------------------------------
(* The storage clients: storage/local, storage/kvcache, storage/s3 and       *)
(* storage/qiniu.  A behaviour takes one of the back ends; any number of     *)
(* goroutines call its methods at once.  A client holds no lock and no state *)
(* of its own: what is shared is the back end.  A call is a series of        *)
(* requests to that back end, and each request is one step here.             *)
(*                                                                           *)
(* A key names an object and an object holds a sequence of blocks.  The      *)
(* local client writes into the object a path names, block by block, through *)
(* a descriptor that stays with the object when the path is renamed or       *)
(* removed.  The others replace the object of a key by a whole one.          *)
EXTENDS Integers, Sequences, FiniteSets

CONSTANTS
    Callers,    \* goroutines that call the client
    Keys,       \* storage keys, already cleaned (see UploadKeys)
    Bodies,     \* what an upload may carry
    Objects,    \* names for stored objects, more than keys and descriptors can use
    NoObject,
    Missing     \* the content of a key that names no object

\* What an object can hold: blocks of bodies, of earlier files (named by their
\* keys), and blocks of nobody's.
Contents == Seq(Bodies \cup Keys \cup {Missing})

ASSUME NoObjectAssumption == NoObject \notin Objects
ASSUME MissingAssumption == Missing \notin Contents
ASSUME ObjectsAssumption ==
    /\ IsFiniteSet(Callers) /\ IsFiniteSet(Keys) /\ IsFiniteSet(Objects)
    /\ Cardinality(Objects) > Cardinality(Keys) + 2 * Cardinality(Callers)

VARIABLES
    backend,    \* the client in use
    dir,        \* the object each key names
    data,       \* the blocks of each object in use
    op,         \* the call each goroutine is in, or the last one it made
    before,     \* history: what the keys held when that call began
    quiet       \* history: the keys no other call has changed since

storeVars == <<backend, dir, data, op, before, quiet>>

Backends == {"local", "kvcache", "s3", "qiniu"}
Blocks == 2
Full(b) == [i \in 1..Blocks |-> b]

Content(d, x, k) == IF d[k] = NoObject THEN Missing ELSE x[d[k]]
Held(k) == Content(dir, data, k)

\* Objects that a key or an open descriptor still names.
Live(d, o) ==
    ({d[k] : k \in Keys} \cup {o[c].fd : c \in Callers} \cup {o[c].from : c \in Callers})
        \ {NoObject}

Fresh == CHOOSE i \in Objects : i \notin Live(dir, op)

\* Caller c leaves the store as d and x and goes on as o.
Commit(c, d, x, o) ==
    /\ dir' = d
    /\ op' = [op EXCEPT ![c] = o]
    /\ data' = [i \in Live(d, op') |-> x[i]]
    /\ quiet' = [h \in Callers |->
                    IF h = c THEN quiet[c]
                    ELSE {k \in quiet[h] : Content(d, x, k) = Held(k) /\ d[k] = dir[k]}]
    /\ UNCHANGED <<backend, before>>

At(c, p) == [op[c] EXCEPT !.pc = p]
Done(c, r) ==
    [op[c] EXCEPT !.pc = "done", !.res = r, !.fd = NoObject, !.from = NoObject,
                  !.value = IF op[c].kind = "upload" THEN op[c].value ELSE <<>>, !.off = 0]

\* c goes on without a change to the store, or returns r.
Stay(c, o) == Commit(c, dir, data, o)
Return(c, r) == Stay(c, Done(c, r))

\* The store with k naming a new object of the given blocks, and without k.
PutDir(k) == [dir EXCEPT ![k] = Fresh]
WithObject(i, v) == [j \in DOMAIN data \cup {i} |-> IF j = i THEN v ELSE data[j]]
PutData(v) == WithObject(Fresh, v)
NoKeyDir(k) == [dir EXCEPT ![k] = NoObject]

\* A request over the network that should leave the store as d and x: done
\* and answered, done with the answer lost, or not done.
Remote(c, d, x, o) ==
    \/ Commit(c, d, x, o)
    \/ Commit(c, d, x, Done(c, "error"))
    \/ Return(c, "error")

-----------------------------------------------------------------------------
(* A goroutine calls a method.  o is the call; it starts at step p.          *)
Idle == [kind |-> "none", src |-> NoObject, dst |-> NoObject, over |-> FALSE, pc |-> "done",
         res |-> "none", value |-> <<>>, fd |-> NoObject, from |-> NoObject, off |-> 0]

FirstStep(kind) ==
    IF backend # "local" THEN kind
    ELSE CASE kind = "upload" -> "create"
           [] kind = "copy" -> "statDest"
           [] kind = "move" -> "statSource"
           [] OTHER -> kind

Begin(c, kind, s, k, over, v) ==
    /\ op[c].pc = "done"
    /\ op' = [op EXCEPT ![c] = [Idle EXCEPT !.kind = kind, !.src = s, !.dst = k, !.over = over,
                                            !.value = v, !.pc = FirstStep(kind)]]
    /\ before' = [before EXCEPT ![c] = [q \in Keys |-> IF q \in {s, k} THEN Held(q) ELSE Missing]]
    /\ quiet' = [quiet EXCEPT ![c] = {s, k}]
    /\ UNCHANGED <<backend, dir, data>>

Upload(c, k, b) == Begin(c, "upload", k, k, TRUE, Full(b))
Delete(c, k) == Begin(c, "delete", k, k, TRUE, <<>>)
Look(c, k) == Begin(c, "look", k, k, TRUE, <<>>)
Move(c, s, k, over) == Begin(c, "move", s, k, over, <<>>)
Copy(c, s, k, over) == Begin(c, "copy", s, k, over, <<>>)

\* c is at step p of a call to back end e.
Is(c, e, p) == backend = e /\ op[c].pc = p

-----------------------------------------------------------------------------
(* storage/local.  A system call may fail and then has no effect.            *)

\* os.MkdirAll and os.Create: the file is made, or the one there is emptied.
LocalCreate(c) ==
    /\ Is(c, "local", "create")
    /\ LET k == op[c].dst
           i == IF dir[k] = NoObject THEN Fresh ELSE dir[k]
       IN  \/ Commit(c, [dir EXCEPT ![k] = i], WithObject(i, <<>>),
                     [At(c, "write") EXCEPT !.fd = i, !.off = 1])
           \/ Return(c, "error")

\* The blocks io.Copy reads: an upload's body, or the file CopyFile opened.
Source(c) == IF op[c].kind = "copy" THEN data[op[c].from] ELSE op[c].value

\* A block is written at the descriptor's own offset.  A gap left by somebody
\* who emptied the file meanwhile reads as a block of nobody's.
WriteAt(f, n, b) ==
    [i \in 1..(IF n > Len(f) THEN n ELSE Len(f)) |->
        IF i = n THEN b ELSE IF i <= Len(f) THEN f[i] ELSE Missing]

LocalWrite(c) ==
    /\ Is(c, "local", "write")
    /\ LET n == op[c].off
           f == op[c].fd
       IN  \/ /\ n <= Len(Source(c))
              /\ Commit(c, dir, [data EXCEPT ![f] = WriteAt(data[f], n, Source(c)[n])],
                        [op[c] EXCEPT !.off = n + 1])
           \/ n > Len(Source(c)) /\ Return(c, "ok")
           \/ Return(c, "error")

LocalLook(c) ==
    /\ Is(c, "local", "look")
    /\ \/ Return(c, IF dir[op[c].src] = NoObject THEN "notFound" ELSE "ok")
       \/ Return(c, "error")

LocalDelete(c) ==
    /\ Is(c, "local", "delete")
    /\ \/ dir[op[c].src] = NoObject /\ Return(c, "notFound")
       \/ dir[op[c].src] # NoObject /\ Commit(c, NoKeyDir(op[c].src), data, Done(c, "ok"))
       \/ Return(c, "error")

\* removeBeforeOverwrite: os.Stat, then os.Remove.
AfterRemove(c) == At(c, IF op[c].kind = "move" THEN "rename" ELSE "open")

\* Variant: no look at overwrite.
BadLocalStatDest(c) ==
    /\ Is(c, "local", "statDest")
    /\ \/ dir[op[c].dst] = NoObject /\ Stay(c, AfterRemove(c))
       \/ dir[op[c].dst] # NoObject /\ Stay(c, At(c, "remove"))
       \/ Return(c, "error")

LocalStatDest(c) ==
    /\ Is(c, "local", "statDest")
    /\ \/ dir[op[c].dst] = NoObject /\ Stay(c, AfterRemove(c))
       \/ dir[op[c].dst] # NoObject /\ ~op[c].over /\ Return(c, "existed")
       \/ dir[op[c].dst] # NoObject /\ op[c].over /\ Stay(c, At(c, "remove"))
       \/ Return(c, "error")

LocalRemove(c) ==
    /\ Is(c, "local", "remove")
    /\ \/ dir[op[c].dst] # NoObject /\ Commit(c, NoKeyDir(op[c].dst), data, AfterRemove(c))
       \/ Return(c, "error")

LocalMoveStat(c) ==
    /\ Is(c, "local", "statSource")
    /\ \/ dir[op[c].src] = NoObject /\ Return(c, "notFound")
       \/ dir[op[c].src] # NoObject /\ Stay(c, At(c, "statDest"))
       \/ Return(c, "error")

\* os.Rename replaces what the destination names by now.
LocalRename(c) ==
    /\ Is(c, "local", "rename")
    /\ LET s == op[c].src
       IN  \/ /\ dir[s] # NoObject
              /\ Commit(c, [k \in Keys |-> IF k = op[c].dst THEN dir[s]
                                           ELSE IF k = s THEN NoObject ELSE dir[k]],
                        data, Done(c, "ok"))
           \/ Return(c, "error")

LocalCopyOpen(c) ==
    /\ Is(c, "local", "open")
    /\ LET s == op[c].src
       IN  \/ dir[s] = NoObject /\ Return(c, "notFound")
           \/ dir[s] # NoObject /\ Stay(c, [At(c, "create") EXCEPT !.from = dir[s]])
           \/ Return(c, "error")

LocalStep(c) ==
    \/ LocalCreate(c) \/ LocalWrite(c) \/ LocalLook(c) \/ LocalDelete(c) \/ LocalStatDest(c)
    \/ LocalRemove(c) \/ LocalMoveStat(c) \/ LocalRename(c) \/ LocalCopyOpen(c)

-----------------------------------------------------------------------------
(* storage/kvcache.  Files are entries of a cache, which may be a server.    *)

CacheUpload(c) ==
    /\ Is(c, "kvcache", "upload")
    /\ Remote(c, PutDir(op[c].dst), PutData(op[c].value), Done(c, "ok"))

CacheLook(c) ==
    /\ Is(c, "kvcache", "look")
    /\ \/ Return(c, IF dir[op[c].src] = NoObject THEN "notFound" ELSE "ok")
       \/ Return(c, "error")

\* Del of a key that is not there is no error.
CacheDelete(c) ==
    /\ Is(c, "kvcache", "delete")
    /\ Remote(c, NoKeyDir(op[c].src), data, Done(c, "ok"))

\* CopyFile: a Get of the destination unless it may be overwritten, a Get of
\* the source, a Set of the destination.
CacheCopyCheck(c) ==
    /\ Is(c, "kvcache", "copy") \/ Is(c, "kvcache", "move")
    /\ \/ op[c].over /\ Stay(c, At(c, "get"))
       \/ ~op[c].over /\ dir[op[c].dst] # NoObject /\ Return(c, "existed")
       \/ ~op[c].over /\ dir[op[c].dst] = NoObject /\ Stay(c, At(c, "get"))
       \/ ~op[c].over /\ Return(c, "error")

CacheCopyGet(c) ==
    /\ Is(c, "kvcache", "get")
    /\ LET s == op[c].src
       IN  \/ dir[s] = NoObject /\ Return(c, "notFound")
           \/ dir[s] # NoObject /\ Stay(c, [At(c, "set") EXCEPT !.value = Held(s)])
           \/ Return(c, "error")

AfterCopy(c) == IF op[c].kind = "move" THEN At(c, "del") ELSE Done(c, "ok")

CacheCopySet(c) ==
    /\ Is(c, "kvcache", "set")
    /\ Remote(c, PutDir(op[c].dst), PutData(op[c].value), AfterCopy(c))

\* MoveFile is CopyFile and then a Del of the source.
CacheMoveDel(c) ==
    /\ Is(c, "kvcache", "del")
    /\ Remote(c, NoKeyDir(op[c].src), data, Done(c, "ok"))

\* Config.Expires: the cache drops the entry of a key by itself.
CacheExpire(k) ==
    /\ backend = "kvcache"
    /\ dir[k] # NoObject
    /\ dir' = NoKeyDir(k)
    /\ data' = [i \in Live(dir', op) |-> data[i]]
    /\ quiet' = [h \in Callers |-> quiet[h] \ {k}]
    /\ UNCHANGED <<backend, op, before>>

CacheStep(c) ==
    \/ CacheUpload(c) \/ CacheLook(c) \/ CacheDelete(c) \/ CacheCopyCheck(c)
    \/ CacheCopyGet(c) \/ CacheCopySet(c) \/ CacheMoveDel(c)

-----------------------------------------------------------------------------
(* storage/s3.  The server copies an object in one request.                  *)

S3Upload(c) ==
    /\ Is(c, "s3", "upload")
    /\ Remote(c, PutDir(op[c].dst), PutData(op[c].value), Done(c, "ok"))

S3Look(c) ==
    /\ Is(c, "s3", "look")
    /\ \/ Return(c, IF dir[op[c].src] = NoObject THEN "notFound" ELSE "ok")
       \/ Return(c, "error")

\* RemoveObject of a key that is not there is no error.
S3Delete(c) ==
    /\ Is(c, "s3", "delete")
    /\ Remote(c, NoKeyDir(op[c].src), data, Done(c, "ok"))

S3CopyStat(c) ==
    /\ Is(c, "s3", "copy") \/ Is(c, "s3", "move")
    /\ \/ op[c].over /\ Stay(c, At(c, "copyObject"))
       \/ ~op[c].over /\ dir[op[c].dst] # NoObject /\ Return(c, "existed")
       \/ ~op[c].over /\ dir[op[c].dst] = NoObject /\ Stay(c, At(c, "copyObject"))
       \/ ~op[c].over /\ Return(c, "error")

\* Variant: an error of CopyObject is not looked at.
BadS3CopyObject(c) ==
    /\ Is(c, "s3", "copyObject")
    /\ LET s == op[c].src
       IN  \/ Stay(c, AfterCopy(c))
           \/ dir[s] # NoObject /\ Commit(c, PutDir(op[c].dst), PutData(Held(s)), AfterCopy(c))

\* What the server makes of a copy onto itself is the server's: it may refuse.
S3CopyObject(c) ==
    /\ Is(c, "s3", "copyObject")
    /\ LET s == op[c].src
       IN  \/ dir[s] = NoObject /\ Return(c, "notFound")
           \/ dir[s] # NoObject /\ Remote(c, PutDir(op[c].dst), PutData(Held(s)), AfterCopy(c))

S3MoveRemove(c) ==
    /\ Is(c, "s3", "del")
    /\ Remote(c, NoKeyDir(op[c].src), data, Done(c, "ok"))

S3Step(c) ==
    \/ S3Upload(c) \/ S3Look(c) \/ S3Delete(c) \/ S3CopyStat(c) \/ S3CopyObject(c)
    \/ S3MoveRemove(c)

-----------------------------------------------------------------------------
(* storage/qiniu.  The server moves and copies in one request and looks at   *)
(* the destination itself.                                                   *)

\* The token's scope is the bucket, which lets the server add a file but not
\* replace one by another.
QiniuUpload(c) ==
    /\ Is(c, "qiniu", "upload")
    /\ LET k == op[c].dst
       IN  \/ Held(k) \notin {Missing, op[c].value} /\ Return(c, "error")
           \/ Held(k) = op[c].value /\ Return(c, "ok")
           \/ Held(k) = Missing /\ Remote(c, PutDir(k), PutData(op[c].value), Done(c, "ok"))

QiniuLook(c) ==
    /\ Is(c, "qiniu", "look")
    /\ \/ Return(c, IF dir[op[c].src] = NoObject THEN "notFound" ELSE "ok")
       \/ Return(c, "error")

\* The answer "no such file" is not mapped here: it is any error.
QiniuDelete(c) ==
    /\ Is(c, "qiniu", "delete")
    /\ \/ dir[op[c].src] = NoObject /\ Return(c, "error")
       \/ dir[op[c].src] # NoObject /\ Remote(c, NoKeyDir(op[c].src), data, Done(c, "ok"))

\* The server's own answers to a move or a copy, which both methods map.
QiniuRefuses(c) ==
    \/ dir[op[c].src] = NoObject /\ Return(c, "notFound")
    \/ dir[op[c].src] # NoObject /\ dir[op[c].dst] # NoObject /\ ~op[c].over /\ Return(c, "existed")
    \/ Return(c, "error")

QiniuTakes(c) == dir[op[c].src] # NoObject /\ (op[c].over \/ dir[op[c].dst] = NoObject)

\* A file moved onto itself stays where it is.
QiniuMove(c) ==
    /\ Is(c, "qiniu", "move")
    /\ \/ QiniuRefuses(c)
       \/ /\ QiniuTakes(c)
          /\ Remote(c, [k \in Keys |-> IF k = op[c].dst THEN dir[op[c].src]
                                       ELSE IF k = op[c].src THEN NoObject ELSE dir[k]],
                    data, Done(c, "ok"))

QiniuCopy(c) ==
    /\ Is(c, "qiniu", "copy")
    /\ \/ QiniuRefuses(c)
       \/ QiniuTakes(c) /\ Remote(c, PutDir(op[c].dst), PutData(Held(op[c].src)), Done(c, "ok"))

QiniuStep(c) == QiniuUpload(c) \/ QiniuLook(c) \/ QiniuDelete(c) \/ QiniuMove(c) \/ QiniuCopy(c)

-----------------------------------------------------------------------------
\* The files of earlier runs are there: each is one of its own, Full(k).
StoreInit ==
    /\ backend \in Backends
    /\ \E kept \in SUBSET Keys :
          LET name == CHOOSE f \in [kept -> Objects] : \A j, k \in kept : f[j] = f[k] => j = k
          IN  /\ dir = [k \in Keys |-> IF k \in kept THEN name[k] ELSE NoObject]
              /\ data = [i \in {name[k] : k \in kept} |-> Full(CHOOSE k \in kept : name[k] = i)]
    /\ op = [c \in Callers |-> Idle]
    /\ before = [c \in Callers |-> [k \in Keys |-> Missing]]
    /\ quiet = [c \in Callers |-> {}]

StoreStep(c) == LocalStep(c) \/ CacheStep(c) \/ S3Step(c) \/ QiniuStep(c)

=============================================================================
