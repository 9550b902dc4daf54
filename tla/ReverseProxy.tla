---------------------------- MODULE ReverseProxy ----------------------------
(* server/service/reverseproxy: a proxy that keeps the answers of its target *)
(* in a CommonCache, headers in a byte cache and bodies in a storage client, *)
(* and serves them from there.  What is kept for a path is its own, so this  *)
(* is one path; each request's answer from the target is told apart by the   *)
(* request.  A body is Blocks pieces long.  The storage client replaces a    *)
(* file as a whole once its reader has ended (kvcache, s3: module Storage).  *)
(*                                                                           *)
(* An answer that is to be kept goes through three goroutines: the copier    *)
(* reads the target's body and writes each block to the client's pipe and    *)
(* then to the cache's; the server's own goroutine reads the first and the   *)
(* saver, in Save, the second.  A write to a pipe waits for its reader.      *)
EXTENDS Naturals

CONSTANTS
    Requests,   \* the requests for the path
    Nothing,    \* no header, no file
    Blocks      \* bound: pieces in a body

ASSUME BlocksAssumption == Blocks \in Nat \ {0}
ASSUME NothingAssumption == Nothing \notin Requests

VARIABLES
    header,     \* the cache's entry: the answer it is of
    file,       \* the stored body: the answer it is of and its length
    flag,       \* cacheFlags has the path
    srv,        \* where each request's own goroutine is
    end,        \* how each client's answer ended
    received,   \* the blocks the client was given
    clientGone, \* the client has left and its pipe's reader is closed
    copier,     \* where each request's copier is
    clientPipe, \* what closed the client's pipe: "open", "eof", or an
                \* error of the target's body or of a write to a closed pipe
    cachePipe,  \* the same of the cache's pipe
    saver,      \* where each request's saver is
    sent,       \* the blocks Save has read
    shut,       \* the cache pipe's reader is closed
    deleter     \* where a Delete of the path is

pipes == <<copier, clientPipe, cachePipe, sent>>
proxyVars == <<header, file, flag, srv, end, received, clientGone, pipes, saver, shut, deleter>>
kept == <<header, file, flag, deleter>>

NoFile == [of |-> Nothing, n |-> 0]

ProxyInit ==
    /\ header = Nothing
    /\ file = NoFile
    /\ flag = FALSE
    /\ srv = [r \in Requests |-> "new"]
    /\ end = [r \in Requests |-> "none"]
    /\ received = [r \in Requests |-> 0]
    /\ clientGone = [r \in Requests |-> FALSE]
    /\ copier = [r \in Requests |-> "none"]
    /\ clientPipe = [r \in Requests |-> "open"]
    /\ cachePipe = [r \in Requests |-> "open"]
    /\ saver = [r \in Requests |-> "none"]
    /\ sent = [r \in Requests |-> 0]
    /\ shut = [r \in Requests |-> FALSE]
    /\ deleter = "idle"

-----------------------------------------------------------------------------
(* ServeCacheReverseProxy and ModifyResponse, on the request's goroutine.    *)

Go(r, p) == srv' = [srv EXCEPT ![r] = p]
Finish(r, how, n) ==
    /\ Go(r, "done")
    /\ end' = [end EXCEPT ![r] = how]
    /\ received' = [received EXCEPT ![r] = n]

\* Load begins with Header: an error is as good as no entry.
LoadHeader(r) ==
    /\ srv[r] = "new"
    /\ \/ Go(r, "proxy")
       \/ header # Nothing /\ Go(r, "download")
    /\ UNCHANGED <<kept, end, received, clientGone, pipes, saver, shut>>

\* DownloadFile: a file that is not there, or an error, sends the request on
\* to the target; a file there is the answer.
LoadBody(r) ==
    /\ srv[r] = "download"
    /\ \/ Go(r, "proxy") /\ UNCHANGED <<end, received>>
       \/ file # NoFile /\ Finish(r, "ok", file.n)
       \/ file # NoFile /\ Finish(r, "error", 0)
    /\ UNCHANGED <<kept, clientGone, pipes, saver, shut>>

\* The target answers, or does not, or with an answer the checker does not
\* take, or while the flag is up: the answer goes to the client as it is.
FlagLoad(r) ==
    /\ srv[r] = "proxy"
    /\ \/ ~flag /\ Go(r, "store") /\ UNCHANGED <<end, received>>
       \/ Finish(r, "ok", Blocks)
       \/ Finish(r, "error", 0)
    /\ UNCHANGED <<kept, clientGone, pipes, saver, shut>>

FlagStore(r) ==
    /\ srv[r] = "store"
    /\ flag' = TRUE
    /\ Go(r, "read")
    /\ copier' = [copier EXCEPT ![r] = "read"]
    /\ saver' = [saver EXCEPT ![r] = "upload"]
    /\ UNCHANGED <<header, file, deleter, end, received, clientGone, clientPipe, cachePipe, sent, shut>>

\* The client's pipe is closed: its error cuts the answer off.
BodyEnds(r) ==
    /\ srv[r] = "read"
    /\ clientPipe[r] # "open"
    /\ Finish(r, IF clientPipe[r] = "eof" THEN "ok" ELSE "error", received[r])
    /\ UNCHANGED <<kept, clientGone, pipes, saver, shut>>

\* The client leaves: the server closes the body it was reading.
ClientLeaves(r) ==
    /\ srv[r] = "read"
    /\ Finish(r, "left", received[r])
    /\ clientGone' = [clientGone EXCEPT ![r] = TRUE]
    /\ UNCHANGED <<kept, pipes, saver, shut>>

-----------------------------------------------------------------------------
(* The copier: io.Copy to a MultiWriter of the two pipes.                    *)

\* Variant: without CloseWithError the deferred Close ends the pipes.
BadCloseBoth(r, how) ==
    /\ copier' = [copier EXCEPT ![r] = "done"]
    /\ clientPipe' = [clientPipe EXCEPT ![r] = "eof"]
    /\ cachePipe' = [cachePipe EXCEPT ![r] = "eof"]

\* The deferred Close does nothing to a pipe closed with an error before.
CloseBoth(r, how) ==
    /\ copier' = [copier EXCEPT ![r] = "done"]
    /\ clientPipe' = [clientPipe EXCEPT ![r] = how]
    /\ cachePipe' = [cachePipe EXCEPT ![r] = how]

\* The target's body has a next block, or ends, or fails.
CopyRead(r) ==
    /\ copier[r] = "read"
    /\ \/ sent[r] < Blocks /\ copier' = [copier EXCEPT ![r] = "toClient"]
          /\ UNCHANGED <<clientPipe, cachePipe>>
       \/ sent[r] = Blocks /\ CloseBoth(r, "eof")
       \/ CloseBoth(r, "error")
    /\ UNCHANGED <<kept, srv, end, received, clientGone, saver, sent, shut>>

CopyToClient(r) ==
    /\ copier[r] = "toClient"
    /\ \/ /\ srv[r] = "read"
          /\ received' = [received EXCEPT ![r] = @ + 1]
          /\ copier' = [copier EXCEPT ![r] = "toCache"]
          /\ UNCHANGED <<clientPipe, cachePipe>>
       \/ clientGone[r] /\ CloseBoth(r, "closedPipe") /\ UNCHANGED received
    /\ UNCHANGED <<kept, srv, end, clientGone, saver, sent, shut>>

CopyToCache(r) ==
    /\ copier[r] = "toCache"
    /\ \/ /\ saver[r] = "upload"
          /\ sent' = [sent EXCEPT ![r] = @ + 1]
          /\ copier' = [copier EXCEPT ![r] = "read"]
          /\ UNCHANGED <<clientPipe, cachePipe>>
       \/ shut[r] /\ CloseBoth(r, "closedPipe") /\ UNCHANGED sent
    /\ UNCHANGED <<kept, srv, end, received, clientGone, saver, shut>>

-----------------------------------------------------------------------------
(* The saver: CommonCache.Save and what is deferred after it.  The context   *)
(* of Save is the request's, which ends with it, so each call may fail.      *)

Save(r, p) == saver' = [saver EXCEPT ![r] = p]

\* Variant: the flag is left up after a failed upload.
BadSaveUpload(r) ==
    /\ saver[r] = "upload"
    /\ \/ cachePipe[r] = "eof" /\ file' = [of |-> r, n |-> sent[r]] /\ Save(r, "set")
       \/ UNCHANGED file /\ Save(r, "close")
    /\ UNCHANGED <<header, flag, deleter, srv, end, received, clientGone, pipes, shut>>

\* UploadFile reads the pipe to its end, or gives up.
SaveUpload(r) ==
    /\ saver[r] = "upload"
    /\ \/ cachePipe[r] = "eof" /\ file' = [of |-> r, n |-> sent[r]] /\ Save(r, "set")
       \/ UNCHANGED file /\ Save(r, "unflag")
    /\ UNCHANGED <<header, flag, deleter, srv, end, received, clientGone, pipes, shut>>

SaveHeader(r) ==
    /\ saver[r] = "set"
    /\ \/ header' = r /\ Save(r, "unflag")
       \/ UNCHANGED header /\ Save(r, "undo")
    /\ UNCHANGED <<file, flag, deleter, srv, end, received, clientGone, pipes, shut>>

SaveUndo(r) ==
    /\ saver[r] = "undo"
    /\ file' \in {NoFile, file}
    /\ Save(r, "unflag")
    /\ UNCHANGED <<header, flag, deleter, srv, end, received, clientGone, pipes, shut>>

Unflag(r) ==
    /\ saver[r] = "unflag"
    /\ flag' = FALSE
    /\ Save(r, "close")
    /\ UNCHANGED <<header, file, deleter, srv, end, received, clientGone, pipes, shut>>

\* Variant: the reader of the cache's pipe is not closed.
BadCloseReader(r) ==
    /\ saver[r] = "close"
    /\ Save(r, "done")
    /\ UNCHANGED <<kept, srv, end, received, clientGone, pipes, shut>>

CloseReader(r) ==
    /\ saver[r] = "close"
    /\ shut' = [shut EXCEPT ![r] = TRUE]
    /\ Save(r, "done")
    /\ UNCHANGED <<kept, srv, end, received, clientGone, pipes>>

-----------------------------------------------------------------------------
(* CommonCache.Delete, and an entry the cache drops by itself.               *)

Expire ==
    /\ header # Nothing
    /\ header' = Nothing
    /\ UNCHANGED <<file, flag, deleter, srv, end, received, clientGone, pipes, saver, shut>>

DeleteHeader ==
    /\ \/ deleter = "idle" /\ header # Nothing /\ deleter' = "del" /\ UNCHANGED header
       \/ deleter = "del" /\ deleter' = "file" /\ header' \in {Nothing, header}
    /\ UNCHANGED <<file, flag, srv, end, received, clientGone, pipes, saver, shut>>

DeleteBody ==
    /\ deleter = "file"
    /\ deleter' = "idle"
    /\ file' \in {NoFile, file}
    /\ UNCHANGED <<header, flag, srv, end, received, clientGone, pipes, saver, shut>>

-----------------------------------------------------------------------------
Server(r) == LoadHeader(r) \/ LoadBody(r) \/ FlagLoad(r) \/ FlagStore(r) \/ BodyEnds(r)
Copier(r) == CopyRead(r) \/ CopyToClient(r) \/ CopyToCache(r)
Saver(r) == SaveUpload(r) \/ SaveHeader(r) \/ SaveUndo(r) \/ Unflag(r) \/ CloseReader(r)

\* Everything has come to rest: what is left is the requests' history.
AllDone ==
    /\ \A r \in Requests :
          srv[r] = "done" /\ copier[r] \in {"none", "done"} /\ saver[r] \in {"none", "done"}
    /\ UNCHANGED proxyVars

ProxyNext ==
    \/ \E r \in Requests : Server(r) \/ ClientLeaves(r) \/ Copier(r) \/ Saver(r)
    \/ Expire \/ DeleteHeader \/ DeleteBody
    \/ AllDone

\* The goroutines run and the client reads.  A saver in UploadFile is only
\* sure to go on when its pipe is closed: it may give up before, or not.
Proceeds(r) == Saver(r) /\ (saver[r] = "upload" => cachePipe[r] # "open")

ProxyFairness == \A r \in Requests : WF_proxyVars(Server(r)) /\ WF_proxyVars(Copier(r)) /\ WF_proxyVars(Proceeds(r))

ProxySpec == ProxyInit /\ [][ProxyNext]_proxyVars /\ ProxyFairness

-----------------------------------------------------------------------------
\* An answer that ends without an error is the whole body, from the target or
\* from the store: whoever of the target, the client and the saver fails, and
\* when, a part of a body is neither kept nor passed off as an answer.
NoTruncation ==
    /\ file # NoFile => file.n = Blocks
    /\ \A r \in Requests : end[r] = "ok" => received[r] = Blocks

\* The flag is up only while a save that will take it down is under way, also
\* when two saves overlap: a path is never locked out of the cache.
FlagHasOwner == flag => \E r \in Requests : saver[r] \in {"upload", "set", "undo", "unflag"}

\* Every request is answered and its copier and saver end: no pipe is left
\* with one side waiting for a reader or a writer that is not there.
AnswersEnd ==
    \A r \in Requests :
        <>(srv[r] = "done" /\ copier[r] \in {"none", "done"} /\ saver[r] \in {"none", "done"})

\* The comment in ModifyResponse on a Save that failed, "continue serving
\* client": no answer is cut off because its cache pipe was closed.
DocSaveFailureHarmless ==
    \A r \in Requests : end[r] = "error" => clientPipe[r] # "closedPipe"

=============================================================================
