----------------------------- MODULE FileServer -----------------------------
(* storage/fileserver: a file server in front of a storage client.  It hands *)
(* out upload tokens, each kept in a cache with the key it is good for, and  *)
(* its PUT handler takes a file for a token once.  The other methods of      *)
(* storage.Storage are passed on to the client (module Storage).             *)
EXTENDS Storage

CONSTANTS
    Tokens,     \* the UUIDs createFileKey draws; each is drawn once
    NoToken,
    NoKey,
    MaxCalls    \* bound: requests and calls made in one behaviour

ASSUME NoTokenAssumption == NoToken \notin Tokens /\ NoKey \notin Keys

VARIABLES
    tokens,     \* the cache: the key each token is good for, NoKey when there is none
    req,        \* the PUT request each goroutine handles, or the last one
    calls,      \* how many requests and calls there were (MaxCalls)
    issued,     \* history: the key each token was made for
    taken,      \* history: the tokens whose upload has begun
    late        \* history: taken, as it was when each request came in

vars == <<storeVars, tokens, req, calls, issued, taken, late>>
serverVars == <<tokens, req, calls, issued, taken, late>>

NoRequest == [pc |-> "done", tok |-> NoToken, key |-> NoKey, body |-> NoToken, code |-> 0]
Free(c) == op[c].pc = "done" /\ req[c].pc = "done"
Count == calls < MaxCalls /\ calls' = calls + 1

Answer(c, code) == req' = [req EXCEPT ![c].pc = "done", ![c].code = code]

-----------------------------------------------------------------------------
\* GenerateUploadAuth for a file name that makes key k (module UploadKeys) and
\* defaultCreateFileKey.  When SetWithTTL fails nobody learns the token.
GenerateUploadAuth(t, k) ==
    /\ issued[t] = NoKey
    /\ tokens' = [tokens EXCEPT ![t] = k]
    /\ issued' = [issued EXCEPT ![t] = k]
    /\ UNCHANGED <<storeVars, req, calls, taken, late>>

\* Config.KeyTTL has passed.
Expire(t) ==
    /\ tokens[t] # NoKey
    /\ tokens' = [tokens EXCEPT ![t] = NoKey]
    /\ UNCHANGED <<storeVars, req, calls, issued, taken, late>>

\* PUT /:key begins with a Get of the token.  A client knows issued tokens.
TokenGet(c, t, b) ==
    /\ Free(c)
    /\ issued[t] # NoKey
    /\ Count
    /\ late' = [late EXCEPT ![c] = taken]
    /\ \/ tokens[t] = NoKey /\ req' = [req EXCEPT ![c] = [NoRequest EXCEPT !.tok = t, !.code = 400]]
       \/ req' = [req EXCEPT ![c] = [NoRequest EXCEPT !.tok = t, !.code = 500]]
       \/ /\ tokens[t] # NoKey
          /\ req' = [req EXCEPT ![c] = [pc |-> "del", tok |-> t, key |-> tokens[t],
                                        body |-> b, code |-> 0]]
    /\ UNCHANGED <<storeVars, tokens, issued, taken>>

\* Variant: an error of Del is not looked at.
BadTokenDel(c) ==
    /\ req[c].pc = "del"
    /\ tokens' \in {[tokens EXCEPT ![req[c].tok] = NoKey], tokens}
    /\ req' = [req EXCEPT ![c].pc = "body"]
    /\ UNCHANGED <<storeVars, calls, issued, taken, late>>

\* The token is deleted before the body is looked at; an error, even one that
\* hides a deletion done, ends the request.
TokenDel(c) ==
    /\ req[c].pc = "del"
    /\ \/ /\ tokens' = [tokens EXCEPT ![req[c].tok] = NoKey]
          /\ req' = [req EXCEPT ![c].pc = "body"] \/ Answer(c, 500)
       \/ tokens' = tokens /\ Answer(c, 500)
    /\ UNCHANGED <<storeVars, calls, issued, taken, late>>

\* No body: the request fails and the token is gone.
EmptyBody(c) ==
    /\ req[c].pc = "body"
    /\ Answer(c, 400)
    /\ UNCHANGED <<storeVars, tokens, calls, issued, taken, late>>

TakeBody(c) ==
    /\ req[c].pc = "body"
    /\ Upload(c, req[c].key, req[c].body)
    /\ req' = [req EXCEPT ![c].pc = "upload"]
    /\ taken' = taken \cup {req[c].tok}
    /\ UNCHANGED <<tokens, calls, issued, late>>

Uploaded(c) ==
    /\ req[c].pc = "upload"
    /\ op[c].pc = "done"
    /\ Answer(c, IF op[c].res = "ok" THEN 200 ELSE 500)
    /\ UNCHANGED <<storeVars, tokens, calls, issued, taken, late>>

\* The GET handler is a DownloadFile of the client.
Download(c, k) ==
    /\ Free(c)
    /\ Count
    /\ Look(c, k)
    /\ UNCHANGED <<tokens, req, issued, taken, late>>

\* The methods passed on to the client.
Call(c) ==
    /\ Free(c)
    /\ Count
    /\ \E k \in Keys :
          \/ \E b \in Bodies : Upload(c, k, b)
          \/ Delete(c, k)
          \/ Look(c, k)
          \/ \E s \in Keys, over \in BOOLEAN : Move(c, s, k, over) \/ Copy(c, s, k, over)
    /\ UNCHANGED <<tokens, req, issued, taken, late>>

Init ==
    /\ StoreInit
    /\ tokens = [t \in Tokens |-> NoKey]
    /\ req = [c \in Callers |-> NoRequest]
    /\ calls = 0
    /\ issued = [t \in Tokens |-> NoKey]
    /\ taken = {}
    /\ late = [c \in Callers |-> {}]

Next ==
    \/ \E t \in Tokens, k \in Keys : GenerateUploadAuth(t, k)
    \/ \E t \in Tokens : Expire(t)
    \/ \E c \in Callers, t \in Tokens, b \in Bodies : TokenGet(c, t, b)
    \/ \E c \in Callers :
          \/ TokenDel(c) \/ EmptyBody(c) \/ TakeBody(c) \/ Uploaded(c) \/ Call(c)
          \/ \E k \in Keys : Download(c, k)
          \/ StoreStep(c) /\ UNCHANGED serverVars
    \/ \E k \in Keys : CacheExpire(k) /\ UNCHANGED serverVars

Spec == Init /\ [][Next]_vars

-----------------------------------------------------------------------------
Ended(c) == op[c].pc = "done"
Alone(c) == {op[c].src, op[c].dst} \subseteq quiet[c]

\* A MoveFile or CopyFile that may not overwrite leaves what its destination
\* held when it began: each client checks and writes in separate requests, so
\* only a file that was there all along is safe.
KeepsExisting ==
    \A c \in Callers :
        /\ ~op[c].over /\ op[c].kind \in {"move", "copy"}
        /\ op[c].dst \in quiet[c] /\ before[c][op[c].dst] # Missing
        => Held(op[c].dst) = before[c][op[c].dst]

\* A method that returned nil, its keys not touched by others meanwhile, has
\* left what it promises; a MoveFile or CopyFile from a key to itself is not
\* such a call, as the local, cache and S3 clients may lose the file.
OkMeansDone ==
    \A c \in Callers :
        /\ Ended(c) /\ op[c].res = "ok" /\ Alone(c)
        => CASE op[c].kind = "upload" -> Held(op[c].dst) = op[c].value
             [] op[c].kind = "delete" -> Held(op[c].dst) = Missing
             [] op[c].kind = "look" -> Held(op[c].dst) = before[c][op[c].dst] /\ Held(op[c].dst) # Missing
             [] op[c].kind = "copy" /\ op[c].src # op[c].dst ->
                    Held(op[c].dst) = before[c][op[c].src] /\ Held(op[c].src) = before[c][op[c].src]
             [] op[c].kind = "move" /\ op[c].src # op[c].dst ->
                    Held(op[c].dst) = before[c][op[c].src] /\ Held(op[c].src) = Missing
             [] OTHER -> TRUE

\* At every step of a MoveFile or CopyFile between two keys, whatever request
\* of it fails or loses its answer, the source's file is whole at one of them.
SourceSurvives ==
    \A c \in Callers :
        /\ op[c].kind \in {"move", "copy"} /\ op[c].src # op[c].dst
        /\ Alone(c) /\ before[c][op[c].src] # Missing
        => before[c][op[c].src] \in {Held(op[c].src), Held(op[c].dst)}

\* A call keeps its word, and loses nothing while it is under way.
FilesKept == OkMeansDone /\ SourceSurvives

\* Once a token's upload has begun no request that comes in later uploads
\* with it, and a token never writes to another key than its own.
TokenOnce ==
    \A c \in Callers :
        req[c].pc = "upload" => req[c].tok \notin late[c] /\ op[c].dst = issued[req[c].tok]

=============================================================================
