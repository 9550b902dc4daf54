-------------------------------- MODULE Texts --------------------------------
(* The operations on texts that keep no state.  A call of one of them with   *)
(* some input is a step, except for the decision on an origin, which takes   *)
(* the steps of Cors.  The modules hold the operations themselves.           *)
EXTENDS Cors

CONSTANTS
    Datas,      \* byte strings to encode
    Bases,      \* sizes of alphabets
    Numbers,    \* int64 values, as eight bytes
    Names,      \* paths given as file names and directories
    Servers     \* URLs without a key, of a clean path with nothing to escape

B == INSTANCE BaseConv
K == INSTANCE UploadKeys

ASSUME DatasAssumption == Datas \subseteq Seq(0..255)
ASSUME BasesAssumption == Bases \subseteq 2..256       \* sizes of sets of bytes
ASSUME NumbersAssumption == Numbers \subseteq [1..8 -> 0..255]
ASSUME NamesAssumption == Names \subseteq [abs : BOOLEAN, segs : Seq(STRING)]
ASSUME ServersAssumption ==
    Servers \subseteq [scheme : {"http", "https"}, host : STRING, port : STRING,
                      segs : Seq(STRING \ {K!Blank, ".", "..", "sp"})]

VARIABLE call

Strategies == {"random_ext", "hash_ext", "original"}
Root == K!Path(TRUE, <<"srv", "files">>)

textsVars == <<call, corsVars>>

TextsInit == call = [op |-> "none"] /\ CorsInit

EncodeData ==
    \E d \in Datas, base \in Bases : \E pad \in B!Paddings(base) :
        call' = [op |-> "data", data |-> d, base |-> base, pad |-> pad,
                 code |-> B!EncodeToString(d, base, pad)]

EncodeNumber ==
    \E n \in Numbers, base \in {B!Base32, B!Base62} :
        call' = [op |-> "number", number |-> n, base |-> base, code |-> B!Int64ToBase(n, base)]

\* GenerateUploadAuth: a file name, a key, and its URL on the server.
AuthorizeUpload ==
    \E prefix, dir, name \in Names, strategy \in Strategies, server \in Servers :
        LET file == K!BuildUploadFileName(name, strategy)
            key == IF file = K!Reject THEN K!Reject ELSE K!JoinUploadKey(prefix, dir, file)
        IN  call' = [op |-> "key", prefix |-> prefix, key |-> key, server |-> server,
                     url |-> K!GenerateURL(server, key)]

TextsNext ==
    /\ call.op = "none"
    /\ \/ /\ corsPc = "idle"
          /\ EncodeData \/ EncodeNumber \/ AuthorizeUpload
          /\ UNCHANGED corsVars
       \/ CorsNext /\ UNCHANGED call

TextsSpec == TextsInit /\ [][TextsNext]_textsVars

-----------------------------------------------------------------------------
Zeros(n) == [i \in 1..n |-> 0]

\* The last group of base 32 or 64 is not full.
Unaligned(data, base) ==
    \/ base = 32 /\ Len(data) % 5 # 0
    \/ base = 64 /\ Len(data) % 3 # 0

\* What EncodeToString made, DecodeString turns back into the data, and an
\* int64 comes back as itself.  The exceptions: padding of a byte from 0x80 on
\* is written but not trimmed, so that text is refused; and in a base that is
\* not a power of two, as both standard alphabets are, zero bytes alone come
\* back two longer, and so the number 0 does not come back at all.
RoundTrip ==
    /\ call.op = "data" =>
          B!DecodeString(call.code, call.base, call.pad) =
              IF call.pad = "wide" /\ Unaligned(call.data, call.base) THEN B!Reject
              ELSE IF ~B!Bitwise(call.base) /\ call.data # <<>> /\ call.data = Zeros(Len(call.data))
              THEN Zeros(Len(call.data) + 2)
              ELSE call.data
    /\ call.op = "number" =>
          B!BaseToInt64(call.code, call.base) =
              IF call.number = Zeros(8) THEN B!Reject ELSE call.number

KeyUnderPrefix(key, prefix) ==
    /\ \A i \in 1..Len(key.segs) : key.segs[i] \notin {K!Blank, ".", ".."}
    /\ \A dir \in {K!NormalizeUploadDir(prefix, FALSE)} : K!Under(dir, key)

\* No name in the key reads as an escape, which its URL would be taken for.
Plain(key) == \A i \in 1..Len(key.segs) : key.segs[i] \notin {"pct61", "pct20"}

LeadsTo(server, other) ==
    /\ other.host = server.host
    /\ \/ K!EffectivePort(other) = K!EffectivePort(server)
       \/ other.port = K!Blank /\ server.port = K!Blank

\* A prefix that begins with two slashes keeps one of them.
TwoSlashes(p) == p.abs /\ Len(p.segs) > 1 /\ Head(p.segs) = K!Blank

\* A key that GenerateUploadAuth hands out lies under the configured prefix and
\* is a path inside the local client's root.  ExtractKeyFromURL reads it back
\* from its URL, with two exceptions: a name that reads as an escape comes back
\* unescaped, and the key of a prefix with two slashes, which begins with a
\* slash, comes back without it, which is another key.  The same URL on another
\* server is refused.
KeyLeadsBack ==
    call.op = "key" /\ call.key # K!Reject =>
        /\ KeyUnderPrefix(call.key, call.prefix)
        /\ K!FixFilePath(Root, call.key) = K!Path(TRUE, Root.segs \o call.key.segs)
        /\ \A other \in Servers :
              LET url == [call.url EXCEPT !.scheme = other.scheme, !.host = other.host, !.port = other.port]
                  key == K!ExtractKey(call.server, url, TRUE)
              IN  IF LeadsTo(call.server, other)
                  THEN /\ Plain(call.key) => key = K!Path(FALSE, call.key.segs)
                       /\ (key = call.key) <=> (Plain(call.key) /\ ~TwoSlashes(call.prefix))
                  ELSE key = K!Reject

=============================================================================
