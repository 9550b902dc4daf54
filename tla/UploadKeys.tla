----------------------------- MODULE UploadKeys -----------------------------
(* Where an uploaded file goes: storage/utils.go builds its key, storage/    *)
(* local finds the path of a key, storage/urlhandler makes a URL of a key    *)
(* and reads it back.  A path is its segments and whether it begins with a   *)
(* slash; an empty segment is a slash too many.                              *)
EXTENDS Integers, SequencesExt

Blank == ""     \* an empty segment; no port
Path(abs, segs) == [abs |-> abs, segs |-> segs]
NoPath == Path(FALSE, <<>>)             \* the empty string; "." once cleaned
Reject == Path(FALSE, <<"error">>)      \* an error; no path has this segment

\* path.Clean goes from segment to segment.
Follow(abs, out, s) ==
    CASE s \in {Blank, "."} -> out
      [] s = ".." /\ out # <<>> /\ Last(out) # ".." -> Front(out)
      [] s = ".." /\ out = <<>> /\ abs -> out
      [] OTHER -> Append(out, s)

Clean(p) ==
    LET out[i \in 0..Len(p.segs)] ==
            IF i = 0 THEN <<>> ELSE Follow(p.abs, out[i - 1], p.segs[i])
    IN  Path(p.abs, out[Len(p.segs)])

\* path.Join leaves out what is empty and cleans the rest.
Join(p, q) == Clean(IF p = NoPath THEN q ELSE Path(p.abs, p.segs \o q.segs))

Climbs(p) == ~p.abs /\ p.segs # <<>> /\ Head(p.segs) = ".."
Under(dir, p) == p.abs = dir.abs /\ IsPrefix(dir.segs, p.segs)

\* strings.TrimPrefix(s, "/").
TrimSlash(p) ==
    IF ~p.abs THEN p
    ELSE IF Len(p.segs) > 1 /\ Head(p.segs) = Blank THEN Path(TRUE, Tail(p.segs))
    ELSE Path(FALSE, p.segs)

-----------------------------------------------------------------------------
\* The last segment that is not empty, if there is one.
LastNamed(segs) ==
    {segs[i] : i \in {i \in DOMAIN segs : /\ segs[i] # Blank
                                         /\ \A j \in DOMAIN segs : j > i => segs[j] = Blank}}

\* The name a strategy gives: a UUID or a hash with the old extension, or the
\* last segment of the old name, unless that is none.
BuildUploadFileName(name, strategy) ==
    IF name = NoPath THEN Reject
    ELSE CASE strategy = "random_ext" -> Path(FALSE, <<"uuid">>)
           [] strategy = "hash_ext" -> Path(FALSE, <<"md5">>)
           [] OTHER -> IF LastNamed(name.segs) \subseteq {".", ".."} THEN Reject
                       ELSE Path(FALSE, <<CHOOSE s \in LastNamed(name.segs) : TRUE>>)

\* Variant: a directory may climb.
BadNormalizeUploadDir(raw, rejectAbs) ==
    IF rejectAbs /\ raw.abs THEN Reject ELSE Clean(TrimSlash(raw))

NormalizeUploadDir(raw, rejectAbs) ==
    LET dir == Clean(TrimSlash(raw))
    IN  CASE raw = NoPath -> NoPath
          [] rejectAbs /\ raw.abs -> Reject
          [] Climbs(dir) -> Reject
          [] OTHER -> dir

JoinUploadKey(prefixDir, bizDir, fileName) ==
    LET file == Clean(fileName)
        prefix == NormalizeUploadDir(prefixDir, FALSE)
        biz == NormalizeUploadDir(bizDir, TRUE)
        key == Join(Join(prefix, biz), file)
    IN  CASE fileName.abs \/ file = NoPath \/ Climbs(file) -> Reject
          [] Reject \in {prefix, biz} -> Reject
          [] key = NoPath -> Reject
             \* the root "/" has no "//" for a key to begin with
          [] prefix # NoPath /\ key # prefix /\ (prefix.segs = <<>> \/ ~Under(prefix, key)) -> Reject
          [] OTHER -> key

\* fixFilePath of the local client, whose root directory is root.
FixFilePath(root, key) ==
    LET file == Clean(Path(TRUE, root.segs \o Clean(key).segs))
    IN  IF Under(root, file) THEN file ELSE Reject

-----------------------------------------------------------------------------
(* A URL is its scheme, host and port and its path, escaped.  Of what a      *)
(* segment may hold two things matter: a character to escape ("sp", a space) *)
(* and a percent sign that an unescape takes for an escape ("pct20" of the   *)
(* space, "pct61" of "a").                                                   *)
Escape(s) == IF s = "sp" THEN "pct20" ELSE s
Unescape(s) == CASE s = "pct20" -> "sp" [] s = "pct61" -> "a" [] OTHER -> s
Unescaped(segs) == [i \in 1..Len(segs) |-> Unescape(segs[i])]

Url(base, segs) == [base EXCEPT !.segs = segs]

\* url.JoinPath reads the key as a path that is escaped already where it can
\* be, and never climbs above the root.
GenerateURL(base, key) ==
    LET p == Clean(Path(TRUE, base.segs \o key.segs))
    IN  Url(base, [i \in 1..Len(p.segs) |-> Escape(p.segs[i])])

DefaultPort(scheme) == IF scheme = "http" THEN "80" ELSE "443"

SameHost(target, base) ==
    /\ target.host = base.host
    /\ \/ base.port = target.port
       \/ base.port = Blank /\ target.port = DefaultPort(base.scheme)
       \/ target.port = Blank /\ base.port = DefaultPort(target.scheme)

\* ExtractKeyFromURLWithMode of a URL with a scheme.
ExtractKey(base, url, strict) ==
    LET inBase == IsPrefix(base.segs, url.segs)
        rest == IF inBase THEN SubSeq(url.segs, Len(base.segs) + 1, Len(url.segs)) ELSE url.segs
    IN  IF strict /\ (~SameHost(url, base) \/ ~inBase) THEN Reject
        ELSE Path(FALSE, Unescaped(rest))

-----------------------------------------------------------------------------
\* Reference: the port a URL leads to.
EffectivePort(u) == IF u.port = Blank THEN DefaultPort(u.scheme) ELSE u.port

=============================================================================
