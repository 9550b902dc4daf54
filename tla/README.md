# TLA+ models of sphere

sphere is a library of building blocks for Go services: task groups and a task
manager, an application that runs tasks until it is told to stop, message
queues, publish-subscribe, pools, caches, storage back ends, a file server, a
caching proxy, and HTTP middleware.  This directory holds TLA+ modules for the parts of it in which
goroutines, contexts and shutdowns meet, configurations that check them with
TLC on small instances, and proofs checked by TLAPS that hold for instances of
any size.

Contents: [inventory](#inventory), [modules](#modules), [runs](#runs),
[fairness](#fairness), [what the code does otherwise than it
says](#findings), [proofs](#proofs), [what is not
modelled](#what-is-not-modelled), [how to run](#how-to-run).

## Inventory

| component | state | operations | what is hard | what makes it correct |
|---|---|---|---|---|
| `core/task` Group | state Init/Running/Stopping/Stopped, `stopReqCh`, `doneCh`, `resultErr`; locals of the run: `remaining`, `startErrs`, `stopErrs`, `reason`, `stopDone` | `Start`, `Stop`, `IsStarted`, `IsStopped` | a select over results, stop requests and a context; goroutines per task; callers that race; timeouts | nothing runs after it is stopped; every failure leads to a complete cleanup; all callers get the same result; whatever asks for the end gets it |
| `core/task` Manager | `tasks`, `runWG`, `startErr`/`stopErr`, `mu`, `opsMu`; per entry `doneCh`, `stopDoneCh`, two `sync.Once` | `StartTask`, `StopTask`, `StopAll`, `Wait`, getters | entries that replace each other under one name; a snapshot used after its lock; two locks | the list is the set of live tasks; Stop is called once; nothing slips past StopAll |
| `core/boot` Application and `run` | `quit`, `startErr`, the derived context, the joined errors, its group | `run` with its hooks; `Start`, `Stop` of Application | signals, contexts and the end of the group race; a shutdown timeout | nil means stopped; failures are returned; hooks come in order; the shutdown ends |
| `mq/memory` Queue | `queues`, `closed`, one channel per topic | `Publish`, `Consume`, `TryConsume`, `PurgeQueue`, `Close` | channels are used outside the lock and closed under it | accepted messages are not lost or overtaken; Close releases everybody |
| `mq/memory` PubSub | `topics`, `closed`; per subscription a channel, `done` and a goroutine | `Subscribe`, `Broadcast`, `UnsubscribeAll`, `Close` | a list of subscriptions used after its lock; goroutines per send; panicking handlers | every subscription found is served, once and in order; no channel is closed twice |
| `mq/redis` PubSub, Queue | a map of one subscription per topic; Redis lists | the same calls | a second Subscribe replaces the first in the map | UnsubscribeAll and Close reach every subscription (not so, see below) |
| `core/pool` ChanPool | a channel, `closed` | `Get`, `Put`, `GetContext`, `Close` | Put and GetContext race with Close | no object with two users, closed twice or closed in use; Close drains |
| `core/pool` SyncPool | `sync.Pool` | `Get`, `Put` | nothing | - |
| `cache` loader | the cache, a `singleflight.Group` of the caller | `GetEx`, `GetObjectEx`, `GetJsonEx`, `Set` | a miss seen before singleflight is entered; a Set after a Del | one build of a key at a time; what was deleted comes back only from a build under way |
| `cache/mcache` | `store`, `expiration`, a lock | `Set`, `Get`, `Del`, `Exists`, ... | deletes under the read lock | an expired value is not returned; the two maps agree |
| `cache/memory`, `badgerdb`, `redis`, `nscache`, `nocache` | the store behind them | the same | calls made of several calls | what the interface promises of GetDel, TTLs and DelAll |
| `storage` local, kvcache, s3, qiniu | files or keys | upload, download, copy, move, delete | copies and moves made of several requests; requests that fail or lose their answer | nil means done; a file is whole somewhere at every step; what may not be overwritten stays |
| `storage/fileserver`, `urlhandler`, `utils.go` | upload tokens in a cache | token, upload, download; keys and their URLs | a token read and deleted in two steps; directories that climb | a token is not used again; a key stays under its prefix and comes back from its URL |
| `server/service/reverseproxy` | `cacheFlags`, two pipes per response | serve from cache or upstream | one body copied to the client and to the cache | no part of a body is kept or served as a whole; the flag is given back; everything ends |
| `server/middleware/ratelimiter` | limiters in a cache | the handler | as the cache loader | one limiter per key |
| `utils/exp/captcha` | codes and counters in maps, a lock | `SaveCode`, `Verify`, `CleanExpired` | a map that is written under the read lock | the limits hold |
| `middleware/cors` | the configuration; locals of a request: the entry, the indices of `wildcardMatch` | `apply` | a loop that goes back to its last star only | an origin is allowed exactly if an entry reads as it |
| `utils/encoding` | none | conversions | arithmetic, padding | decoding inverts encoding |
| the rest (auth, online, selector, httpz, docs and file services, log, infra, search, idgenerator) | none that is shared | request handlers, adapters | nothing between requests | - |

How they interact.  `boot.run` starts an Application, whose Start and Stop are
those of a task.Group, from a goroutine of its own, and stops it after a signal,
the end of its context or the end of the group.  Group and Manager both call a
task's Start and Stop through `exec.go`, which turns a panic into an error.  A
rate limiter is a cache with a loader; the file server keeps its tokens in a
cache and its files in a storage; the reverse proxy keeps headers in a cache and
bodies in a storage.  The message queues stand alone.

## Modules

Each module lists its state by the names of the code; `PROJECT.json` maps every
definition to the lines it models.  A module's variants (`Bad...`) are the
definitions next to them with one plausible bug each; replacing the definition by
its variant makes the property it is listed with fail.

### GroupLifecycle, TaskGroup (`core/task/group.go`, `exec.go`, `multierr`)

`GroupLifecycle` is the promise of a group without its channels and counters:
it lives once, calls each task's Start and Stop at most once, is Stopped only
when none of these calls is executing and either no or every task was stopped,
and gives every caller the same result.

`TaskGroup` is the code.  A caller of Start takes the lock in `StartAcquire`
(one step: the check of the state, Running, the new channels, the launch of a
goroutine per task) or is refused.  The one that got through is the runner; its
select is `ReceiveStopReq`, `ReceiveCtxDone` and `ReceiveStartResult`, of which
any that is ready may be taken, as Go's select does.  The first reason to stop
leads through `MarkStopping` (the state, under the lock) and `CancelRun` (the
cancel of the context and the launch of the Stops); `CloseStopDone` is the
goroutine that waits for them.  `Publish` is the wait for `stopDone` and the
result under the lock, `CloseDone` the close of `doneCh` and the return.  Stop
is `StopSnapshot` under the lock, `StopRequest`, the send to the channel of
capacity one with its default branch, and `StopDone` or `StopExpired`.  Tasks
return when they please, with context.Canceled only once their context is done (the
runner leaves out such an error whenever it comes, group.go:206; that a task which
nobody cancelled returns it is left out here); contexts are done when they please, from before Start on.

An error is the pair of the call and the task it is from, so the result is a set
of pairs: the text and the order of a joined error are left out.

`TaskGroup` implements `GroupLifecycle` under the mapping `Abs`, in which a
launched goroutine has not called yet.

### TaskManager (`core/task/manager.go`)

An entry is a number in the order of StartTask calls; `tasks[n]` is what is
listed under a name.  StartTask is one step (its section under `opsMu` holds one
section under `mu`); the goroutine of a Start is `LeaveStart`, `Retire` (error
collected and entry taken off the list in the deferred function), `CloseDone`;
the goroutine of a Stop is `LeaveStop`.  StopTask looks up, requests, waits for
the stop, waits for the end and removes the entry if it is still listed, each a
step of its own.  StopAll waits for `opsMu`, takes its snapshot and does the same
with a goroutine per entry (`allPc`); Wait holds `opsMu` until `runWG` is zero.

### BootRun (`core/boot/run.go`, `app.go`, `options.go`)

Extends `TaskGroup`: of the group's callers one alone calls Start (`Launched`, the
goroutine run launches) and one alone Stop (`Main`, run itself), and the context of
Start is the one run derives.  Composed with run's own steps: the hooks, each list one
step that fails or not; the select; the cancel; Stop with the shutdown timeout;
the last hooks and the join.  A step of the group is taken inside a step of this
module (`RunStart`, `StopWait`, `StopTimesOut`, `TaskStep`, `CloseStops`, `OuterCancel`),
so the properties of the group and its proofs carry over.  `StartOutcomes` is what Application.Start makes of
the group's error: nil when a context.Canceled is anywhere in it, which only the
Stop of a task can have put there.

### TopicLines, MemQueue (`mq/memory/queue.go`)

`TopicLines` is the promise of a queue ("FIFO message delivery to exactly one
consumer per topic", queue.go:16) without its channels, map and lock: each topic has
one line of messages that no call for another topic touches; a Publish puts its
message at the end, once, while there is room and the queue is open; a receiver takes
the head; without any room a message goes from a publisher to a receiver of its topic.

`MemQueue` is the code.  Channels have an identity of their own, so that the map can
be wrong about them: `GetOrCreateQueue` is the section under the lock, the select that
follows a later step on the channel it returned.  A closed channel panics a sender,
gives a receiver what is left and then its closing; an unbuffered one hands a message
over from a publisher to a receiver (`HandOver`).  A purge is as many receives as
it finds messages.  `accepted`, `received`, `seen` and `before` are history.

`MemQueue` implements `TopicLines` under the mapping `Abs`: a line is the buffer of the
topic's channel, and a call is for the topic whose channel it holds.

### MemPubSub (`mq/memory/pubsub.go`)

Broadcast takes the list of subscriptions and starts a goroutine for each in one
step under the lock; each of these is a pair in `sends` and takes one of the
branches of its select: `Send` (into a buffer with room, or to the goroutine of
the subscription when there is no buffer), `SendDone`, `SendExpired`.
`BroadcastReturn` is the end of the wait for them.  The goroutine of a
subscription is `Receive`, `HandlerReturns`, `HandlerPanics` (the panic is
recovered outside its loop, so the goroutine ends and the subscription stays) and
`HandlerEnds`.

### MapCache, CacheLoader (`cache/mcache`, `cache/loader.go`)

`MapCache` is the map.  A call that holds the lock for writing is one step, taken
when nobody reads.  Get, Exists and MultiGet hold it for reading and delete what
they find expired, so they are a step per access: `RLock`, `Read` of a key, the
two halves of `Delete` (the value, then the time), `RUnlock`.  Readers whose
accesses of a Go map race have undefined results: the runtime ends the process
(`MapFault`) or the accesses happen in some order.  `Expire` is the clock.

`CacheLoader` composes it (INSTANCE) with load.  `Load` calls the getter, that is
a read of the map; `Hit` returns, `Miss` goes on to `Do` (singleflight, if asked
for) and `Build`; `SetBuilt` is the setter with any of the options, `Return` ends
the flight and answers whoever waits for it.  Others update the source, set what
the source has, delete, count and read.  singleflight, the builder and its source
are not in the repository and are modelled as the code uses them: a builder reads
the source at one moment, or fails.

`gone[k]` is history: when an entry of k is deleted, replaced or expires, the
versions that are neither in the source nor built and still to be set or returned
are gone for good.  A builder that had read an old version before a Del may set it
after the Del (loader.go:204), which is why these are spared.

### Storage, FileServer (`storage/*`, `storage/fileserver`)

`Storage` is the four clients.  A behaviour takes one of them (`backend`) and a
step is one request to it: a system call of the local client, a call of the
cache, of S3 or of qiniu.  A key names an object and an object holds blocks
(`dir`, `data`): the local client writes block by block through a descriptor that
outlives a rename or a removal of the path, the others replace an object as a
whole.  A request to a server is done and answered, done with its answer lost, or
not done (`Remote`); a system call may fail and then has no effect.  `op[c]` is
the call of a goroutine, its place in it and its result.  `before` and `quiet` are
history: what the keys of a call held when it began, and which of them nobody else
has touched since.

`FileServer` extends it with the upload tokens: `GenerateUploadAuth` makes one,
`TokenGet`, `TokenDel`, `EmptyBody`, `TakeBody` and `Uploaded` are the PUT handler
with the upload between the last two, `Download` is the GET handler and `Call` the
methods that are passed on.

### ReverseProxy (`server/service/reverseproxy`)

One path.  `LoadHeader` and `LoadBody` are Load on the request's goroutine, which
on a miss goes to the target; `FlagLoad` and `FlagStore` are the two steps of
ModifyResponse on `cacheFlags`.  From there on three goroutines run: the copier
(`CopyRead`, `CopyToClient`, `CopyToCache`, each of which may end with
`CloseBoth`), the server that reads the client's pipe (`BodyEnds`,
`ClientLeaves`), and the saver (`SaveUpload`, `SaveHeader`, `SaveUndo`, `Unflag`,
`CloseReader`).  A write to a pipe is one step with its reader; a write to a pipe
whose reader was closed is an error.  Entries expire and are deleted beside all
this.  The store replaces a file as a whole when its reader has ended, as kvcache
and S3 do.  The local client does not: it empties the file first, so that behind
the proxy a request with an older header may be served a part of the body that
is being written; `NoTruncation` is not claimed for it.

### ChanPool (`core/pool/chan_pool.go`)

The channel is the set of objects in it.  Get is one step (a receive with a
default); GetContext looks at `closed`, tries, creates and waits in steps of their
own; Put and Close likewise.  A send to the closed channel panics, and a receive
from it when it is empty gives no object.  A goroutine puts only what it has.

### WildcardMatch, Cors (`server/middleware/cors`)

`WildcardMatch` is the two loops of `wildcardMatch`, a pass a step (`MeetStar`,
`MatchSymbol`, `BackToStar`, `NoStar`; `SkipStar`, `WalkEnds`), over the function's own
indices.  What it should answer is `Reads`: each element of the pattern begins
somewhere in the value, a symbol stands for itself and a star for what there is up to
the next element.

`Cors` is `apply` for a request (`Apply`) with any list of allowed origins: the loop of
`resolveOrigin`, an entry a step (`AnyOrigin`, `Incomparable`, `CompareSpelling`), where an entry
with stars calls `wildcardMatch` (`ComparePattern`, `Walk`, `WalkReturns`), and the headers
that follow (`SetHeaders`).  A text is a sequence of symbols, "://" one of them.

### BaseConv, UploadKeys, Texts

Pure operators: the encodings of `baseconv` and `numconv` (a character is its
index in the alphabet, padding is none, an ASCII character, or "wide", a byte from 0x80
on; see `DecodeString`), and the way from a file name to a key (`storage/utils.go`), a
path (`fixFilePath`) and a URL and back (`urlhandler`).  A path is its segments and
whether it begins with a slash.  `Texts` is the machine that calls each of them
once with an input, or has `Cors` answer a request; its properties hold the reference
definitions.  A loop of the code is a recursive function over how far it has come: the
bitwise loop (`Regroup`, whose pass is `Shift` and `Emit`), the long division (`Divide`, a
pass `DivideDigit`) and the divisions one after another (`Convert`), and the walk of
path.Clean along the segments (`Clean`, a pass `Follow`).

## Runs

| run | instance | shows |
|---|---|---|
| `task_group` | 2 tasks, 2 callers of Start, 1 of Stop that may call again, stop timeout on | `StoppedIsQuiescent`, `FailureIsCleanedUp`, `UnaskedResult`; the refinement `Lifecycle`; `FailureReported`, `EndsOnceAsked`, `StopAnswered` |
| `task_group_cancel` | the same | violated: a test's expectation of a cancelled context |
| `task_manager` | 2 names, 2 starts, 2 callers, one with a deadline | `ListedIsLive`, `CollectedWhenDone`, `NoAddWhileWaiting`, `AllStopped`, `StopAnswered` |
| `boot_run` | 2 tasks | `NilMeansStopped`, `UnaskedFailureReturned`, `BeforeStopFirst`, `ShutdownEnds` |
| `mem_queue` | 2 topics, 3 callers, sizes 0, 1, 2, 2 messages | `NothingLost`, `InOrder`, `PurgeRemoves`; the refinement `OneLinePerTopic`; `CloseReleases` |
| `mem_pubsub` | 2 topics, 2 subscriptions, 2 broadcasters, sizes 0, 1, 2 messages | `NoDoubleClose`, `Delivered`, `HandledInOrder`, `Settles` |
| `cache_loader` | 2 callers, 2 keys, two versions of one and one of the other | `ReadsCurrent`, `Fresh`, `OneBuild`, `LoadEnds` |
| `file_server` | each of the 4 clients, 2 goroutines, 2 keys, 1 token, 2 calls or requests | `KeepsExisting`, `FilesKept`, `TokenOnce` |
| `reverse_proxy` | 2 requests, bodies of 2 blocks | `NoTruncation`, `FlagHasOwner`, `AnswersEnd` |
| `proxy_save_failure` | the same | violated: a comment's promise about a failed Save |
| `chan_pool` | 3 goroutines, 2 objects, 1 place, every choice of options | `OnePlace`, `DrainedOnce` |
| `texts` | inputs of a few symbols (`MCTexts`) | `RoundTrip`, `OriginAllowed`, `KeyLeadsBack` |

The type invariants of TaskGroup, TaskManager, MemPubSub, MemQueue, CacheLoader,
ChanPool, ReverseProxy and FileServer are proved as part of their inductive
invariants.

Why these bounds are enough for the cases that matter.

- Groups: with two tasks one can fail, be cancelled, be the last result or still
  be executing while the other does anything else.  Two callers of Start show the
  refused one in every phase; the caller of Stop that may call again shows a stop
  before Start, during every phase and after the end.
- Manager: two entries under one name (a successor) or under two (a StopAll over
  several); two callers are a StopTask beside a StopAll, a Wait beside either, a
  StartTask beside all.
- Application: run is one caller, and its group as above.
- Queue: two messages are what an order needs; three callers are a publisher that
  is blocked, a consumer and one that purges or closes; the size 0 has the hand
  over, 1 a full channel, 2 two messages in a channel.
- Publish-subscribe: two broadcasters with a message each, so that one can be over
  when the other begins; two subscriptions of one topic or of two.  The inductive
  invariant of the proofs was checked on the same instance and on one topic with
  three messages.

- Cache: one key with two versions has an old value that may come back; the second
  key makes a MultiGet and a flight of another key.  Two callers are a leader and
  one that waits, a reader that deletes beside another, a load that is late beside
  one that is over; all other users of the cache are steps of no caller.

- Files: two goroutines are a call and another one, or an upload with the token
  beside either; two keys are a source and a destination.  A file has two blocks,
  so that it can be half written.  Stored objects have names as files have inodes:
  every key and two descriptors of every goroutine can hold one, and a seventh is
  always free (`ObjectsAssumption`).
- Proxy: two requests are a save that overlaps another save, or a request served
  what the other one saved; a second block is what a truncated answer lacks.
- Pool: one place, so that a Put finds it full and a second object goes elsewhere;
  three goroutines are one that waits, one that puts and one that closes.
- Texts: up to six bytes over the values at which carries, shifts and padding
  change; patterns with a star at either end and two within, so that one is taken back
  behind another, and origins with a symbol repeated, so that a part fits late; names that are empty,
  absolute, climb, begin with two slashes, or hold a character to escape or a percent
  sign; each kind of padding in each base.

Bounds that are not in the code: `MaxCalls` (calls and requests at the file server), `Blocks` (of a body), `MaxVersion` (updates of the source), `MaxStarts` (entries of a manager), `MaxMsgs`
(messages accepted; broadcasts that found a subscription), each subscription is
made at most once, a call of a Starter is made once.

Deadlock is checked except in `mem_pubsub` (when the PubSub is closed and its
goroutines are over, nothing is left to do), `file_server` (the calls are
counted), `chan_pool` (callers whose Put panicked are gone, and one may wait for
an object for ever) and `texts` (one call).  `BootRun` has a step of its own for
the process that lives on after run has returned, `ReverseProxy` one for the end
of all requests.

## Fairness

Only what the code's scheduling and the contracts it documents give.

- A goroutine that can take a step takes it (weak fairness per goroutine; a
  select with a ready branch takes one of them, not each of them).
- A Start returns once its context is done, a Stop once its context is, as
  `task.Task` asks of them; in `BootRun` not even that: there run must end because
  of its own timeout.
- A timer fires (the stop timeout of a group, the shutdown timeout of run).
- A mutex starves nobody: strong fairness of the step in which a StopAll takes
  `opsMu`.
- A builder returns.  A writer gets the lock of the map at last (strong fairness of
  `SetBuilt`): a pending Lock of a sync.RWMutex holds off new readers.
- A handler of a subscription comes to its end (it returns or panics).
- The goroutines of a proxied answer run and its client reads or leaves.  The
  target need not end well, and a saver in UploadFile is sure to go on only once
  its pipe is closed: it may give up before, or not.

No fairness is assumed of callers: nobody need call, cancel, expire, publish,
consume, unsubscribe or close.

## Findings

Two runs show the code doing something else than it, or a test, says.

1. `task_group_cancel` (group.go:199).  When the context of Start is cancelled,
   the tasks return context.Canceled and several branches of the runner's select
   are ready.  If it takes all results first, it leaves the loop without a stop in
   progress and no task's Stop is called.  group_test.go:152 expects the Stop, and
   the comment at group.go:49 names parent cancellation among what triggers the
   cleanup.
2. `proxy_save_failure` (proxy.go:152).  When Save fails its pipe's reader is
   closed, the copier's next write fails, and the copier closes the client's pipe
   with that error: the answer is cut off.  The comment at proxy.go:156 says that
   the client is served on.

The modules show more, which the properties are written around:

- An entry leaves the list when its Start returns, which may be while its Stop is
  executing, and a StopAll that takes its snapshot then does not wait for that Stop
  (manager.go:196).
- StopAll looks at its context only after it has `opsMu` (manager.go:193), which Wait
  holds until every task has ended (manager.go:229): behind a Wait whose tasks run on
  it does not return, though manager.go:185 says that it does when its context
  expires.  Hence the second alternative of `StopAnswered`, which says that nothing but
  a Wait can do this; without it TLC finds the StopAll that never returns.
- A signal before the goroutine of `t.Start` has the group's lock makes `t.Stop`
  fail at once, and the afterStop hooks run while the tasks start (run.go:84).
- Get and MultiGet of the map cache delete an expired entry with the lock held for
  reading only: two readers of such a key are in `delete` on the same Go map at
  once (mcache/cache.go:100), which the runtime may answer with a fatal error.
  Verify of the captcha does the same (verification.go:133).
- A caller of load that saw the miss before a flight ended, and enters
  singleflight after, builds again (loader.go:189): `OneBuild` is about builds at
  one time, not about their number, although loader_test.go:258 expects one.
- An error of a Start that is received while a manual stop or a cancelled context
  ends the group is not part of the result (by the switch at group.go:222), hence
  "unasked" in `UnaskedResult` and `UnaskedFailureReturned`.
- A handler of a PubSub that panics leaves a subscription nobody serves, hence the
  second alternative of `Settles`.
- A move of a key onto itself with overwrite loses the file in the local client
  (local.go:202 removes the destination, then renames it), in the cache-backed one
  (kvcache.go:118 deletes what was just copied) and, unless the server refuses the
  copy, in S3: `FilesKept` is about two keys.
- Uploads of the local client empty the file first (local.go:77): a reader, or an
  upload that fails, may see or leave a part.  Its CopyFile removes the destination
  before it opens the source (local.go:225).
- Two uploads that are both past the Get of a token before either Del may share it
  (fileserver.go:178): `TokenOnce` is about every request after the first upload
  has begun.
- A Put that races with or follows Close of a ChanPool panics (chan_pool.go:59); a
  GetContext that waits when it is closed is given the zero value and true
  (chan_pool.go:88).  Without a closeFn Close drains nothing, and Get, which does not
  look at `closed` before it receives, goes on giving out what is left, though
  chan_pool.go:107 says that it returns zero values: `DrainedOnce` speaks of an empty
  channel only with a closeFn.
- In a base that is not a power of two zero bytes alone come back two longer, so
  the number 0 does not come back from `Int64ToBase62` at all, nor from
  `Int64ToBase32`: the alphabet of base 32 has 33 characters (basenum.go:6).
- The decoder trims `string(e.padChar)` (baseconv.go:185), which for a padding byte from
  0x80 on is the two bytes of a rune: the padding that the encoder wrote as a byte
  (baseconv.go:116) stays and is refused (baseconv.go:192), so padded texts of bases 32
  and 64 do not decode, though the constructor (baseconv.go:31) takes such a byte.
  `RoundTrip` names the exception.
- Without options CORS allows no origin (`[""]`, cors.go:99), though cors.go:61 says
  that it allows all by default.
- A file name with a percent sign that reads as an escape gives a URL that leads to
  another key (handler.go:62).
- An upload prefix that begins with two slashes keeps one of them (utils.go:114), so the
  key that GenerateUploadAuth hands out begins with a slash; ExtractKeyFromURL gives it
  back without (handler.go:89).  To S3, Qiniu and the cache-backed client that is another
  key; the local client finds the same file.  `KeyLeadsBack` names both exceptions.

## Proofs

### TaskGroupProofs

For every set of tasks (finite) and of callers, with or without a stop timeout:

| theorem | property |
|---|---|
| `TypeCorrect` | `TypeOK` |
| `Quiescence` | `StoppedIsQuiescent` |
| `Agreement` | `AgreedResult`, which `Lifecycle` implies and no run checks apart |
| `Cleanup` | `FailureIsCleanedUp` |
| `Completeness` | `UnaskedResult` |
| `Refinement` | `Lifecycle`, that is `Spec => Abs!Spec` |
| `RunsGroup` | `BootSpec => Spec /\ Lifecycle /\ []StoppedIsQuiescent` |
| `NilIsStopped` | `NilMeansStopped` |
| `FailureReturned` | `UnaskedFailureReturned` |
| `HooksFirst` | `BeforeStopFirst` |

None of those about the group is inductive.  The invariant `IInv` adds that one caller of Start
at most is past the lock (`OneRunner`), what its place says of the phase of the
group (`RunnerPhase`), what the phase says of the goroutines of the tasks
(`TaskPhase`), that `remaining` counts the results that were not received
(`Counted`), that `startErrs` holds exactly the failures that were received
(`ErrorsKept`), what was published (`Published`) and who was answered
(`Answered`).  `Counted` is the heart: with it `remaining = 0` means that every
Start has returned, which is what `Publish` relies on; its step is a fact about
the cardinality of a set without one of its members.  The proof that steps keep
the invariant has one lemma per action or group of actions; the refinement maps
each action to a step of `GroupLifecycle` or to a stutter under the invariant.
The assumptions are those of the module: the tasks are a finite set, and no
caller is both a Starter and a Stopper.

The last four are about `BootRun`.  `RunsGroup` is the composition: every step of run
is a step of its group or leaves the group as it is (`BootStep`), so whatever is
proved of groups, `IInv` included, holds of the one inside an application.
`BootInv` says what run's own place adds: nothing of the group has happened before
the goroutine is launched (`NotStarted`); until run calls Stop nobody but the tasks
and the outer context can have asked the group to end (`Undisturbed`); what the
goroutine sent is what Application.Start makes of the group's result
(`StartAnswer`); a run that was not asked to stop is past its select because that
answer had come (`EndedByItself`); and an error of Stop or of Start is not dropped on
the way to the join (`ErrsKept`).  The theorems follow from both invariants: the
error run keeps is that of its own Stop, and Start and Stop were given the same
result (`AgreedResult`).  The steps of the tasks and of the runner are dealt with once,
by what they leave alone (`TasksMove`, `RunnerMoves`).  They assume that `Launched` is
a Starter and `Main` a Stopper.

### MemPubSubProofs

For every set of topics, subscriptions and broadcasters, every set of queue
sizes and every number of messages:

| theorem | property |
|---|---|
| `TypeCorrect` | `TypeOK` |
| `ClosedOnce` | `NoDoubleClose` |
| `BroadcastDelivers` | `Delivered` |
| `HandlersInOrder` | `HandledInOrder` |

`ClosedOnce` needs only that topics do not share subscriptions and that none of
the listed ones is ended before the whole is closed (`Registered`).  For the
others the invariant follows a message: it is in one place at a time (`OnePlace`:
under way, in the channel, or handled), leaves these only with its context or its
subscription (`Accounted`), is under way only while its Broadcast waits
(`Waited`), and so what was over when a Broadcast began stays over
(`EarlierReturned`) and is ahead of the message in the channel (`Ahead`).
`Sent` and `Taken` say once what the two actions that touch a channel do to it;
`SendFacts` holds because a channel that is unbuffered is empty.

### CacheProofs

For every set of keys and callers and any number of versions of a key; for every set
of requests and bodies of any length:

| theorem | property |
|---|---|
| `TypeCorrect` | `TypeOK` |
| `CurrentReads` | `ReadsCurrent` |
| `Freshness` | `Fresh` |
| `AloneInFlight` | `OneBuild` |
| `WholeAnswers` | `NoTruncation` |
| `FlagGivenBack` | `FlagHasOwner` |

`MapKeeps` is about the map alone: a key that had expired when a reader came keeps
its time until its value is gone (`DueIsGone`, from `Dropped`: the value goes
first), and a key the reader has still to look at keeps its value or loses it
(`LeftIsKept`).  `NextUsesMap` shows that CacheLoader touches the map by its calls
only.  For `Fresh`, what is gone is older than the source and in nobody's hands
(`GoneIsPast`), stays gone while a load is under way, and is not what its read was
given (`StillGone`, with `ReadsCurrent`); `RetireKeeps` is the step in which
something more is gone.  For `OneBuild`, a flight belongs to a caller that executes
it (`Flights`) and each caller's place says whether it is in one (`Placed`).
Assumptions: a version bound per key, and a NoValue and names that are no versions,
callers or keys.

The last two are about the caching reverse proxy.  The copier is at most one block
ahead for the client (`Copied`), and a pipe that ended without an error was given the
whole body (`WholeOrError`), so what is saved or answered as complete is.  The saver that
set the flag stays among those that will give it back.  Each action touches one request
(`Alone`).

### TaskManagerProofs

For every set of names and of callers, with or without deadlines, and every number
of tasks:

| theorem | property |
|---|---|
| `TypeCorrect` | `TypeOK` |
| `ListIsLive` | `ListedIsLive` |
| `ErrorsCollected` | `CollectedWhenDone` |
| `WaitGroupUse` | `NoAddWhileWaiting` |
| `StopAllComplete` | `AllStopped` |

The list needs that entries are born in the order of their numbers (`Born`), that
what is listed is live and under its own name (`Listed`) and the converse
(`LiveListed`); `RemoveDone` is the point of removeTaskIfSame: the late removal of
an entry that is done finds nothing to remove.  For the two action properties,
whoever waits or stops all has `opsMu` (`Holder`), so what is listed meanwhile is
in the snapshot (`Snapshot`), and a StopAll is through with an entry only when it
is done (`StoppedDone`).

### ChanPoolProofs

For every set of callers, finite set of objects and size:

| theorem | property |
|---|---|
| `ObjectsOnce` | `OnePlace` |
| `ClosesOnce` | `DrainedOnce` |

The invariant adds that what is in somebody's hands was made, and that one puts
what one has (`HandsMade`), and the order of Close: closed, then the channel
closed, then drained (`CloseOrder`).  One lemma each for an object that comes into
hands (`GainKeeps`) and a goroutine that moves on (`MoveKeeps`).

### TextsProofs

For every set of symbols, origins and lists of entries; any names, directories and
servers; any bytes and numbers, any alphabet without padding or with an ASCII padding
character, and any ASCII alphabet with a padding byte from 0x80 on:

| theorem | property |
|---|---|
| `OriginsDecided` | `OriginAllowed` |
| `WalkMovesOn` | `MovesOn` |
| `KeysLeadBack` | `KeyLeadsBack` |
| `TextsRoundTrip` | `RoundTrip` |

The loop of `wildcardMatch` forgets every star but the last.  `NothingMissed` says that
nothing is lost by that: while the loop runs, the pattern fits the value exactly if
the rest of it fits from here, or what follows the last star fits from some later
symbol.  When a new star is met, the old one's later readings must be covered by the
new one: `Between` says that what lies between the last star and here takes up as
many symbols wherever else it is read, so such a reading comes to the new star
further right, and the new star can stand for the difference.  `FitsUnfold` takes the
first element off a pattern; no induction is needed, each pass of the loop is one use
of it.  So once the loop has answered it was right (`WalkDecides`).

For the request as a whole, `PassedOver` says that no entry before the one at hand takes
the origin, and `Comparing` that the loop runs on this entry and this origin, so its
answer is about them; `CalledInv` is the beginning of a call, where everything is still
to try.  With that an answer is right whichever step gives it (`AnswerRight`).
`WalkMovesOn` gives the order in which passes advance, and its bounds; that an
order on three bounded numbers has no endless descent is arithmetic.

The other two are about recursions over the input, so they need induction.  The
library's induction theorems take an operator as a parameter; what is used instead is that
a set of numbers that is not empty has a least member (`LeastNumber`, from
the library's theorem that strict inclusion of finite sets is well-founded), and that a set closed under successor is all of Nat (`NatSet`).
A recursive definition in TLA+ is a CHOOSE, which says nothing until it is shown that
there is such a function.  `Iterated` shows it for a loop by building the function up to
each number; `Pow2Def` and `ConvertIs` do so for the other two.

For the keys, a clean path is `Tidy`: names, after ".." at most at the front of a relative
one (`FollowTidy`, `CleanTidy`).  A path of names is its own clean path (`CleanNamed`), a
key is one of names (`JoinedKey`), so it stays under its prefix and under the root
(`KeyInRoot`), its URL is its segments, escaped, after those of the server (`UrlOfKey`),
and what is extracted from that is the key (`KeyComesBack`), up to the slash it may begin
with (`JoinedKey` says when) and the names that read as escapes (`EscapedBack`).

For the encodings, a text of digits has a `Value`, and texts of one length and value are
the same (`SameDigits`), as are those of one value without leading zeros (`SameProper`).

- Base a power of two: the loop's invariant is `Held`, that the value of what was put
  in is the value of what came out, times 2^n, plus the n bits in the buffer.  `EmitHolds`
  is the one place that looks at bits; `StepHolds` and `RegroupHolds` follow.  Through both
  loops what was written is what is read (`WrittenBack`): fewer bits are left than make a
  byte, and they are zeros.
- Other bases: `Dividend` says of the long division that the value of the digits so far is
  the quotient's, times the divisor, plus the carry (`DigitHolds`, `DivideHolds`).  A
  quotient is smaller than what was divided (`SmallerQuotient`), which gives that there is
  a text of each value (`TextExists`) and that `Convert` finds it (`ConvertStep`,
  `ConvertIs`).  Zeros at the front have no value, and are counted over on their own
  (`NumberOver`, `ZerosOver`, `MathematicalBack`).
- No digit is padding, so TrimPadding takes off what was padded and no more
  (`PadsTrimmed`).  Padding that is not trimmed is refused; whether any was written is a
  matter of the length of the data (`Padding`, `Groups`, `EncodedAs`).  With that follow `EncodedBack` and, for the bases of numconv,
  `NumberBack`.

Assumptions: data are bytes, the size of an alphabet is from 2 to 256 (it is of distinct
bytes, at least two), the padding is as above (`Paddings`), an int64 is eight bytes, and a server is a URL whose clean path has
nothing to escape.

### FileServerProofs

For every set of goroutines, tokens and keys, any number of calls and each of the
four clients:

| theorem | property |
|---|---|
| `TokensOnce` | `TokenOnce` |
| `ExistingKept` | `KeepsExisting` |
| `FilesAreKept` | `FilesKept` |

A token that is good was not taken, and keeps the key it was made for
(`TokenGood`); a request past its Get has a token that nobody had taken when it
came, and past its Del the token is no longer good (`ReqInv`).  That the upload
writes to the key of its token needs one lemma per client: a step of a call keeps
the call's destination (`LocalMoves`, `CacheMoves`, `S3Moves`, `QiniuMoves`).

The other two are about what the calls do to each other's files, and neither is
inductive.  `StoreInv` has two parts.  `StoreOK` is about the store: no object is
named by two keys (`DirOK`), and objects in use, those a key or a descriptor names,
are the ones with blocks.  A new file must therefore get an object nobody uses, even a
descriptor of a file that was renamed or removed under it; that there is one is a
count (`FreshIsNew`, from `LiveBound`), which is all `ObjectsAssumption` is for.
`Word` is about one call, as far as nobody else has touched its keys: `Keeps` (a call
that may not overwrite and found its destination there never gets past its look at
it) and `Promise`, which says for every place of a call what its keys hold: still
what they held (`Under`), the first blocks of what it writes, through a descriptor
of the very object its key names (`Writes`), what it promises when it returned nil
(`Answered`), and the source's file at one of the two keys anywhere between
(`Survives`).

A step of one call has two duties.  To the others it owes what `CommitKeeps` says: the
keys it changes are no longer quiet for them, so their words stand.  For itself
there is one lemma per kind of request (`UploadAllowed`, `CopyAllowed`,
`RenameAllowed`, `CreateKeeps`, `BlockKeeps`, ...), used by all the clients that make
this request; `RemoteKeeps` covers the request that is lost or whose answer is lost, and
`FailAllowed` a call that gives up.  The hardest is `BlockKeeps`: the local client writes
through a descriptor at its own offset, and the blocks before it must still be those
it wrote.  Assumptions: goroutines, keys and objects are finite sets, with more
objects than keys and descriptors; `NoObject` is no object and `Missing` no content.

### MemQueueProofs

For every finite set of topics and of clients, every bound on the messages and
queues of any size:

| theorem | property |
|---|---|
| `AcceptedKept` | `NothingLost` |
| `TopicsInOrder` | `InOrder` |
| `PurgeComplete` | `PurgeRemoves` |
| `LinesKept` | `OneLinePerTopic`, that is `Spec => Abs!Spec` |

The channels made are those of the topics in use, one for each (`OneChannel`), the
one of a topic has what was accepted and not received, by rising numbers
(`Contents`), and a call holds the channel of its topic (`Holding`).  A receiver
takes the lowest number, so all accepted before it are out already (`Earlier`); a
queue of size 0 never holds any, so a message handed over comes after all others.

The refinement has one lemma per step of `TopicLines` (`AskStep`, `PutStep`, `TakeStep`,
`PassStep`, `LeaveStep`).  Its mapping asks for the topic of a call, which the code does
not keep: `CallsMatch` finds it by the channel, of which there is one per topic, and
`CallKept` shows that no other call's topic changes when a channel is made.  That a
closed queue accepts nothing, also from a publisher that found its channel before,
takes `Shut`: a closed queue has no open channel.

### Only model-checked

Liveness (`FailureReported`, `EndsOnceAsked`, `StopAnswered`, `ShutdownEnds`,
`CloseReleases`, `Settles`, `LoadEnds`, `AnswersEnd`) and whatever needs ENABLED are out
of the prover's reach.  Every safety property of a passing run, and both refinements
of an abstract specification, are proved.

## What is not modelled

- Handlers of a PubSub that call the PubSub: one that broadcasts to its own topic
  without a deadline waits for its own full channel (pubsub.go:100).
- A reader of `IsRunning`, `GetRunningTasks`, `GetTaskCount`, `IsStarted`,
  `IsStopped`: they change nothing.
- The text, wrapping and order of joined errors; nil tasks and contexts, which are
  refused before any state is touched.
- The text of things: headers of a response, MIME types, file extensions, upload
  tokens signed by S3 and qiniu, the cache control of downloads.
- The headers of a preflight (copied values) and the order of CORS headers; random
  strings of numconv; URLs without a scheme in the URL handler; a file name with a
  percent sign that no escape follows.
- A padding byte from 0x80 on beside an alphabet that is not ASCII, where the rune that is
  trimmed may be two characters of the alphabet.
- Components whose promises are those of a library behind them: the redis queue
  and PubSub (it keeps one subscription per topic, the last one, in its map, so
  UnsubscribeAll and Close do not reach an earlier one: pubsub.go:54), the caches of
  memory, badgerdb, redis and nscache (GetDel of memory is a Get and a Del,
  memory.go:156; DelAll of one namespace empties the cache all share, cache.go:96),
  the rate limiter (the loader's late caller again, with a limiter that is
  replaced: rate_limiter.go:57).
- Components without state between calls, or with one section under one lock:
  captcha and verification codes, SyncPool and the safe goroutines, scripttask (a
  task for tests), authentication and authorization, online and selector
  middleware, HTTP helpers, docs and file services, logging, infrastructure
  clients, search and identifiers.

## How to run

    tlc -config MCTaskGroup.cfg MCTaskGroup
    tlapm TaskGroupProofs.tla

and likewise for the others; `MC<Module>.tla` instantiates a module and the
configurations of its runs begin with its name.  The passing runs take up to
two minutes each, and so do the proofs, except TextsProofs, which takes about five.
