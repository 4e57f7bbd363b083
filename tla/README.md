# A verification development for the streaming backend

The program is a home streaming service: one Rust process (axum and tokio,
`src/src/`) that proxies, transcodes and stores video, with a web frontend
(`src/src-ui/`), a mobile app (`src/mobile/`) and a small proxy worker. This
directory holds TLA+ models of the backend's stateful services, the TLC
configurations that check them on small instances, and TLAPS proofs of the
properties that matter most for every instance.

Paths such as `streaming.rs:1076` are short for `src/src/streaming.rs:1076`.

Contents

1. [Inventory](#1-inventory)
2. [Plan](#2-plan)
3. [The modules](#3-the-modules)
4. [What the runs check](#4-what-the-runs-check)
5. [What is proved](#5-what-is-proved)
6. [Fairness](#6-fairness)
7. [Where the code does not keep its promises](#7-where-the-code-does-not-keep-its-promises)
8. [What is left out, and why](#8-what-is-left-out-and-why)

## 1. Inventory

Everything in the backend is one process and, apart from what SQLite and the
files keep, in memory. A handler is a future that hyper drops when its client
goes away: at any `.await`, every handler may simply stop, with its guards
dropped. What it has handed to `spawn`, to `spawn_blocking` (all of
`tokio::fs`) or to a child process goes on unless it is tied to the future
(`kill_on_drop`). This, the sweep that `main.rs` runs once a minute over all
services, restarts, and the interleavings of the handlers are what makes the
code hard.

| Component (module) | State | Operations | Interacts with | Hard behaviour | What makes it correct |
|---|---|---|---|---|---|
| **Per-key locks** (`streaming.rs:2046`, and the like in `resolver.rs`, `local_torrent.rs`, `football.rs`); `KeyLockTable` | `DashMap<String, Arc<Mutex<()>>>` | `key_lock`, lock, unlock, sweep with `retain(strong_count > 1)` | every service with per-key single flight | an entry dropped while somebody is about to lock its mutex makes a second mutex for the key | one task per key inside; queued tasks are let in |
| **HLS background transcodes** (`streaming.rs:925-1332`, `1452-1601`); `HlsTranscode` | `hls_jobs`, a `HlsJob` each (child, permit, flags), job locks, permits, files behind output prefixes, completion markers | playlist and segment requests, ensure, start, refresh, wait loop, software fallback, idle sweep, file sweep | ffmpeg, the on-demand renders, clients | the sweep takes no job lock; permits live in shared objects; flags are read without the mutex they are written under; Refs into a DashMap held across awaits | one transcode per source, none orphaned, permits bound the processes and are not lost, the marker is honest, every request ends |
| **HLS on-demand renders** (`streaming.rs:1334-1450`); `SegmentRender` | segment locks, permits, `x.ts` and `x.ts.partial` | render with two timeouts and a retry in software, rename into place | `process.rs`, the file sweep, the background transcode | dropped calls leave partial files and renames behind; removals from elsewhere | only complete segments are served; no render is made twice; every call ends |
| **Remux and export streams** (`streaming.rs:347-909`); `MediaStream` | permits, counters, active jobs | a body stream that pulls ffmpeg's output | ffmpeg, clients | nothing runs unless the client pulls, so deadlines are only seen then | counters add up, permits return |
| **Upload sessions** (`upload.rs`); `UploadSessions` | `sessions` in memory, a temporary file per session, `chunk_lock` | start, append, finish, sweep | library, media probe, ffmpeg | append and count are two steps; finish and sweep take no chunk lock; dropped handlers, whose file operations go on without it | the count is that of the acknowledged chunks; the video published is what was acknowledged |
| **Gallery saves, direct uploads** (`upload.rs:391`); `GallerySaves` | `gallery_jobs`, a task per save | queue, download, save | library | look-up and insertion in two steps | one save per item; only whole files are shown |
| **Local library** (`library.rs`); `LocalLibrary` | `assets/library.json`, `LOCAL_LIBRARY_LOCK` | read, write, mutate | uploads, gallery, the edit dialog of `home.jsx` | the whole file is replaced each time; renames outlive their handlers | nobody's entry is lost |
| **Source resolver** (`resolver.rs`); `EmbedResolve`, `SourceDiscovery`, `SourceRanking`, `DebridResolve`, `PlaybackSessions` | resolved-embed cache, resolve locks, permits, stored searches and sessions, torrents on the user's account | resolve, refresh, search, rank, reuse, report, prune | providers, indexes, Real-Debrid, persistence | refresh against a resolve under another key; torrents shared by calls; requests to the account whose answer is lost; rows read and written back seconds later | no stale URL on the recovery path; the file asked for; nothing left on the account; a failed source is not offered again |
| **Local torrents** (`local_torrent.rs`); `TorrentCache` | handles, per-hash locks, a cache on disk with a quota | ensure, download, prune | the torrent engine, the file system | the quota is checked under a per-hash lock, the pruning outlives its caller | quota kept; nothing in use pruned |
| **Persistence** (`persistence.rs`); `StartupSplit`, `WatchHistory`, `ContinueSource`, and the rows of the others | two SQLite databases | split at startup, quarantine, continue watching, My List, sweep | everybody | a crash between the steps of the split; DELETE and INSERT in two commits | accounts survive; one card per series, that of the latest episode, with a source that works |
| **Home bootstrap** (`home_bootstrap.rs`); `HomeBootstrap` | cached payload, `refresh_in_flight` | serve, refresh, persist | TMDB client | one background refresh at a time; its flag is lowered by the task's last statement, so a panic leaves it set | a rail once shown stays; a refresh comes again if none panics |
| **TMDB client** (`tmdb.rs`); `TmdbCache` | answers in memory and in the database | look up, fetch, extend, revive, delete | upstream | SELECT then DELETE; expiry that moves | no answer is used for too long; no reader goes back in time |
| **Live and sports** (`live.rs`, `football.rs`); `LiveProxy`, `SportsSchedule`, `SportsStreams` | short-lived caches, single-flight locks, permits | fetch, rewrite, probe, resolve | upstreams, resolver scripts | expiry against concurrent fetches; verdicts shared by requests | a playlist and a segment its player can play; a live match is never shown from an old schedule; one resolve per address |
| **Media probes and subtitles** (`media.rs`); `MediaTracks` | probe rows, subtitle files, a search cache, locks per source | probe, choose, extract, serve | ffprobe, ffmpeg, OpenSubtitles | the file is replaced while its tracks are kept; writes outlive calls | tracks of the file that is there; the stream that was asked for |
| **HTTP, static files, health** (`routes.rs`, `static_files.rs`, `health.rs`, `main.rs`) | none of their own | dispatch, the sweep | everybody | — | the handlers with several steps are actions of the modules above |
| **Accounts and mail** (`auth.rs`, `email.rs`, `rate_limit.rs`) | sessions, sliding windows | log in, sign up, limit | persistence | window boundaries | not modelled |
| **Registry, configuration** | small caches | look-ups | upstreams | — | not modelled |
| **Web frontend, mobile app, worker, scripts** | browser and app storage | play, synchronise, download | the backend | offline synchronisation | not modelled |

The hazards of this code, each at its line, are listed in `PROJECT.json`
under `hazards`, with the properties that would catch them or the reason why
none does.

## 2. Plan

The order in which the modules were written, the most important behaviour
first: `KeyMutex` and `KeyLockTable`, the lock that every other module takes
for granted; `HlsTranscode`, the heart of the service; `SegmentRender`, the
inside of its one step `RenderOnDemand`; `UploadSessions` and `LocalLibrary`,
the inside of its one step `AddEntry`; `EmbedResolve`; then the components of
the second rank, each with one invariant that says what it promises:
`MediaStream`, `HomeBootstrap`, `StartupSplit`, `TorrentCache`,
`GallerySaves`, `DebridResolve`, `SourceRanking`, `PlaybackSessions`,
`WatchHistory`, `ContinueSource`, and last the caches of what others say:
`SportsSchedule`, `SportsStreams`, `LiveProxy`, `SourceDiscovery`,
`TmdbCache`, `MediaTracks`.

The modules together would be too large to explore, so they are composed by
assumption and guarantee: `KeyLockTable` guarantees the locks of
`HlsTranscode`, `SegmentRender`, `EmbedResolve`, `TorrentCache`,
`SportsSchedule`, `SportsStreams` and `MediaTracks`; in `HlsTranscode`
rendering on demand is one step, whose inside is `SegmentRender`;
`SegmentRender` sees the background transcode as whatever writes and removes
behind `JobPath`; `UploadSessions` and `GallerySaves` add their entries in one
step, whose inside is `LocalLibrary`; `EmbedResolve` takes the reuse of a
session and the torrents as a step each, whose insides are `PlaybackSessions`,
`SourceDiscovery`, `SourceRanking` and `DebridResolve`; the last step of
`DebridResolve`, the local engine, is `TorrentCache`; a report that a source
failed (`PlaybackSessions`) is what `ContinueSource` calls `SourceFails`.

Left to do, in this order: the offline store of the mobile app and the rate
limiter as modules of their own.

## 3. The modules

`PROJECT.json` ("map") gives the lines every definition is translated from.

### KeyMutex, KeyLockTable

`KeyMutex` is what a per-key lock promises: `owners[k]` has at most one task;
`Enter`, `Leave`, and `Pass` (the owner leaves and the next is let in by the
same step, as tokio's fair mutex does).

`KeyLockTable` is the code: `table[k]` is the mutex the DashMap holds for `k`;
`arc[t]` is the clone of the `Arc` that task `t` holds; `ahead[t]` the tasks
queued before it. `GetLock` is `entry(..).or_insert_with(..).clone()`, one
step because DashMap holds the shard's lock over it. `TakeLock`, `QueueUp`,
`Unlock`, `HandOver` and `Abandon` are tokio's mutex and external. `DropArc`
comes after `Unlock`: the guard goes before the `Arc`, as the locals are
declared in the code. `Retain` is one entry of the sweep's `retain`, under the
shard's lock. A mutex is a value of `Lock`; one that nothing refers to may be
allocated anew, which is more than the allocator's reuse of an address.

### HlsTranscode

| In the model | In the code |
|---|---|
| `map` | `hls_jobs`; `ShardOf` says which keys share a shard, `HoldsRef(r)` that a handler has a live `Ref`, `ShardFree(k)` that a writer would get the shard |
| `job[j]` | an `HlsJob`: `child` is the process in the child mutex, `exited`, `code`, `permit` its fields, `settle` how far `refresh_hls_job_state` is inside the child mutex and `by` whose call that is; `idle` stands for `last_accessed_at` being eight minutes old |
| `Live(j)` | the job's `Arc` has a clone somewhere; a job that is not live has been dropped, with its permit |
| `marker` | the completion markers on disk; the only state a restart keeps |
| `jobLock` | the per-key job lock, as `KeyMutex` |
| `req[r]` | a handler (or the task a playlist request spawns): `pc` names the await it is at |
| `pruner` | `prune_idle_hls_jobs`, at one key of its snapshot |

The actions go through `ensure_hls_transcode_job_with_mode` (`LockJob`,
`RefreshFound`, `ReuseJob`, `EvictFailedJob`), `start_hls_transcode_job`
(`StartFromMarker`, `StartTranscode`, `StartRefused`, `SpawnFails`,
`InsertJob`), the caller's second look at the permits (`RenderWhenBusy`,
`AnswerRefused`), the wait loop (`PollHit` ... `PollDeadline`), the end of a
process (`FfmpegExits`, then `Reap`, `Settle`, `ReleasePermit` for the steps
`refresh_hls_job_state` makes while holding the child mutex) and the sweep
(`PruneVisit`, `PruneDecide`, `PruneKill`, `PruneRemove`, `PruneFile`).
`PruneKill` is one step: taking the child, killing it and storing the flags
happen inside the child mutex, and nobody reads the flags for a decision that
differs between them. `Reap`, `Settle` and `ReleasePermit` are separate,
because the wait loop reads `exited` and `exit_code` without the mutex and a
dropped request may stop between them. `EvictFailedJob` leads to a phase no
action leaves: see section 7.

`Disconnect` drops a handler where it awaits: it gives up its lock and its
Ref; inside `refresh_hls_job_state` it may do so only at the awaited write of
the marker, after the code is stored (`by`), and then the permit is not
released. `InsertJob`, `verdict` and `check` are not awaits. A restart clears
all but the markers; the service manager stops the process group, so the
ffmpegs stop with the backend.

`WaitFails` is the branch for an error of `try_wait`: nothing is awaited in it
but the uncontended permit, so it is one step. Segment contents are not
followed: a poll may hit or miss as it likes.

### SegmentRender

Files are two names per path, `seg` and `part`, with content `none`, `short`
(begun, or cut to nothing) or `whole`; `call[c].at` is the name under which
the file that call's ffmpeg writes is now known, so that a rename or a
removal under a running ffmpeg does to it what the file system does.
`BeginRender`, `LockSegment` or `FindSegment` (the second look),
`StartRender` or `QueueTimeout`, `RenderDone`, `RenderFails` or
`RetrySoftware`, `CheckPartial`, `RenameSegment` or `RemovePartial` follow
`render_hls_segment_on_demand`; a timeout of ffmpeg is a failure that may
come at any time. `Disconnect` frees lock and permit, kills ffmpeg and leaves
the partial file; if a rename or removal was on its way it becomes
`LateRename` or `RemoveListed`, because `tokio::fs` runs it on a blocking
thread that goes on. `ListStale`, `RemoveListed` are the file sweep, which
removes what it listed some time before; `RemoveIncomplete` and
`TranscodeWrites` are what a background transcode does behind `JobPath`.

Two simplifications: of several late renames at one path the model keeps one,
and removals behind a transcode's prefix are not listed first (they may come
at any time anyway). `Disturbed(p)` says that other than this module's calls
write to `p`: it is behind `JobPath`, or a dropped call has left a rename
there (`left`, a history variable).

### UploadSessions

`session[s]` is the entry in the map (`received_bytes`, and `stale` for six
hours of age); `temp[s]` and `video[s]` say which inode is at the session's
temporary path and in `videos/`; `content[f]` is the inode's content, a
sequence of units, each named by the request that wrote it; `req[r].fd` the
descriptor an append holds. So an append that goes on after the file was
removed or renamed writes to the inode it opened, and one that opens after
that creates a new file, as `create(true)` does. `BeginAppend`, `LockChunk`
(with the second look at the session), `OpenTemp`, `WriteFrame`, then
`RejectChunk` (roll back to the length found), `CountChunk` or `OverLimit`
and `TrimUpload` (cut back, by name, to the count) are `append_chunk`;
`BeginFinish`, `MoveVideo` or `ConvertVideo`, `ReencodeVideo`, `AddEntry`,
`FinishFails` are `finish_session` and what it calls. Every call begins with
the sweep, as in the code (`Swept`). A request sends its chunk once; a retry
is another request. `spoiled` is a history variable.

`Disconnect` drops a handler at any of its awaits. The file operation it was at
goes on in a thread of its own, after the chunk lock is free (`Unfinished`): an
open still makes the file (`LateOpen`), the write of the frame in hand is still
appended to the inode the descriptor is of (`LateWrite`), and a rollback or a cut
still cuts it (`LateCut`). If the next append begins before that is over, the
late write comes between its frames, or the late `set_len` takes its bytes away;
`overtaken` names the sessions to which this has happened, and is the exception
of `CountedStored` and `ChunksContiguous`. `CountsAcked` has no exception.

### LocalLibrary

`file` is the set of entries; an upload adds one under the lock
(`LockLibrary`, `ReadLibrary`, `RenameLibrary`); the edit dialog loads the
library, may keep it for minutes, and puts a subset of it back (`Load`,
`Put`). `GiveUp` is any failure or a handler dropped before the rename,
`LeaveRename` one dropped during it, `LateRename` the rename's end. `Load`
needs the lock to be free as `read_local_library` does. The write of the
temporary file is part of the rename: its name is unique, so nobody else sees
it.

### EmbedResolve

`resolve_movie` and `resolve_tv` have the same shape and are one module. A
lock key is a title with the caller's preferences; `Pinned`, `Skipped` and
`Preferred` say what the code derives from it (a source hash that names an
embed provider, `skip_external_embed`, the default way), `rd` whether the
user has a Real-Debrid key.

| In the model | In the code |
|---|---|
| `req[r]` | a handler: `pc` names the await it is at; `flying`, `failed` the attempts in `in_flight` and those that yielded `None`; `got` the winner's URL; `hit` the cached entry it answers with |
| `lock` | the per-key resolve locks, as `KeyMutex` |
| `cache` | `ResolvedEmbedCache`, by title; `by` and `at` are history |
| `free`, `ext` | `external_resolver_permits`, the counters `external_*` |
| `current` | what the providers' upstream serves: a URL is the number of times it has moved |
| `mark`, `moved` | history: the number of stores, and `current`, at the eviction |

`Arrive`, `Enter`, then `MetadataFails` or `Prepare`, whose last part is the
eviction of a refresh. By default the handler looks at the cache (`Look`),
waits for a permit (`AcquirePermit`, `RejectPermit`), looks again
(`BuildFromCache`) and races the providers (`StartRace`, `AttemptWins`,
`AttemptFails`, `Hedge`); `PublishWin` comes after the awaited health event
and stores the entry. A pinned provider skips the cache and runs alone. Then
`GiveUpEmbeds`, `ReuseSession`, `AcquireTorrentPermit`, `TryTorrents`;
`Answer` is the end of the subtitle tracks, still inside the lock. The two
looks are separate from their neighbours, although nothing is awaited between
the eviction and the first of them, because other threads run.

Simplified: the insertion, count, `retain` and `clear` of `store` are one
step; a TTL of 0 (no cache) and a title no provider can play are left out;
`external_rejected` is a log of `RejectPermit`; reuse of a session and the
torrent candidates are a step each; a request is made once.

### MediaStream

`pump[c]` is a response: `pc` from the queue for a permit (`AskStream`,
`AdmitRemux` or `AdmitExport`, `QueueTimesOut`) to the start of ffmpeg
(`SpawnRemux`, `SpawnFfmpegFails`) and its body. Nothing runs unless the client
pulls: it is `held` until `Pull` makes it `reading`, and only then are bytes
read (`ReadPiece`, `ReadEnd`, `Reap`, `ReadFails`) and the deadline seen
(`TimeUp`, `Killed`). `metrics` are the counters of `RemuxMetrics`; a guard
that is dropped counts a remux as cancelled unless its end was marked
(`EndRemux`), an export has no counters. `ExportAnswered` is an export that
needs no ffmpeg. `got` and `out` count pieces, so that a body which ends
properly before all of it came can be told from a whole one.

### TorrentCache

| In the model | In the code |
|---|---|
| `viewer[v]` | a call of `resolve` or `create_stream_response`, which holds the lock of its hash from `Enter` to `Leave` |
| `handles`, `engine` | `LocalTorrentService.handles`, and the torrents of librqbit: an entry of the one may outlive that of the other |
| `disk`, `dirs` | the files under each torrent's directory, and the directories by their last access |
| `prunes` | blocking tasks in `prune_cache`, with what they will delete |
| `rows` | rows `local-torrent:<hash>:<file>` |

`StartPrune` lists and plans (`Doomed`, `Plans`), `PruneDir` removes one directory,
`EndPrune` lets the call in if `HasRoom`; an abandoned call leaves its pruning
behind (`Orphaned`). `HandleReady`, `HandleOther`, `DeleteOld`, `AddTorrent`,
`Initialized`, `Answer` are `ensure_handle` and what follows. `LayOut` is the
engine. `pruned` and `unseen` are history: directories removed although their
torrent came into use meanwhile, and bytes that the room check does not see.

### DebridResolve

`caller[c]` tries the candidates in their order: `FindReusable` (the row of the
hash, or the list of the account), `AddMagnet`, `SelectFiles`, `Links`, then
`FailReused` or `FailAdded`, or an answer, which `RejectAnswer` may still turn
down (it failed when it was verified). `CandidateTimesOut` drops the inner
future at any of its awaits. `account` is what Real-Debrid has; `AccountMoves`
is that a torrent gets its links or dies, `AccountLoses` that one goes away (by
the user, or by a deletion that was slow). A request that fails, times out or is
cut off may have had its effect all the same (`AnswerLost`): then a torrent is on
the account whose id nobody has heard, or a file is selected, or a deletion comes
later. `foreign` are the user's own torrents, `spared` those that nobody will
delete, those of lost answers included.

### SourceRanking

Pure: `select_top_movie_candidates` and `select_top_episode_candidates` as
`Ranked`, from a `pool` of streams in any order of scores. `Prioritized` is the
limit with the pinned torrent and the healthy ones first; `WithMp4` and
`Mp4First` the rule for containers a browser can play. A height of 0 is a stream
that does not say its resolution; `OfQuality` has the four stages of the code: the
height wished for, else lower ones that are known, else higher ones, else all. TLC builds every pool up
to the bound and looks at `Sound(Ranked)`.

### SourceDiscovery

`seeker[s]` is a call of `list_sources` or of a resolve that has got to its
torrents: `stage` says why an index is asked, `index` which. `LookKept`,
`IndexAnswers`, `IndexFails` and `BodyFails` are `fetch_torrentio_streams` and
`fetch_torznab_streams` with the rows of `resolved_stream_cache` (`kept`), which are
used unasked for a time and, if the index fails, for a longer one.
`ListTorrentio` ... `Torznab` are what a request does with an answer, straight
from the code. `moved` says for whom the rows have changed meanwhile.

### PlaybackSessions

`row` is `playback_sessions` of one title; every access is a task on the
blocking pool, so the model's steps are single statements: `TryReuse`,
`TryLatest`, `CheckPasses` or `CheckFails`, `PassOver` or `MarkInvalid`,
`StoreReads` and `StoreWrites` of a resolve; `ReportReads`, `ReportWrites`,
`BlameSource` of a progress report. A report's health is "invalid" or nothing:
no client sends another (`player.js:4367`). `TryLatest` takes all rows when
the keys are listed, where the code reads them one by one a moment later; both
may be old. `old`, `lastPos`, `failed`, `undone` are history.

### WatchHistory, ContinueSource

`WatchHistory` has the handlers of watch progress, continue watching, My List
and sync, with the two commits of a card (`ClearSiblings`, `InsertCard`), the
two of its removal (`DeleteCard`, `WipeProgress`) and the read and write of a
merged list (`ReadList`, `MergeList`); `EndEarly` is a request cut off between
them. `clashed`, `broken`, `lapsed` name the exceptions. `ContinueSource` is
the reconciliation of one card with the sessions (`Reconciled`), a function of
any card and any rows.

### StartupSplit

`Db::initialize` step by step: `Start` (the look at `users_path.exists()`),
`InitUsers`, `NothingToCopy`, `LegacyUnreadable` or `CopyDurableTables`,
`InitCache`, `Quarantine` and the rebuild, `RenamePrefs`, `CopyPrefs`,
`PrefsInForm`; `Stop` is a crash or an error after any of them. The files have
a health, accounts, rows that refer to them, and for the cache a write-ahead
log, which the quarantine leaves behind.

### HomeBootstrap

`VisitCached`, `VisitUncached`, `ReadRow`, `Restore` are the handler,
`Refreshing` the background task in its stages (`previous`, `build`, `persist`,
`clear`). Nothing but `ClearFlag`, the last statement of the task, lowers
`inFlight`: `RefreshPanics` ends the task at any stage before and leaves the flag
set until `RestartHome`. A payload is the set of its rails that are not empty; a build gets any set and keeps the
others from the payload before. `blind` is history: the row could not be read
or written, or was deleted.

### GallerySaves

`galleryJobs` is the table of keys; `AlreadyQueued` and `QueueSave` are the
look, `InsertJob` the insertion that follows it in another step. A save's task
and a direct upload share `WriteAll`, `ToVideos`, `EnterShelf`; `Tear`,
`TooLarge`, `Reject`, `DropUpload` and `RestartUploads` are the ways to fail.
`raced` and `torn` name the exceptions.

### SportsSchedule, SportsStreams

A schedule's entry is used until it is `due`, which depends on what it lists, then
fetched by one fan at a time under its lock; when that fails, the old one is served
if it is not too old (`Usable`). The four `*Schedule` actions are the four providers' builders, with
what each leaves out. In `SportsStreams` a request is a list of addresses in
flight (`Launch`), each through its lock, a permit and a resolve; `stream` and
`failure` are the two tables of verdicts; what an address resolves to is
computed from the page behind it (`PageAt`) as the provider's code does.

### LiveProxy

The rewriting of playlists is an operator (`Rewrite`: masters, playlists that
end, rolling ones), on lines that are tags with a value; the actions are the
requests that share the caches of playlists and of decisions, and the permits of
curl, probes and encoders.

### TmdbCache

A reader goes through its pages: `LookInMemory`, `TouchCopy`, `LengthenRow`,
`LookInTable`, `DeleteRow`, `ReviveRow`, `InsertRow`, `TmdbAnswers`,
`KeepAnswer`, `StoreRow`. An answer is the day it was given on, which is all
that the property compares. `asked`, `told`, `raced` are history.

### MediaTracks

`content` is the number of what the file holds; it may be replaced at any time.
`LookAtProbe`, `TakeProbe`, `Probe`, `StoreProbe` keep the row, `SearchOpen` and
`SearchAddon` find external subtitles, `ChooseAudio` and `ChooseSubtitle` are the
choice among tracks,
`LookAtText` ... `FillText` the file of a subtitle, written in place: what a
dropped call has begun goes on (`write alone`).

### Lists

What the models of lists are written with: `Select` (`iter().filter`, in order), `PushNew`
(a push loop that passes over what is there already, up to a limit) and `Sorted` (a stable sort
with a comparison), and `Chosen` (what a list has at some places).

### The compositions

`MCServices`, `MCStores`, `MCPlayback` and `MCGateway` put components that
share no variable into one run each: a variable `focus` says which of them
moves in a behaviour, the others stay where they begin. The set of behaviours,
restricted to one component's variables, is that of its own specification; the
invariants of the others are evaluated and hold of their first state.

## 4. What the runs check

Every run is exhaustive. "Mutants" in `PROJECT.json` name, for each property
of each passing run, a plausible mistake in a definition under which TLC
finds the property violated.

| Run | Instance | Shows |
|---|---|---|
| `HlsTranscode` | 1 source, 2 requests, 3 jobs, 2 permits, both encode modes | `HlsInv` and its parts `NoOrphan`, `OneTranscodePerKey`, `MarkerHonest`; `VerdictFinal` |
| `HlsShards` | 2 sources in one shard, 2 requests, 2 jobs, 1 permit, software only | `CapacityRespected`, `PermitAccounted` |
| `HlsLiveness` | 1 source, 1 request at a time, hardware with the software fallback, 2 jobs | `RequestEnds`, `IdleKilled` |
| `HlsSelfDeadlock` | as `HlsLiveness` | violates `NoSelfDeadlock` (section 7) |
| `SegmentRender` | 1 on-demand path, 1 path behind a transcode, 2 calls, 1 permit, both modes | `SegmentInv` (with `SegmentWhole`), `NoWastedRender`, `RenderEnds` |
| `EmbedResolve` | 3 lock keys of one title, 1 of another, 2 requests, 2 providers, 1 permit, room for 1 entry, upstreams that move once | `EmbedInv` (with `RaceComplete`), `RefreshGuarded`, `SingleFlight`, `ExternalAccounted`, `ResolveEnds` |
| `EmbedStale` | 2 lock keys of one title, 2 requests, 2 permits | violates `RefreshRecovers` (section 7) |
| `Services` | locks: 3 tasks, 2 keys, 5 mutexes; streams: 2 clients, 1 permit of each kind; home: 2 visitors, 2 rails; cards: 3 sessions, 2 of them of the episode, 2 sources; startup: 2 accounts | `LockInv`, the table implements `KeyMutex` (`ImplementsKeyMutex`), `WaiterServed`; `StreamInv`, `StreamServed`; `RailsKept`, `RefreshAgain`; `CardFollows`; `AccountsSafe` |
| `AccountsLost` | 2 accounts | violates `AccountsMoved` (section 7) |
| `Stores` | library: 2 uploads, 1 dialog; gallery: 2 saves, 1 upload, 2 episodes and a film; history: 2 requests, 2 episodes, a list of 1; sessions: 2 keys and, in a focus of its own, the legacy one, 2 calls; media: 2 calls, 2 contents, 3 ticks | `LibraryInv`, `UploadsAdd`; `GalleryInv`; `HistoryInv`; `SessionsInv`; `MediaRight` |
| `Playback` | discovery: 2 seekers, 3 torrents, 1 permit; ranking: up to 3 streams of 720, 1080 or unknown lines; debrid: 2 calls, 2 candidates, 2 ids; torrents: 2 calls, 2 hashes, 2 files, a quota of 3 | `DiscoverySound`, `PickSound`, `DebridInv`, `TorrentInv` |
| `Gateway` | uploads: 1 session, 4 calls, 4 inodes, chunks up to 2 units, uploads up to 3, declared sizes 2, 3 or none; schedule: 2 fans, 4 providers, 7 moments; streams: 2 watchers, 3 addresses, 1 permit; tmdb: 2 readers, 2 pages, 2 days; live: 2 players, a master, a film and a rolling playlist | `UploadInv` (with `CountsAcked`, `ChunksContiguous`), `PublishedExact`; `ScheduleHonest`; `StreamsHonest`; `TmdbSound`; `LiveRight` |

Why the bounds are enough.

* *Locks.* One task inside and two queued make the order of the queue
  matter; two keys let a mutex that was dropped serve another key; with a
  mutex per task and per key allocation never runs dry. The safety part is
  proved for all bounds.
* *HlsTranscode.* The hazards are between a request inside the job lock, a
  second one that polls or waits, and the sweep: two requests and the sweep
  are three actors. The run `HlsTranscode` has permits for two transcodes of
  its one source, so that it is the job lock and not the permit that keeps
  the second away, and three jobs, so that one may be dropped and one polled
  while a third is started. `HlsShards` has fewer permits than jobs, so that
  a permit must be refused, and two sources in one shard, so that a Ref of
  one keeps out a writer of the other. The invariant is proved for all
  sizes. `HlsLiveness` has one request at a time, because
  liveness needs the graph without symmetry; that a second one waiting for the
  job lock is let in is `WaiterServed` of the lock.
* *SegmentRender.* One holder and one waiter of the lock, a waiter for the
  permit held at the other path, and a caller that leaves its rename to the
  next. `OneRenderPerPath` would follow from the single permit here; it is
  proved for any number of permits and not part of the run.
* *EmbedResolve.* The hazards are between two handlers: under one key they
  meet at the lock, under two keys of one title (one with the default way, one
  without, one pinned) at the cache, and at the one permit in any case, so
  that refusals occur. A second title and room for one entry make the cache
  overflow. Two providers are a first and a next one; the race is proved
  complete for any number.
* *Uploads.* Sessions share nothing but the sweep, so one is enough.
  Three appends and a finish, or a retry after each; two units make a chunk
  that can be mixed with another, three units of limit are passed by the
  second chunk. Four inodes: the temporary file, one that an append still
  holds, the conversion's and the re-encoded one. One call, the first to begin,
  leaves a file operation behind when it is cut off (`FirstLate`), so that two
  appends and a finish may come before it is over; that several leave one is
  covered by the proofs.
* *Ranking.* A wish of 720 with streams of 720, 1080 and unknown lines has
  each stage of the quality rule: exact, lower (for 1080), higher, and nothing
  known.
* *The caches and stores.* Two calls are what it takes to read a row before
  another writes it and to write it after; where a third actor matters it is
  an environment action (a sweep, an expiry, the engine, the account, a
  restart) that is always enabled. Everything that is to overflow has room for
  one less than there is (`MaxStreams`, `MaxKept`, `MaxLists`, `MaxList`,
  `SeekPermits`, `StreamPermits`, `MaxBytes`); clocks run long enough that an
  entry is made, goes out of date and is refused.

Bounds in the MC modules, beyond the constants. A call that is over leaves
before anything else happens (`Served`, `Told`, `Played`, `Finished`, `Over`, `AtEnd`):
its answer is a value that no other step reads. `OneAhead`: one call at a time
is past its first candidate. `AtRest`: rows of torrents expire while the engine
is at rest, and those of the debrid account while no call is under way
(`RowsLast`); a row is read at the beginning of a call only. `OneLooks`,
`OneInUse`: one call at a time looks at several rows. `OneCache`, `OneWarmUp`,
`MediaBounds`, `SweptInUse` say in their comments which calls do not meet. So
what needs three calls in the middle of such steps is not covered by the runs; for
the components of section 5 it is by the proofs.

Symmetry (calls, jobs, files and ids are only compared) is used in runs without
liveness. The views leave out what no action and no property reads: what a
dropped job or an unreachable inode holds, answers that are too old, which of two
calls in the same state is which (`Crowd`), and the components out of focus.

`Services`, `Stores`, `Playback` and `Gateway` switch the deadlock check off,
because components whose calls are made once, or whose clock stops at its bound,
come to rest. In the other runs it is on, but says little: where a restart is
possible every state has a successor. That nobody waits for ever is what
`WaiterServed`, `RequestEnds`, `RenderEnds`, `ResolveEnds`, `StreamServed` and
`RefreshAgain` say.

## 5. What is proved

All for any sets of keys, tasks, requests, jobs, calls, files, accounts and any
number of permits, from the named assumptions on constants (which the runs
evaluate), with no other assumption. The invariants below are inductive; those
that runs check as they are, and the strengthenings were checked by TLC before
they were proved.

* **HlsTranscodeProofs**: `HlsInvariant`, `OneTranscode`, `Capacity`,
  `PermitsKept`, `OneVerdict`.
  `OneTranscodePerKey` needs to know that a job that runs is in the map
  (`NoOrphan`); this needs that an insertion replaces nothing
  (`LookupCurrent`, from `LockHeld`) and that the sweep removes the entry of
  the job it killed (`PrunerCurrent`: nobody else takes out or replaces an
  entry meanwhile). `Settling` says what the child mutex protects; with it
  `MarkerHonest` follows. `Capacity` counts: the jobs that hold a permit and
  are alive are at most `MaxTranscodeJobs` (`PermitBound`, since only
  `StartTranscode` adds one, when one is available), and every running
  ffmpeg is one of them. `PermitsKept` adds where a permit without a running
  ffmpeg can be: on its way back, or left by a client that went away while the
  marker of a success was written.
* **SegmentRenderProofs**: `SegmentInvariant`, `OneRender`, `NoWaste`.
  `SegmentWhole` is made inductive by `HolderAlone`: the call inside the lock
  of an undisturbed path found no segment, alone writes the partial file, and
  when ffmpeg has succeeded the partial file is not a begun one.
* **EmbedResolveProofs**: `EmbedInvariant`, `RefreshSafe`, `OneFlight`,
  `PermitsAccounted`.
  `RefreshGuarded` alone is not inductive: the entry a refresh will find is not
  yet its answer. `SinceEvicted` says of the title's entry, from the eviction
  to the race, what `Guarded` says of the answer; it is kept because the
  handler is alone under its key (`LockHeld`). `RequestInv` is about one
  request, so a step of one is shown to keep its own, and the lemma `Others`
  carries it over to all others. `RaceComplete` needs that the launched
  providers are always the first ones (`NextUpOne`, `FieldInterval`).
  `PermitsAccounted` counts those who hold a permit against `free` and the
  counters.
* **CatalogProofs**: `LibraryInvariant`, `UploadsOnlyAdd`, `TmdbSafe`, `StreamsSafe`,
  `ScheduleSafe`. The first two rest on `ReadCurrent`: what an upload read under the lock still is the file.
  `TmdbIInv` has a part for requests and one for pages. `RecordRight`: what a
  request has in hand is good for its time, and not older than what had been told
  when it came. `PageInv`, of a page that was not raced for: memory, table and the
  rows that are being brought back are of one age, nobody has been told or reads
  anything newer, and while a new answer waits to be stored there is no row and
  nobody brings one. Most steps leave it as it is for the same reason (`Quiet`:
  what goes into a hand or into memory was in the memory or the table), so the
  lemma `PageKept` is shown once and the three steps that bring a new answer apart.
  `StreamsSafe`: `StreamsIInv` says what a watcher may hold of an address: its turn
  there came while the address was open (`OpenInv`: no fresh failure, no fresh
  answer), which nobody else can change while he holds its lock; answers that are
  kept are those of the best embed (`Best`), and an address is only blamed for a
  failure if nothing of it could be had (`Blamable`). `ScheduleSafe`: `ScheduleIInv` says that what is kept
  of a provider is what it told at a time (`EntryRight`: every match is of that
  time's listing, and the entry is due by what it lists), and that a request has passed over a
  provider only if nothing usable was kept of it, or if it has been told anew since
  (`FanRight`). How long a list is good for is a fact about lists of any length
  (`TtlFacts`); so is that every listed match that can be played is offered.
* **UploadProofs**: `UploadSafe`, `PublishedSafe`, `GallerySafe`. That counts are
  what was acknowledged and chunks are contiguous is made inductive by `UploadIInv`:
  the lock's holder is the one that writes (`Begun`, `Unwritten`), what it appends
  lies after what is counted, in its own inode (`Appending`, `OwnFile`), and a
  session taken out for finishing is nobody else's (`TakenOut`). `OneWriter`: a call
  cut off that is still writing or cutting is alone with the file, unless the session
  is `overtaken`. `PublishIInv` adds
  what a file holds: `Gathered` (that of a session that goes on: what was answered,
  and what the call in the lock has written), `Sealed` (once it is complete and taken
  out, nobody writes to it and it holds what was answered, wherever it lies), `Apart`
  (a video is nobody's temporary file), `Unused` (a call that has not begun is in
  no file), `Marked` (who is still writing or cutting without the lock is in a spoiled
  session) and `Finishing` (one call finishes a session, and finds its file, which a
  late open can only make where there is none). `GalleryIInv` adds that a key is in
  the table from its insertion to its task's end (`OneTask`, `KeyFree`), and which
  files a worker has at each stage (`Stages`, `Shelved`).
* **PlaybackProofs**: `SessionsSafe`, `DebridSafe`, `CardSafe`, `TorrentSafe`,
  `DiscoverySafe`, `RankSafe`. `SessionIInv`
  adds `BlamesSource` (the report that is to blame a source holds a row of
  it); `DebridIInv` adds `OneFile` (a torrent that was added by calls, not by
  the user, has at most one file selected) and `CallersInPlace` (where a call can be with
  which id). `CardSafe` is a fact about one reconciliation, for any card and
  any rows; the latest row exists because a set of numbers that is bounded and not
  empty has a greatest member.
  `TorrentSafe` has two halves. `TorrentIInv`: one call per hash (`OneCall`), what an
  abandoned pruning still may delete (`Awaited`, `Spared`: none that came into use
  is on its list unless `pruned` tells), and where a call that adds has got to
  (`Adding`, `AsAsked`). `QuotaIInv` is the quota: there is a share of it for each
  directory (`Covers`) that holds what the directory has and every file that is still due there, and
  the shares together do not exceed `MaxBytes`; `HasRoom` makes room for a
  new share, and laying out a file stays within its own. `DiscoverySafe`: as long as the rows have
  not moved, what a request has heard, will try and may leave out follows from what
  is kept and the time (`Follows`, `Unheard`), and by itself a request only holds
  what belongs to its stage (`Sensible`). `RankSafe` follows `Ranked` function
  by function (`QualityFacts`, `PrioritizedFacts`, `WithMp4Facts`, `Mp4FirstFacts`),
  for a pool of any length.
* **ServerProofs**: `StreamSafe`, `HomeSafe`, `SplitSafe`, `HistorySafe`,
  `LiveSafe`, `MediaSafe`, `LockInvariant`, `Exclusion`, `Refinement`.
  `StreamIInv` counts: `active` is the number of remuxes with a guard
  (`Ongoing`), and a process whose output is read to its end has written all
  of it or failed (`Drained`). `HomeIInv` says, as long as the row was always readable,
  which of payload, row, and what a refresh or a restoring visitor holds contains what
  has been shown (`RowKept`, `RowCurrent`, `BuiltUpon`, `RowHeld`, `OneRefresh`).
  `SplitIInv` adds `CopyFirst`: while a start is about to copy, there is no
  account in `users.sqlite` that the copy would overwrite. `HistoryIInv` adds what a
  request that has cleared siblings, or read a list, still holds (`Cleared`, `ListHeld`).
  Mutual exclusion is not inductive: the key of two tasks may, as far as it says,
  lead to two mutexes. `LockInv` adds `ArcIsCurrent` (who holds a clone of a
  mutex holds the one the table has for that key: `Retain` needs
  `strong_count <= 1` for exactly this), `OneKeyPerLock` and
  `OneHolderPerLock`. `Refinement` maps `owners` to the tasks that hold a
  mutex, per key; `Unlock` is `Leave`, `HandOver` is `Pass`, `TakeLock` is
  `Enter`, everything else, the sweep included, a stutter.
  `LiveInv` of the live proxy says that what is kept of a playlist fits every request
  with its key (`ListsOK`), whoever fetched it; that a decision of a directory is of
  one of its segments, and that one segment of a directory is like the other
  (`DecisionsOK`); and that a request at work has the segment its work is for
  (`PlayersOK`). What a rewritten playlist holds is proved for playlists of any
  length (`FlattenPlaces`, `SelectConcat`), from `FixedAssumption`: a playlist that does not
  change is well formed, each height followed by its variant.
  `MediaInv`, of the tracks of a file: the row is of what the file held less than a
  tick before it was stored (`RowRecent`); a text that is kept is of its key's stream,
  and of the file that is there or marked as older, but for the named cases
  (`TextsKept`); and what a call has gathered holds for what it was asked, at every
  stage (`CallAtWork`). That a write goes on when its call is dropped, and that the
  next one writes over it, is in `LaidFacts` and `CallsKept`. The choice is proved for
  lists of any length: every list that a call gathers has an index once (`Tracks`,
  from `MediaAssumption`: a file numbers its streams, an id of OpenSubtitles is of one
  subtitle), `Merged` keeps this and the members (`MergedFacts`), and what is chosen
  is right (`AudioFacts`, `SubtitleFacts`; a forced subtitle is ranked after all
  others, `ForcedIsLate`).
* **DataLemmas**: what the proofs above need to know about sums over finite sets
  and about lists of any length: the sum of a part, of a set without an element, of a
  smaller weight (`SumOfPart`, `SumWithout`, `SumMonotonic`); that a selection keeps
  the members and their order (`SelectFacts`, `SelectPlaces`, `SelectFirst`); that
  `PushNew` leaves no double and stops at its limit (`PushFacts`); that
  `Sorted` is a rearrangement in order (`SortedFacts`); what `Chosen` takes from a list
  (`ChosenFacts`); that a set of numbers has a least one (`LeastOne`); what is selected from two
  lists in a row and from a list whose members are changed (`SelectConcat`,
  `SelectChanged`); where a list of lists has each of them (`FlattenPlaces`). The library's induction
  theorems have an operator as parameter, which no installed prover can
  instantiate; here the induction is over the least number, or the smallest set, that is outside a
  set X, which is first-order (`UpTo`, `SubsetInduction`), and recursive
  definitions are shown to have the function they `CHOOSE` (`SumExists`, `SelectRuns`,
  `PushRuns`). For this the lists of the models are selected and
  sorted by the operators of `Lists`, in place of the library's folds.

Only model-checked is liveness (`WaiterServed`, `RequestEnds`, `IdleKilled`,
`RenderEnds`, `ResolveEnds`, `StreamServed`, `RefreshAgain`): the prover does not do
fairness. Every other property of the runs is a theorem, except those that a run
shows to be violated.
## 6. Fairness

* *KeyLockTable*: weak fairness of a task's own steps, and of leaving a
  section. The scheduler runs every ready task, and sections end, because
  what they await has a timeout or is local file work. The sweep and new
  requests need not come.
* *HlsTranscode*: strong fairness of a request's steps and of its deadline in
  the poll loop (the deadline is looked at in every round, so it is taken if
  it is possible again and again), weak fairness of the settling inside the
  child mutex, strong fairness of the sweep's visit to each key: it runs once
  a minute over all keys. Strong, because the job lock is FIFO
  (`WaiterServed` shows that it is served), and because a writer of `hls_jobs` is assumed to
  find its shard free in the end; DashMap's lock itself promises no order.
  ffmpeg need not end, clients need not stay or leave, time need not pass.
* *SegmentRender*: strong fairness of each call's steps taken together. The
  timers (20 s for ffmpeg, the queue's) run out, the lock is FIFO, file calls
  return. Nothing is asked of permits, ffmpeg, clients or the sweep.
* *EmbedResolve*: strong fairness of each request's steps taken together. Each
  await has a timeout (the permit's queue, an attempt's deadline, HTTP calls)
  or is a query of the local database; the lock is FIFO. So a permit need not
  come free, and the stagger need not run out. Clients and upstreams owe
  nothing.
* *MediaStream*: weak fairness of the server's steps for a response (`Serve`:
  the runtime polls what is ready, and the queue has a timeout), of its
  deadline's passing, and that ffmpeg exits once it has closed its output. The client need
  not pull, and ffmpeg need not write.
* *HomeBootstrap*: weak fairness of the refresh task, whose fetches have
  timeouts. Visitors need not come. The task may panic: nothing brings the flag down
  then, so `RefreshAgain` says "unless the last one panicked, or the process is
  restarted time and again".
* The other modules state safety only.

`RequestEnds` and `IdleKilled` are stated "unless `Wedged`": once a thread has
deadlocked on a shard (section 7), nobody who needs that shard ends.

## 7. Where the code does not keep its promises

Three runs show it:

1. **`streaming.rs:1076`: a failed job deadlocks its replacer.**
   `ensure_hls_transcode_job_locked` looks the job up with `hls_jobs.get`
   and keeps the `Ref`, a read lock on the shard; when the job has failed it
   calls `hls_jobs.remove` on the same key, which waits for the write lock of
   that shard. The comment at `tmdb.rs:238` warns of exactly this, and
   `local_torrent.rs:632` drops its Ref first. Run `HlsSelfDeadlock` gets
   there by the ordinary fallback to software after a hardware transcode has
   failed. (`RequestEnds` holds but for this.)
2. **`resolver.rs:5811`: a refresh may be answered with the dead URL.** The
   comment at `resolver.rs:1376` says that the eviction keeps a stale URL from
   being served on the recovery path. But the cache is shared by callers under
   different locks: one with other preferences that won its race before the
   eviction, and was recording the provider's health, stores its URL after it.
   Run `EmbedStale`. `RefreshSafe` shows that this is the only way: nothing
   stored before the eviction, or under the refresh's own lock, is served.
3. **`persistence.rs:3844`: a first start that is cut short loses the
   accounts.** The comment at `persistence.rs:3930` says that a re-run of the
   copy after a crash is harmless; there is none, because the file whose absence asks for it is
   made before the copy. Run `AccountsLost`. `SplitSafe` shows that the accounts are
   still in the cache file then, or beside it.

The exceptions that the passing properties name are the code's as well; each
is in the property's comment, and the more surprising ones are:

* append and count are not one step (`upload.rs:236`, against the comment at
  `upload.rs:225`): a handler dropped between them leaves bytes nobody counts,
  and the retry is written after them (`spoiled`);
* a write or `set_len` of a dropped append goes on without the chunk lock and may
  mix with the next append, or cut off bytes of it that were acknowledged
  (`upload.rs:1349`, `1362`, against the same comment; `overtaken`);
* a refresh of the home page that panics leaves `refresh_in_flight` set, and the page is
  not refreshed again until a restart (`home_bootstrap.rs:101`, `127`);
* an `addMagnet` whose answer is lost leaves a torrent on the user's account
  (`resolver.rs:2693`; `spared`);
* the rename of a dropped handler goes on without `LOCAL_LIBRARY_LOCK`
  (`library.rs:139`) and may undo another upload's entry, which the test at
  `library.rs:525` says is not lost;
* an older progress of a sync overwrites a newer one (`routes.rs:3564`);
* the quota of the torrent cache does not see a torrent that is not laid out
  yet, another file of the same torrent, or a download begun by a stream of an old row;
* a card is replaced by a DELETE and an INSERT in two commits: a request cut off
  between them leaves the series without a card, two at once may leave two;
* a remux whose ffmpeg fails ends its body as a whole one does;
* of a rolling playlist, `#EXT-X-KEY` and `#EXT-X-MAP` lines go with the blocks that are
  cut from its front (`live.rs:1967-2000`);
* an index's answer is stored before it is parsed, so an unreadable one is kept
  and used unasked; a resolve whose pinned torrent Torrentio does not list is refused if
  Torznab fails, although Torrentio's candidates are there;
* the metadata of a series that is read often enough is never fetched again;
  a SELECT and the DELETE after it may delete a row stored between them;
* a subtitle file is written in place, and one that was cut off is served until
  it is out of date; a probe row survives the file it is about.

## 8. What is left out, and why

* The components marked `not_modelled` in `PROJECT.json`: accounts and mail are
  outside the scope of this development; the registry, configuration and
  playback optimisation are look-ups; the frontend and the mobile app are
  programs of their own, of which only what they send is an input here.
* In the modelled ones: what a segment contains in `HlsTranscode`, the
  arguments of ffmpeg, metrics, logging, HTTP details and byte ranges, scores of
  sources and the parsing of titles, pages and subtitle texts, the merging of
  an episode into its series (one entry here), `twitch.rs`, the path of
  `cache_direct_file`, which nothing calls.
* Steps that are simplified without a property depending on it: the order of the
  completion marker and the exit code inside the child mutex
  (`streaming.rs:1235-1237`); the rename of a corrupt cache and the removal of its
  `-wal` and `-shm` files are one step (`persistence.rs:4036-4041`); an answer of
  TMDB without content is a failure or an answer like others (`tmdb.rs:100-102`);
  an error of the database while a stored search is looked up, which ends the call,
  is left out; in the live proxy, `#EXT-X-MAP` lines are left as they are, where the
  code rewrites any URI attribute (`live.rs:1997-2012`, `2088-2106`), whether a URL
  is proxied is decided by the playlist's host, in the code by each URL's own, and
  the PNG before a segment is always found and cut off (`live.rs:351-362`, `411`);
  a subtitle is fresh if it was made after the file was replaced, where the code
  compares modification times (`media.rs:1526`), and takes a text for fresh
  that was made from the file before, if the new one has an earlier time.
* Time is abstract: a timeout may come at any moment it is armed, an age is
  reached at any moment nobody prevents it, or a clock of a few ticks stands
  for it. So nothing depends on how long anything takes, and no property says
  how long.
* Memory order: the flags of a job are relaxed atomics, and the model reads
  and writes them in program order. It makes no difference: a reader looks at
  `exited` first and ignores the code while that is unset; once it is set, the
  code may be the old -1 or the new one, and the model has both.
