------------------------------ MODULE SourceRanking ------------------------------
(***************************************************************************)
(* select_top_movie_candidates and select_top_episode_candidates of        *)
(* resolver.rs: which torrents of those found are tried, and in which      *)
(* order.  The pool is what the filters of format, language, seeders and   *)
(* title leave, in the order of its scores: any order may come, so the     *)
(* scores themselves are left out.                                         *)
(***************************************************************************)
EXTENDS Integers, SequencesExt, Lists

CONSTANTS
  Torrent,     \* info hashes; several streams may be of one torrent
  Avoided,     \* those whose health may be at SOURCE_HEALTH_AVOID_SCORE
  NoTorrent,   \* nothing pinned
  Heights,     \* vertical resolutions; 0 is unknown, the stream says nothing
  Limits,      \* how many are wanted
  MaxPool      \* bound on the streams found

ASSUME RankingAssumption ==
  /\ Avoided \subseteq Torrent /\ NoTorrent \notin Torrent
  /\ Heights \subseteq Nat /\ Limits \subseteq Nat \ {0} /\ MaxPool \in Nat

VARIABLES
  pool,   \* the streams found
  wish    \* what is asked for, and the torrents that failed before

rankVars == <<pool, wish>>

Found == [hash : Torrent, mp4 : BOOLEAN, height : Heights]
\* A wish of height 0 is "auto"; mp4 says whether the MP4 rule applies: to every movie,
\* to an episode if MP4 is preferred, or if neither container nor source is.
Wish == [pinned : Torrent \cup {NoTorrent}, height : Heights \cup {0},
         mp4 : BOOLEAN, limit : Limits, avoid : SUBSET Avoided]

RankTypeOK == Range(pool) \subseteq Found /\ Len(pool) <= MaxPool /\ wish \in Wish

RankInit == pool = <<>> /\ wish \in Wish

Discover(s) ==
  /\ Len(pool) < MaxPool /\ pool' = Append(pool, s)
  /\ UNCHANGED wish

RankNext == \E s \in Found : Discover(s)
RankSpec == RankInit /\ [][RankNext]_rankVars
-----------------------------------------------------------------------------
Take(s) == SubSeq(s, 1, IF Len(s) < wish.limit THEN Len(s) ELSE wish.limit)
Healthy(s) == s.hash \notin wish.avoid
HashesOf(s) == {s[i].hash : i \in DOMAIN s}

\* push_unique_candidate over a list: of a torrent, the first stream.
Unique(list) ==
  LET firsts == Select([i \in DOMAIN list |-> i],
                       {i \in DOMAIN list : \A j \in 1 .. i - 1 : list[j].hash # list[i].hash})
  IN  [n \in DOMAIN firsts |-> list[firsts[n]]]

\* filter_streams_by_quality_preference: the first of these that has any.
OfQuality ==
  LET exact == Select(pool, {s \in Found : s.height = wish.height})
      lower == Select(pool, {s \in Found : s.height \in 1 .. wish.height})
      higher == Select(pool, {s \in Found : s.height > wish.height})
  IN  IF wish.height = 0 THEN pool
      ELSE IF exact # <<>> THEN exact
      ELSE IF lower # <<>> THEN lower
      ELSE IF higher # <<>> THEN higher ELSE pool

\* Mutant: only those that are within the limit are looked through.
PrioritizedHere ==
  LET base == Unique(Take(OfQuality))
      is == {s \in Found : s.hash = wish.pinned}
  IN  IF wish.pinned = NoTorrent THEN Take(OfQuality)
      ELSE Select(base, is) \o Select(base, Found \ is)

\* prioritize_candidates_by_source_hash: the pinned torrent first, wherever
\* it is in the ranking.
Prioritized ==
  LET base == Unique(Take(OfQuality))
      is == {s \in Found : s.hash = wish.pinned}
      pinned == Select(Unique(OfQuality), is)
  IN  IF wish.pinned = NoTorrent THEN Take(OfQuality)
      ELSE Take(Select(IF Select(base, is) # <<>> THEN base ELSE pinned, is)
                  \o Select(base, Found \ is))

\* The healthy MP4s by their resolution, otherwise in order
\* (compare_container_default_candidates, of one language and as many seeders).
DefaultMp4s ==
  LET good == Select(OfQuality, {s \in Found : s.mp4 /\ Healthy(s)})
  IN  Sorted(good, {p \in ToSet(good) \X ToSet(good) : p[1].height > p[2].height})

\* ensure_at_least_one_container_candidate: in the last one's place.
WithMp4(list) ==
  IF \/ list = <<>> \/ DefaultMp4s = <<>>
     \/ \E i \in DOMAIN list : list[i].mp4 /\ Healthy(list[i])
     \/ Head(DefaultMp4s).hash \in HashesOf(list)
  THEN list ELSE [list EXCEPT ![Len(list)] = Head(DefaultMp4s)]

\* move_container_candidates_to_front
Mp4ToFront(list) ==
  Select(list, {s \in Found : s.mp4}) \o Select(list, {s \in Found : ~s.mp4})

\* apply_mp4_default_candidate_rule, to what holds an MP4 if there is one
Mp4First(list) ==
  IF wish.pinned # NoTorrent \/ list = <<>> THEN list
  ELSE IF DefaultMp4s = <<>> THEN Mp4ToFront(list)
  ELSE Take(Unique(DefaultMp4s \o list))

Ranked == IF wish.mp4 THEN Mp4First(WithMp4(Prioritized)) ELSE Prioritized
-----------------------------------------------------------------------------
(***************************************************************************)
(* PickSound: something is tried if anything was found, within the limit,  *)
(* and nothing of a worse resolution than was found: the wanted one, else  *)
(* a lower one, else a higher one, and an unknown one only if no stream    *)
(* says its resolution.  A pinned source that is left after the filters is *)
(* tried first, unless it would be the only one and the MP4 rule puts      *)
(* another in its place; if nothing is pinned and the rule applies, a      *)
(* healthy MP4 is, if there is one.                                        *)
(***************************************************************************)
\* Best first: the resolutions that do for a wish.
Acceptable == <<{wish.height}, 1 .. wish.height, Heights \ {0}>>

Sound(list) ==
  LET first == Head(list) IN
  /\ list = <<>> <=> pool = <<>>
  /\ Len(list) <= wish.limit
  /\ wish.height # 0 =>
       \A i \in 1 .. 3 :
         (\E s \in Range(pool) : s.height \in Acceptable[i]) =>
           \A s \in Range(list) : s.height \in Acceptable[i]
  /\ wish.pinned \in HashesOf(OfQuality) =>
       first.hash = wish.pinned \/ (wish.mp4 /\ first.mp4 /\ Len(list) = 1)
  /\ wish.pinned = NoTorrent /\ wish.mp4 /\ DefaultMp4s # <<>> =>
       first.mp4 /\ Healthy(first)
PickSound == RankTypeOK /\ Sound(Ranked)
=============================================================================
