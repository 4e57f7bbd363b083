------------------------------ MODULE ContinueSource ------------------------------
(***************************************************************************)
(* Which source a card of "continue watching" is played from.  The card    *)
(* keeps what the player had; whenever it is stored or listed,             *)
(* reconcile_continue_watching_source_metadata of persistence.rs may put   *)
(* the latest working playback session of the same episode in its place.   *)
(***************************************************************************)
EXTENDS Integers

CONSTANTS
  Slot,      \* session keys of the title's rows
  Episode,   \* the slots of the card's episode; others may share its source
  Origin,    \* sources: torrents, of one episode or a whole season
  NoSlot, NoOrigin,
  MaxTime    \* bound on the accesses of rows

ASSUME SourceAssumption ==
  /\ Episode \subseteq Slot /\ NoSlot \notin Slot /\ NoOrigin \notin Origin
  /\ MaxTime \in Nat

VARIABLES
  sess,   \* rows of playback_sessions; at = 0 for no row
  now

sourceVars == <<sess, now>>

Provider == {"real-debrid", "local-torrent", "external-embed"}
NoSession == [hash |-> NoOrigin, provider |-> "", at |-> 0, valid |-> FALSE]
Sessions == [hash : Origin, provider : Provider, at : 1..MaxTime, valid : BOOLEAN]
              \cup {NoSession}
Cards == [slot : Slot \cup {NoSlot}, hash : Origin \cup {NoOrigin},
          provider : Provider \cup {""}]

SourceTypeOK == sess \in [Slot -> Sessions] /\ now \in 0..MaxTime

SourceInit == sess = [k \in Slot |-> NoSession] /\ now = 0
-----------------------------------------------------------------------------
Stored == {k \in Slot : sess[k].at > 0}
LatestOf(slots) == CHOOSE k \in slots : \A l \in slots : sess[l].at <= sess[k].at
CardOf(k) == [slot |-> k, hash |-> sess[k].hash, provider |-> sess[k].provider]

\* Mutant: also a session reported not to work.
ReusableAny == {k \in Stored : k \in Episode}

\* latest_continue_watching_playback_session_metadata
Reusable == {k \in Stored : k \in Episode /\ sess[k].valid}
Latest == LatestOf(Reusable)

\* continue_watching_playback_session_metadata_for_input: the row the card
\* came from, or the last with its source, of whichever episode.
Current(card) ==
  IF card.slot \in Stored THEN {card.slot}
  ELSE LET same == {k \in Stored : sess[k].hash = card.hash}
       IN  IF same = {} THEN {} ELSE {LatestOf(same)}

\* A card whose embed was chosen is not moved to a torrent.
EmbedChosen(card) ==
  card.provider = "external-embed" /\ sess[Latest].provider # "external-embed"

Bare(card) == card.slot = NoSlot /\ card.hash = NoOrigin /\ card.provider = ""

\* The conditions under which the candidate takes the card's place.
Replaces(card) ==
  \/ Bare(card)
  \/ card.slot = Latest \/ card.hash = sess[Latest].hash
  \/ \E k \in Current(card) : sess[Latest].at > sess[k].at
  \/ /\ Current(card) = {} /\ card.provider = "local-torrent"
     /\ sess[Latest].provider = "real-debrid"

Reconciled(card) ==
  IF Reusable # {} /\ ~EmbedChosen(card) /\ Replaces(card)
  THEN CardOf(Latest) ELSE card
-----------------------------------------------------------------------------
\* A resolve stores a session, or uses it again; a player reports that a
\* source failed, which marks all its rows; rows are trimmed.
Stamp(k, session) ==
  /\ now < MaxTime /\ now' = now + 1
  /\ sess' = [sess EXCEPT ![k] = [session EXCEPT !.at = now']]

StoreSession(k) ==
  \E session \in Sessions : session.valid /\ session.at = 1 /\ Stamp(k, session)

UseSession(k) == k \in Stored /\ Stamp(k, sess[k])

SourceFails(h) ==
  /\ now < MaxTime /\ now' = now + 1
  /\ sess' = [k \in Slot |-> IF sess[k].hash = h /\ sess[k].valid
                             THEN [sess[k] EXCEPT !.valid = FALSE, !.at = now']
                             ELSE sess[k]]

Trim(k) == sess' = [sess EXCEPT ![k] = NoSession] /\ UNCHANGED now

SourceNext ==
  \/ \E k \in Slot : StoreSession(k) \/ UseSession(k) \/ Trim(k)
  \/ \E h \in Origin : SourceFails(h)

SourceSpec == SourceInit /\ [][SourceNext]_sourceVars
-----------------------------------------------------------------------------
(***************************************************************************)
(* CardFollows: whatever the card says, it is moved to a session that      *)
(* works, of its own episode, and stays with it; to the latest such one if *)
(* its own was last used before, so that a resolve after a failure leads   *)
(* the card away from the failed source; and from an embed only to embeds. *)
(***************************************************************************)
CardFollows ==
  /\ SourceTypeOK
  /\ \A card \in Cards :
       LET new == Reconciled(card) IN
       /\ Reconciled(new) = new
       /\ new # card => new.slot \in Episode /\ sess[new.slot].valid
       /\ card.slot \in Stored =>
            \A k \in Episode \cap Stored :
              sess[k].valid /\ sess[k].at > sess[card.slot].at =>
                \/ sess[new.slot].valid /\ sess[new.slot].at >= sess[k].at
                \/ card.provider = "external-embed"
       /\ card.provider = "external-embed" => new.provider = "external-embed"
=============================================================================
