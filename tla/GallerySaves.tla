----------------------------- MODULE GallerySaves -----------------------------
(***************************************************************************)
(* upload.rs beside the chunked sessions: saving a stream to the gallery   *)
(* (queue_gallery_save and the background task it spawns) and the direct   *)
(* upload of a file.  Both write a temporary file, make a video under      *)
(* videos/ of it and enter that into the library, in place of the entry    *)
(* there is for the same film or episode.  The library is changed in one   *)
(* step here (LocalLibrary has the steps); names of files are unique.      *)
(***************************************************************************)
EXTENDS Naturals, FiniteSets

CONSTANTS
  Item,   \* films and episodes
  JobOf,  \* JobOf[i]: the key gallery_jobs knows item i by
  Save,   \* requests for a save, with their task, and their files
  Form,   \* direct uploads, and their files
  NoItem

ASSUME GalleryAssumption ==
  Save \cap Form = {} /\ NoItem \notin Item \cup Save \cup Form

VARIABLES
  galleryJobs, \* UploadService.gallery_jobs
  work,        \* what a save or an upload does, and of which item
  part,        \* files in upload_temp_dir: which of whom, and whether whole
  videos,      \* files in videos/, likewise
  shelf,       \* the library: shelf[i] the file of item i
  raced,       \* history: keys entered by two requests at the same time
  torn         \* history: broken streams, dropped uploads, restarts

galleryVars == <<galleryJobs, work, part, videos, shelf, raced, torn>>
Worker == Save \cup Form
AtRest == [pc |-> "rest", item |-> NoItem]
NoFile == "none"

Works == [Worker -> [pc : {"rest", "insert", "get", "write", "rename", "enter",
                           "unqueue", "over"},
                     item : Item \cup {NoItem}]]
GalleryTypeOK ==
  /\ galleryJobs \subseteq {JobOf[i] : i \in Item} /\ raced \subseteq {JobOf[i] : i \in Item}
  /\ work \in Works
  /\ part \in [Worker -> {NoFile, "piece", "whole"}]
  /\ videos \in [Worker -> {NoFile, "piece", "whole"}] /\ torn \subseteq Worker
  /\ shelf \in [Item -> Worker \cup {NoItem}]

GalleryInit ==
  /\ galleryJobs = {} /\ raced = {} /\ torn = {}
  /\ work = [w \in Worker |-> AtRest]
  /\ part = [w \in Worker |-> NoFile] /\ videos = part
  /\ shelf = [i \in Item |-> NoItem]

WorkAt(w, p) == work[w].pc = p
Proceed(w, p) == work' = [work EXCEPT ![w].pc = p]
Job(s) == JobOf[work[s].item]

\* The tasks that save under the key j.
Saving(j) == {s \in Save : /\ work[s].pc \in {"get", "write", "rename", "enter", "unqueue"}
                           /\ Job(s) = j}
-----------------------------------------------------------------------------
\* queue_gallery_save: a key that is there is answered alreadyQueued ...
AlreadyQueued(s, i) ==
  /\ WorkAt(s, "rest") /\ JobOf[i] \in galleryJobs
  /\ work' = [work EXCEPT ![s] = [pc |-> "over", item |-> i]]
  /\ UNCHANGED <<galleryJobs, part, videos, shelf, raced, torn>>

QueueSave(s, i) ==
  /\ WorkAt(s, "rest") /\ JobOf[i] \notin galleryJobs
  /\ work' = [work EXCEPT ![s] = [pc |-> "insert", item |-> i]]
  /\ UNCHANGED <<galleryJobs, part, videos, shelf, raced, torn>>

\* ... else it is entered, in a second step, and the task spawned.
InsertJob(s) ==
  /\ WorkAt(s, "insert")
  /\ galleryJobs' = galleryJobs \cup {Job(s)}
  /\ raced' = raced \cup {j \in {Job(s)} :
       \E t \in Save \ {s} : WorkAt(t, "insert") /\ Job(t) = j}
  /\ Proceed(s, "get")
  /\ UNCHANGED <<part, videos, shelf, torn>>

\* save_playable_stream_to_gallery: the answer is good, or the task ends.
GetStream(s) ==
  /\ WorkAt(s, "get") /\ s \in Save
  /\ \/ Proceed(s, "write") /\ part' = [part EXCEPT ![s] = "piece"]
     \/ Proceed(s, "unqueue") /\ UNCHANGED part
  /\ UNCHANGED <<galleryJobs, videos, shelf, raced, torn>>

\* parse_multipart_upload
ReceiveFile(u, i) ==
  /\ WorkAt(u, "rest")
  /\ work' = [work EXCEPT ![u] = [pc |-> "write", item |-> i]]
  /\ part' = [part EXCEPT ![u] = "piece"]
  /\ UNCHANGED <<galleryJobs, videos, shelf, raced, torn>>

After(w) == IF w \in Save THEN "unqueue" ELSE "over"

WriteAll(w) ==
  /\ WorkAt(w, "write")
  /\ part' = [part EXCEPT ![w] = "whole"]
  /\ Proceed(w, "rename")
  /\ UNCHANGED <<galleryJobs, videos, shelf, raced, torn>>

\* max_upload_bytes is reached.
TooLarge(w) ==
  /\ WorkAt(w, "write")
  /\ part' = [part EXCEPT ![w] = NoFile]
  /\ Proceed(w, After(w))
  /\ UNCHANGED <<galleryJobs, videos, shelf, raced, torn>>

\* Mutant: the end of a broken stream is taken for the end of the file.
TearUnnoticed(w) ==
  /\ WorkAt(w, "write")
  /\ Proceed(w, "rename")
  /\ UNCHANGED <<galleryJobs, part, videos, shelf, raced, torn>>

\* The stream, the disk or the rename fails: the file is left as it is.
Tear(w) ==
  /\ work[w].pc \in {"write", "rename"} /\ (WorkAt(w, "rename") => w \in Save)
  /\ torn' = torn \cup {w}
  /\ Proceed(w, After(w))
  /\ UNCHANGED <<galleryJobs, part, videos, shelf, raced>>

\* An upload's file that is empty, or cannot be converted, is removed.
Reject(u) ==
  /\ WorkAt(u, "rename") /\ u \in Form
  /\ part' = [part EXCEPT ![u] = NoFile]
  /\ Proceed(u, "over")
  /\ UNCHANGED <<galleryJobs, videos, shelf, raced, torn>>

\* Renamed, or converted, into videos/; an upload perhaps then re-encoded.
ToVideos(w) ==
  /\ WorkAt(w, "rename")
  /\ videos' = [videos EXCEPT ![w] = part[w]]
  /\ part' = [part EXCEPT ![w] = NoFile]
  /\ Proceed(w, "enter")
  /\ UNCHANGED <<galleryJobs, shelf, raced, torn>>

\* mutate_local_library with upsert_movie_entry_in_library or the episodes';
\* if it fails the video stays.
EnterShelf(w) ==
  /\ WorkAt(w, "enter")
  /\ \/ shelf' = [shelf EXCEPT ![work[w].item] = w] /\ UNCHANGED torn
     \/ torn' = torn \cup {w} /\ UNCHANGED shelf
  /\ Proceed(w, After(w))
  /\ UNCHANGED <<galleryJobs, part, videos, raced>>

\* Mutant: the key is only removed if it went well.
UnqueueSaved(s) ==
  /\ WorkAt(s, "unqueue")
  /\ galleryJobs' = IF videos[s] = NoFile THEN galleryJobs
                    ELSE galleryJobs \ {Job(s)}
  /\ Proceed(s, "over")
  /\ UNCHANGED <<part, videos, shelf, raced, torn>>

\* The end of the task, however it went.
Unqueue(s) ==
  /\ WorkAt(s, "unqueue")
  /\ galleryJobs' = galleryJobs \ {Job(s)}
  /\ Proceed(s, "over")
  /\ UNCHANGED <<part, videos, shelf, raced, torn>>

\* The handler of an upload is dropped with its client; a task is not.
DropUpload(u) ==
  /\ u \in Form /\ work[u].pc \in {"write", "rename", "enter"}
  /\ torn' = torn \cup {u}
  /\ Proceed(u, "over")
  /\ UNCHANGED <<galleryJobs, part, videos, shelf, raced>>

RestartUploads ==
  /\ galleryJobs' = {} /\ raced' = {}
  /\ torn' = torn \cup {w \in Worker : work[w].pc \notin {"rest", "over"}}
  /\ work' = [w \in Worker |->
       IF WorkAt(w, "rest") THEN work[w] ELSE [work[w] EXCEPT !.pc = "over"]]
  /\ UNCHANGED <<part, videos, shelf>>

GalleryNext ==
  \/ \E s \in Save, i \in Item : AlreadyQueued(s, i) \/ QueueSave(s, i)
  \/ \E u \in Form, i \in Item : ReceiveFile(u, i)
  \/ \E s \in Save : InsertJob(s) \/ GetStream(s) \/ Unqueue(s)
  \/ \E w \in Worker : \/ WriteAll(w) \/ TooLarge(w) \/ Tear(w)
                       \/ ToVideos(w) \/ EnterShelf(w)
  \/ \E u \in Form : Reject(u) \/ DropUpload(u)
  \/ RestartUploads

GallerySpec == GalleryInit /\ [][GalleryNext]_galleryVars
-----------------------------------------------------------------------------
\* A key is in the table exactly while a task saves under it, and one task
\* only; unless two requests got past the look at the table together.
OneSave ==
  \A j \in {JobOf[i] : i \in Item} \ raced :
    /\ Cardinality(Saving(j)) <= 1
    /\ j \in galleryJobs <=> Saving(j) # {}

\* A temporary file, or a video that is not shown (nor replaced by another
\* of the same film), stays only where its writer was cut off.
Explained ==
  \A w \in Worker \ torn :
    work[w].pc \in {"rest", "over"} => /\ part[w] = NoFile
                                       /\ videos[w] = NoFile \/ shelf[work[w].item] # NoItem

(***************************************************************************)
(* GalleryInv: what the shelf shows is a whole file in videos/; a stream   *)
(* is saved by one task at a time, and its key is free again whatever      *)
(* becomes of the task; temporary files stay only from broken streams,     *)
(* dropped uploads and restarts.                                           *)
(***************************************************************************)
GalleryInv ==
  /\ GalleryTypeOK /\ OneSave /\ Explained
  /\ \A i \in Item : shelf[i] # NoItem => videos[shelf[i]] = "whole"
=============================================================================
