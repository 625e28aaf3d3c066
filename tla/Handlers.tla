------------------------------ MODULE Handlers ------------------------------
(* service/: the two consumers of the AMQP broker and the handlers they call, *)
(* which have a video transcoded, encrypted and recorded, and the catalog of  *)
(* a book extracted and recorded.  The broker, the RPC services for media and *)
(* cryptography, the file system and the database server are external: each   *)
(* call of them succeeds or fails.  The process may be killed at any point.   *)
EXTENDS Naturals

CONSTANTS
    Videos,     \* messages of the queue of videos; each has a fresh key made for it
    Target,     \* Target[m]: its video_target_path
    Dir,        \* Dir[t]: the directory that holds the target's
    Segments,   \* names of .ts files
    Epubs,      \* messages of the queue of books
    Book,       \* Book[m]: its book_path
    Rows,       \* rows of the two tables
    Row,        \* Row[m]: the row with the number that StringAsValue makes of m's target_id or
                \* book_id, whose failure is ignored; None if there is no such row
    Backlogs,   \* sets of messages the broker may hold
    MaxCrashes, \* bound on the crashes
    None

Targets == {Target[m] : m \in Videos}
Dirs == {Dir[t] : t \in Targets}
Books == {Book[m] : m \in Epubs}
Files == Segments \cup {"mp4", "video.key", "m3u8"}

ASSUME HandlersAssumption ==
    /\ None \notin Videos \cup Epubs \cup Rows
    /\ None \notin [msg : Epubs, whole : BOOLEAN]
    /\ None \notin [Files -> Videos \cup {None}]
    /\ \A q \in Backlogs : q \subseteq Videos \cup Epubs
    /\ \A m \in Videos \cup Epubs : Row[m] \in Rows \cup {None}

VARIABLES
    queue,      \* the messages that no callback has been called for
    sent,       \* those of them that the broker has sent: they wait in the client
    handled,    \* the messages whose callback has returned
    lost,       \* the messages the process had when it ended
    video,      \* the thread that consumes videos: where it is, in which message
    epub,       \* the thread that consumes books
    orig,       \* orig[t]: the .ts files in video_target_path
    made,       \* made[m]: the ones the playlist made for m lists
    enc,        \* enc[d]: None, or the key each file of d's directory enc is encrypted with
    begun,      \* begun[d]: the last message for which enc was replaced
    unnoticed,  \* the messages for which a failed read or write went unnoticed
    target,     \* target[r]: the message whose paths and keys the row has
    catalog,    \* catalog[b]: the message its .info file is from, and whether it is whole
    book,       \* book[r]: the message whose path the row has
    crashes
mail == <<queue, sent, handled, lost>>
disk == <<orig, made, enc, begun, unnoticed>>
vars == <<mail, video, epub, disk, target, catalog, book, crashes>>

Idle == [at |-> "idle", msg |-> None, todo |-> {}]
NoFiles == [n \in Files |-> None]

Init ==
    /\ queue \in Backlogs /\ sent = {} /\ handled = {} /\ lost = {}
    /\ video = Idle /\ epub = Idle
    /\ orig = [t \in Targets |-> {}] /\ made = [m \in Videos |-> {}]
    /\ enc = [d \in Dirs |-> None] /\ begun = [d \in Dirs |-> None]
    /\ unnoticed = {}
    /\ target = [r \in Rows |-> None]
    /\ catalog = [b \in Books |-> None] /\ book = [r \in Rows |-> None]
    /\ crashes = 0

(* --------------------------------- messages ------------------------------- *)

\* With noack and no limit on what it sends ahead, the broker sends what it has when it
\* likes and forgets it.
Deliver(m) ==
    /\ m \in queue \ sent
    /\ sent' = sent \cup {m}
    /\ UNCHANGED <<queue, handled, lost, video, epub, disk, target, catalog, book, crashes>>

\* The event loop calls a consumer's callback, which is in Handle or has returned.
Take(m) == queue' = queue \ {m} /\ sent' = sent \ {m}

msg == video.msg
dir == Dir[Target[msg]]
Go(at) == video' = [video EXCEPT !.at = at, !.todo = {}] /\ UNCHANGED <<mail, epub>>
\* Faulty variant: the callback is called once.
DoneOnce ==
    /\ video' = [Idle EXCEPT !.at = "stopped"] /\ handled' = handled \cup {msg}
    /\ UNCHANGED <<queue, sent, lost, epub>>

\* Handle returns; the consumer ignores its status and waits for the next message.
Done ==
    /\ video' = Idle /\ handled' = handled \cup {msg}
    /\ UNCHANGED <<queue, sent, lost, epub>>
EpubDone ==
    /\ epub' = Idle /\ handled' = handled \cup {epub.msg}
    /\ UNCHANGED <<queue, sent, lost, video>>
\* A failed DCHECK ends the process, with all that both threads and the client had; it is
\* started again.
Die ==
    /\ video' = Idle /\ epub' = Idle
    /\ queue' = queue \ sent /\ sent' = {}
    /\ lost' = lost \cup sent \cup ({video.msg, epub.msg} \ {None})
    /\ UNCHANGED handled

(* --------------------------- files and directories ------------------------ *)

SetEnc(files) == enc' = [enc EXCEPT ![dir] = files]
Put(n) == SetEnc([enc[dir] EXCEPT ![n] = msg])

\* DeleteFile(enc_path, true): unlinks file after file in the order of the directory, then
\* removes it, and stops at the first failure, which a DCHECK around the call turns into
\* the end of the process.
DeleteFile(then) ==
    \/ /\ \E n \in Files : enc[dir][n] # None /\ SetEnc([enc[dir] EXCEPT ![n] = None])
       /\ UNCHANGED <<mail, video, epub>>
    \/ /\ enc[dir] = NoFiles /\ SetEnc(None)
       /\ IF then = "idle" THEN Done ELSE Go(then)
    \/ Die /\ UNCHANGED enc

\* WriteFile inside a DCHECK, which takes its -1 for true: the file may be missing or torn
\* and the handler goes on.
WriteFile(n, then) ==
    \/ Put(n) /\ Go(then) /\ UNCHANGED unnoticed
    \/ Go(then) /\ unnoticed' = unnoticed \cup {msg} /\ (Put(n) \/ UNCHANGED enc)

(* ------------------------- RpcTranscoderServiceHandler -------------------- *)

\* Text that is no JSON is INVALID_ARGUMENT; a member that is missing ends the process.
ReceiveVideo(v) ==
    /\ video = Idle /\ v \in sent
    /\ \/ /\ Take(v) /\ video' = [Idle EXCEPT !.at = "keys", !.msg = v]
          /\ UNCHANGED <<handled, lost, epub>>
       \/ Take(v) /\ handled' = handled \cup {v} /\ UNCHANGED <<lost, video, epub>>
       \/ Die
    /\ UNCHANGED <<disk, target, catalog, book, crashes>>

\* CreateSymmetricKey and CreateKeyPair; a failure of either returns INTERNAL.
CreateKeys ==
    /\ video.at = "keys"
    /\ Go("transcode") \/ Done
    /\ UNCHANGED <<disk, target, catalog, book, crashes>>

\* The stream of the transcoder's answers ends with its status; a failure may leave files.
\* An answer without numbers ends the process.
Transcode ==
    /\ video.at = "transcode"
    /\ \E made_ \in SUBSET Segments :
         /\ orig' = [orig EXCEPT ![Target[msg]] = @ \cup made_]
         /\ \/ made' = [made EXCEPT ![msg] = made_] /\ Go("enter")
            \/ Done /\ UNCHANGED made
            \/ Die /\ UNCHANGED made
    /\ UNCHANGED <<enc, begun, unnoticed, target, catalog, book, crashes>>

Listing == video' = [video EXCEPT !.at = "encrypt", !.todo = orig[Target[msg]]] /\ UNCHANGED <<mail, epub>>

\* Faulty variant: an old directory enc is kept.
EnterEncKept ==
    /\ video.at = "enter"
    /\ begun' = [begun EXCEPT ![dir] = msg]
    /\ IF enc[dir] # None THEN Listing ELSE Go("create")
    /\ UNCHANGED <<orig, made, enc, unnoticed, target, catalog, book, crashes>>

\* If there is an enc already, it is deleted.
EnterEnc ==
    /\ video.at = "enter"
    /\ begun' = [begun EXCEPT ![dir] = msg]
    /\ IF enc[dir] # None THEN Go("delete") ELSE Go("create")
    /\ UNCHANGED <<orig, made, enc, unnoticed, target, catalog, book, crashes>>
DeleteOld ==
    /\ video.at = "delete"
    /\ DeleteFile("create")
    /\ UNCHANGED <<orig, made, begun, unnoticed, target, catalog, book, crashes>>
\* CreateDirectory and SetPosixFilePermissions, and the DirReader that is then opened.
CreateEnc ==
    /\ video.at = "create"
    /\ \/ SetEnc(NoFiles) /\ Listing
       \/ Die /\ (SetEnc(NoFiles) \/ UNCHANGED enc)
    /\ UNCHANGED <<orig, made, begun, unnoticed, target, catalog, book, crashes>>

Encrypted(s) == video' = [video EXCEPT !.todo = @ \ {s}] /\ UNCHANGED <<mail, epub>>

\* Faulty variant: the status of the call is not looked at.
EncryptSegmentUnchecked(s) ==
    /\ video.at = "encrypt" /\ s \in video.todo
    /\ (Put(s) \/ UNCHANGED enc) /\ Encrypted(s)
    /\ UNCHANGED <<orig, made, begun, unnoticed, target, catalog, book, crashes>>

\* CbcEncryptFile for every .ts file; a failure may leave a part of the file, and then enc
\* is deleted again.
EncryptSegment(s) ==
    /\ video.at = "encrypt" /\ s \in video.todo
    /\ \/ Put(s) /\ Encrypted(s)
       \/ (Put(s) \/ UNCHANGED enc) /\ Go("clean")
    /\ UNCHANGED <<orig, made, begun, unnoticed, target, catalog, book, crashes>>
\* EcbEncryptFile for the source, once DirReader::Next has returned false: there are no more
\* files, or it could not read on.
EncryptSource ==
    /\ video.at = "encrypt"
    /\ unnoticed' = IF video.todo = {} THEN unnoticed ELSE unnoticed \cup {msg}
    /\ \/ Put("mp4") /\ Go("key")
       \/ (Put("mp4") \/ UNCHANGED enc) /\ Go("clean")
    /\ UNCHANGED <<orig, made, begun, target, catalog, book, crashes>>
CleanUp ==
    /\ video.at = "clean"
    /\ DeleteFile("idle")
    /\ UNCHANGED <<orig, made, begun, unnoticed, target, catalog, book, crashes>>

WriteKey ==
    /\ video.at = "key"
    /\ WriteFile("video.key", "cipher")
    /\ UNCHANGED <<orig, made, begun, target, catalog, book, crashes>>

\* PublicKeyEncrypt; this failure leaves enc behind.
EncryptPath ==
    /\ video.at = "cipher"
    /\ Go("m3u8") \/ Done
    /\ UNCHANGED <<disk, target, catalog, book, crashes>>
\* The playlist is read, which must succeed, pointed to enc and the key, and written.
WritePlaylist ==
    /\ video.at = "m3u8"
    /\ \/ WriteFile("m3u8", "update")
       \/ Die /\ UNCHANGED <<enc, unnoticed>>
    /\ UNCHANGED <<orig, made, begun, target, catalog, book, crashes>>

\* UPDATE t_isli_target: a DBException is only logged, and the status is OK either way; a
\* connection that cannot be opened ends the process.
UpdateTarget ==
    /\ video.at = "update"
    /\ \/ Done /\ Row[msg] \in Rows /\ target' = [target EXCEPT ![Row[msg]] = msg]
       \/ (Done \/ Die) /\ UNCHANGED target
    /\ UNCHANGED <<disk, catalog, book, crashes>>

(* -------------------------- RpcEpubInfoServiceHandler --------------------- *)

\* With neither member the status is INVALID_ARGUMENT, as with what is no JSON; with one of
\* them missing the process ends.
ReceiveEpub(e) ==
    /\ epub = Idle /\ e \in sent
    /\ \/ /\ Take(e) /\ epub' = [Idle EXCEPT !.at = "catalog", !.msg = e]
          /\ UNCHANGED <<handled, lost, video>>
       \/ Take(e) /\ handled' = handled \cup {e} /\ UNCHANGED <<lost, video, epub>>
       \/ Die
    /\ UNCHANGED <<disk, target, catalog, book, crashes>>

\* EpubInfoServiceImpl::GetEpubCatalog: no such file, no epub, or the catalog is written
\* over the old one, in which it may fail half way.
GetEpubCatalog(e, ok) ==
    \/ ~ok /\ UNCHANGED catalog
    \/ catalog' = [catalog EXCEPT ![Book[e]] = [msg |-> e, whole |-> ok]]
\* The call; its answer may also get lost.
CallEpubService ==
    /\ epub.at = "catalog"
    /\ \/ /\ GetEpubCatalog(epub.msg, TRUE) /\ epub' = [epub EXCEPT !.at = "update"]
          /\ UNCHANGED <<mail, video>>
       \/ \E ok \in BOOLEAN : GetEpubCatalog(epub.msg, ok) /\ EpubDone
    /\ UNCHANGED <<disk, target, book, crashes>>
\* UPDATE t_book: every exception is caught; a connection that cannot be opened ends the
\* process.
UpdateBook ==
    /\ epub.at = "update"
    /\ \/ EpubDone /\ Row[epub.msg] \in Rows /\ book' = [book EXCEPT ![Row[epub.msg]] = epub.msg]
       \/ (EpubDone \/ Die) /\ UNCHANGED book
    /\ UNCHANGED <<disk, target, catalog, crashes>>

(* ------------------------------ specification ----------------------------- *)

\* The process is killed and started again.
Crash ==
    /\ crashes < MaxCrashes /\ crashes' = crashes + 1
    /\ Die
    /\ UNCHANGED <<disk, target, catalog, book>>

VideoStep ==
    \/ CreateKeys
    \/ Transcode
    \/ EnterEnc
    \/ DeleteOld
    \/ CreateEnc
    \/ \E s \in Segments : EncryptSegment(s)
    \/ EncryptSource
    \/ CleanUp
    \/ WriteKey
    \/ EncryptPath
    \/ WritePlaylist
    \/ UpdateTarget
EpubStep == CallEpubService \/ UpdateBook

Next ==
    \/ \E m \in Videos \cup Epubs : Deliver(m)
    \/ \E v \in Videos : ReceiveVideo(v)
    \/ VideoStep
    \/ \E e \in Epubs : ReceiveEpub(e)
    \/ EpubStep
    \/ Crash

\* The broker sends what it has, the event loop takes what arrives, and the calls return:
\* none has a deadline, so the other services must answer.
Spec ==
    /\ Init /\ [][Next]_vars
    /\ WF_vars(\E m \in Videos \cup Epubs : Deliver(m))
    /\ WF_vars(\E v \in Videos : ReceiveVideo(v)) /\ WF_vars(VideoStep)
    /\ WF_vars(\E e \in Epubs : ReceiveEpub(e)) /\ WF_vars(EpubStep)

(* ------------------------------- properties ------------------------------- *)

\* The files of one enc are never encrypted with two keys, whichever messages for the same
\* target or for its siblings failed, were abandoned or cut short by a crash before.
OneKeyPerDirectory ==
    \A x \in Dirs : enc[x] # None =>
        \A i, j \in Files : enc[x][i] # None /\ enc[x][j] # None => enc[x][i] = enc[x][j]

\* A row of t_isli_target has the keys of a playlist that can be played: everything it lists
\* is there and encrypted with that key; unless reading the directory or a write has failed,
\* which nobody notices, and only until enc is replaced for another message, of the same
\* target or a sibling, which leaves the row with a playlist that is gone.  A row of t_book has
\* the path of a catalog, which is whole unless a later message for the book has torn it.
RecordedIsComplete ==
    /\ \A r \in Rows : LET k == target[r]  d == Dir[Target[k]] IN
         k # None /\ k \notin unnoticed /\ begun[d] = k =>
             /\ enc[d] # None
             /\ \A n \in made[k] \cup {"mp4", "video.key", "m3u8"} : enc[d][n] = k
    /\ \A r \in Rows : LET k == book[r]  c == catalog[Book[k]] IN
         k # None => c # None /\ (c.msg = k => c.whole)

\* Every message comes to an end: its callback returns, however its handling fails, or the
\* process ends that had it.  What the broker had not sent then is handled by the next
\* process; nothing disappears or is handled for ever.
EveryMessageEnds ==
    \A x \in Videos \cup Epubs :
        x \in queue \/ x \in {video.msg, epub.msg} ~> x \in handled \cup lost
=============================================================================
