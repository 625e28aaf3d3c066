---------------------------- MODULE HandlersProofs ----------------------------
(***************************************************************************)
(* OneKeyPerDirectory and RecordedIsComplete of Handlers, for any set of   *)
(* messages, targets, directories and segments, and any number of crashes. *)
(*                                                                         *)
(* Neither is inductive.  The argument is about ownership: from EnterEnc   *)
(* on, the directory enc belongs to the message in hand (Owner), which is  *)
(* a message that no row of the database names yet, because no message is  *)
(* taken twice (Fresh).  So what the thread does to enc concerns no row    *)
(* that still promises something, and when it comes to the UPDATE all that *)
(* the playlist lists has been written with the key of this message        *)
(* (Progress).  The same goes for catalogs: what is written over for the   *)
(* message in hand is in no row as that message's.                         *)
(***************************************************************************)
EXTENDS Handlers, TLAPS

Stages == {"idle", "keys", "transcode", "enter", "delete", "create", "encrypt", "clean", "key",
           "cipher", "m3u8", "update"}
\* The stages in which the thread has enc to itself, ...
Owning == {"delete", "create", "encrypt", "clean", "key", "cipher", "m3u8", "update"}
\* ... in which there is an enc, in which it is the new one, ...
Present == {"delete", "encrypt", "clean", "key", "cipher", "m3u8", "update"}
Renewed == {"encrypt", "clean", "key", "cipher", "m3u8", "update"}
\* ... and in which its segments and the source have been encrypted.
Filled == {"key", "cipher", "m3u8", "update"}

VideoTypes ==
    /\ queue \subseteq Videos \cup Epubs /\ sent \subseteq queue
    /\ video \in [at : Stages, msg : Videos \cup {None}, todo : SUBSET Segments]
    /\ video.at # "idle" <=> video.msg # None
    /\ video.at = "idle" => video = Idle
    /\ orig \in [Targets -> SUBSET Segments] /\ made \in [Videos -> SUBSET Segments]
    /\ enc \in [Dirs -> [Files -> Videos \cup {None}] \cup {None}]
    /\ begun \in [Dirs -> Videos \cup {None}]
    /\ target \in [Rows -> Videos \cup {None}]

\* The broker sends a message once: the one in hand is not in the queue, and no row has the
\* key of a message that is still in either.
Fresh ==
    /\ video.msg \notin queue
    /\ \A r \in Rows : target[r] # None => target[r] \notin queue /\ target[r] # video.msg

Owner ==
    /\ video.at \in Owning => begun[dir] = msg
    /\ video.at \in Present => enc[dir] # None
    /\ video.at \in Renewed => \A n \in Files : enc[dir][n] \in {msg, None}

\* The files that are written after the segments, up to stage at.
Written(at) ==
    {"mp4"} \cup (IF at \in {"cipher", "m3u8", "update"} THEN {"video.key"} ELSE {})
            \cup (IF at = "update" THEN {"m3u8"} ELSE {})

Progress ==
    /\ video.at \in {"enter", "delete", "create"} => made[msg] \subseteq orig[Target[msg]]
    /\ video.at = "encrypt" => \A s \in made[msg] : s \in video.todo \/ enc[dir][s] = msg
    /\ video.at \in Filled /\ msg \notin unnoticed =>
           \A n \in made[msg] \cup Written(video.at) : enc[dir][n] = msg

\* RecordedIsComplete for the rows of targets.
DirOf(k) == Dir[Target[k]]
Playable(k) ==
    /\ enc[DirOf(k)] # None
    /\ \A n \in made[k] \cup {"mp4", "video.key", "m3u8"} : enc[DirOf(k)][n] = k
TargetsComplete ==
    \A r \in Rows :
        target[r] # None /\ begun[DirOf(target[r])] = target[r] /\ target[r] \notin unnoticed =>
            Playable(target[r])

VideoInv == VideoTypes /\ Fresh /\ Owner /\ Progress /\ TargetsComplete /\ OneKeyPerDirectory

\* The catalog of the book of message e is there, and whole if it is from e.
Catalogs == [msg : Epubs, whole : BOOLEAN]
Whole(e) ==
    /\ catalog[Book[e]] # None
    /\ catalog[Book[e]].msg = e => catalog[Book[e]].whole

EpubInv ==
    /\ epub \in [at : {"idle", "catalog", "update"}, msg : Epubs \cup {None}, todo : SUBSET Segments]
    /\ epub.at # "idle" => epub.msg \in Epubs
    /\ catalog \in [Books -> Catalogs \cup {None}]
    /\ book \in [Rows -> Epubs \cup {None}]
    /\ queue \subseteq Videos \cup Epubs /\ epub.msg \notin queue
    /\ \A r \in Rows : book[r] # None => book[r] \notin queue /\ book[r] # epub.msg
    /\ epub.at = "update" => Whole(epub.msg)
    /\ \A r \in Rows : book[r] # None => Whole(book[r])

Inv == VideoInv /\ EpubInv

-----------------------------------------------------------------------------
(* The frame: what a step that does little leaves as it was.               *)

USE DEF mail, disk, DirOf

\* The message in hand is a video's, its target and its directory are known.
LEMMA InHand ==
    ASSUME VideoTypes, video.at # "idle"
    PROVE  msg \in Videos /\ Target[msg] \in Targets /\ dir \in Dirs
BY DEF VideoTypes, msg, dir, Targets, Dirs

\* The thread goes on to another stage of the same message.
LEMMA GoesOn ==
    ASSUME VideoTypes, video.at # "idle", NEW stage \in Stages, stage # "idle",
           NEW rest \in SUBSET Segments,
           video' = [video EXCEPT !.at = stage, !.todo = rest]
    PROVE  /\ video' \in [at : Stages, msg : Videos \cup {None}, todo : SUBSET Segments]
           /\ video'.at = stage /\ video'.todo = rest /\ video'.msg = video.msg
           /\ msg' = msg /\ dir' = dir
BY DEF VideoTypes, msg, dir

\* The directory of a message is a directory.
LEMMA DirOfMessage == \A m \in Videos : DirOf(m) \in Dirs
BY DEF Targets, Dirs

\* A message is taken by calls and by ends of the process, and never put back.
LEMMA MailShrinks ==
    ASSUME VideoTypes, UNCHANGED mail \/ Done \/ EpubDone \/ Die \/ \E m : Take(m)
    PROVE  queue' \subseteq queue /\ sent' \subseteq queue'
BY DEF VideoTypes, Done, EpubDone, Die, Take

\* Steps of the other thread, and messages taken for it, concern no video.
LEMMA VideoKept ==
    ASSUME VideoInv, UNCHANGED <<video, orig, made, enc, begun, unnoticed, target>>,
           queue' \subseteq queue, sent' \subseteq queue'
    PROVE  VideoInv'
<1>1. VideoTypes' /\ Fresh'
  BY DEF VideoInv, VideoTypes, Fresh
<1>2. Owner' /\ Progress'
  BY DEF VideoInv, Owner, Progress, dir, msg
<1>3. TargetsComplete' /\ OneKeyPerDirectory'
  BY DEF VideoInv, TargetsComplete, Playable, OneKeyPerDirectory
<1> QED
  BY <1>1, <1>2, <1>3 DEF VideoInv

\* Handle may return, or the process end, at any point: what the message in hand has left
\* behind breaks nothing.
LEMMA VideoStops ==
    ASSUME VideoInv, video' = Idle, queue' \subseteq queue, sent' \subseteq queue',
           orig' \in [Targets -> SUBSET Segments],
           UNCHANGED <<made, enc, begun, unnoticed, target>>
    PROVE  VideoInv'
<1> USE HandlersAssumption
<1>1. VideoTypes' /\ Fresh'
  BY DEF VideoInv, VideoTypes, Fresh, Idle, Stages
<1>2. Owner' /\ Progress'
  BY DEF Owner, Progress, Idle, Owning, Present, Renewed, Filled
<1>3. TargetsComplete' /\ OneKeyPerDirectory'
  BY DEF VideoInv, TargetsComplete, Playable, OneKeyPerDirectory
<1> QED
  BY <1>1, <1>2, <1>3 DEF VideoInv

\* Steps of the other thread, and ends of the process, concern no book.
LEMMA EpubKept ==
    ASSUME EpubInv, epub' = epub \/ epub' = Idle, UNCHANGED <<catalog, book>>,
           queue' \subseteq queue
    PROVE  EpubInv'
<1>1. \A k : Whole(k) => Whole(k)'
  BY DEF Whole
<1>2. CASE epub' = epub
  BY <1>1, <1>2 DEF EpubInv
<1>3. CASE epub' = Idle
  <2>1. /\ epub' \in [at : {"idle", "catalog", "update"}, msg : Epubs \cup {None}, todo : SUBSET Segments]
        /\ epub'.at = "idle" /\ epub'.msg = None
    BY <1>3 DEF Idle
  <2>3. None \notin queue'
    BY HandlersAssumption DEF EpubInv
  <2> QED
    BY <1>1, <2>1, <2>3 DEF EpubInv
<1> QED
  BY <1>2, <1>3

\* Handle may return at any point.
LEMMA Returns ==
    ASSUME Inv, Done, UNCHANGED <<disk, target, catalog, book>>
    PROVE  Inv'
<1>1. queue' \subseteq queue /\ sent' \subseteq queue'
  BY MailShrinks DEF Inv, VideoInv
<1> QED
  BY <1>1, VideoStops, EpubKept DEF Inv, VideoInv, VideoTypes, Done

\* The process may end at any point.
LEMMA Dies ==
    ASSUME Inv, Die, UNCHANGED <<disk, target, catalog, book>>
    PROVE  Inv'
<1>1. queue' \subseteq queue /\ sent' \subseteq queue'
  BY MailShrinks DEF Inv, VideoInv
<1> QED
  BY <1>1, VideoStops, EpubKept DEF Inv, VideoInv, VideoTypes, Die

\* While a message owns enc, no row promises anything about this directory.
LEMMA OtherRows ==
    ASSUME VideoInv, video.at \in Owning, NEW files, SetEnc(files),
           UNCHANGED <<made, begun, target>>, unnoticed \subseteq unnoticed'
    PROVE  TargetsComplete'
<1>1. ASSUME NEW r \in Rows, target[r] # None, begun[DirOf(target[r])] = target[r]
      PROVE  DirOf(target[r]) # dir
  BY <1>1 DEF VideoInv, Fresh, Owner, msg
<1>2. ASSUME NEW r \in Rows, target[r] # None, DirOf(target[r]) # dir
      PROVE  enc'[DirOf(target[r])] = enc[DirOf(target[r])]
  BY <1>2, DirOfMessage DEF VideoInv, VideoTypes, SetEnc
<1> QED
  BY <1>1, <1>2 DEF VideoInv, TargetsComplete, Playable

\* The directory in hand holds files of one message only, or a part of what it held.
LEMMA OneKey ==
    ASSUME VideoInv, NEW files, SetEnc(files),
           \/ files = None
           \/ \A n \in Files : files[n] \in {msg, None}
           \/ enc[dir] # None /\ \A n \in Files : files[n] \in {enc[dir][n], None}
    PROVE  OneKeyPerDirectory'
<1> SUFFICES ASSUME NEW x \in Dirs, enc'[x] # None, NEW i \in Files, NEW j \in Files,
                    enc'[x][i] # None, enc'[x][j] # None
             PROVE  enc'[x][i] = enc'[x][j]
  BY DEF OneKeyPerDirectory
<1>1. CASE x = dir
  <2>1. enc'[x] = files
    BY <1>1 DEF VideoInv, VideoTypes, SetEnc
  <2> QED
    BY <1>1, <2>1 DEF VideoInv, OneKeyPerDirectory
<1>2. CASE x # dir
  <2>1. enc'[x] = enc[x]
    BY <1>2 DEF VideoInv, VideoTypes, SetEnc
  <2> QED
    BY <2>1 DEF VideoInv, OneKeyPerDirectory
<1> QED
  BY <1>1, <1>2

\* A step of the encryption: at most one file is written, with the key of the message in hand,
\* and nothing that was written with it is lost.
LEMMA Writes ==
    ASSUME VideoInv, video.at \in Renewed, NEW n \in Files, Put(n) \/ UNCHANGED enc,
           NEW stage \in Renewed, NEW rest \in SUBSET Segments,
           video' = [video EXCEPT !.at = stage, !.todo = rest],
           UNCHANGED <<mail, orig, made, begun, target>>, unnoticed \subseteq unnoticed'
    PROVE  /\ VideoTypes' /\ Fresh' /\ Owner' /\ TargetsComplete' /\ OneKeyPerDirectory'
           /\ msg' = msg /\ dir' = dir /\ video'.at = stage /\ video'.todo = rest
           /\ \A i \in Files : enc[dir][i] = msg => enc'[dir][i] = msg
           /\ Put(n) => enc'[dir][n] = msg
<1> USE HandlersAssumption
<1>1. msg \in Videos /\ Target[msg] \in Targets /\ dir \in Dirs
  BY InHand DEF VideoInv, Renewed
<1>2. msg' = msg /\ dir' = dir /\ video'.at = stage /\ video'.todo = rest
  BY DEF VideoInv, VideoTypes, msg, dir
<1>3. enc[dir] \in [Files -> Videos \cup {None}] /\ \A i \in Files : enc[dir][i] \in {msg, None}
  BY <1>1 DEF VideoInv, VideoTypes, Owner, Renewed, Present
<1>4. CASE Put(n)
  <2> DEFINE files == [enc[dir] EXCEPT ![n] = msg]
  <2>1. SetEnc(files)
    BY <1>4 DEF Put
  <2>2. files \in [Files -> Videos \cup {None}] /\ \A i \in Files : files[i] \in {msg, None}
    BY <1>1, <1>3
  <2>3. enc' \in [Dirs -> [Files -> Videos \cup {None}] \cup {None}] /\ enc'[dir] = files
    BY <1>1, <2>1, <2>2 DEF SetEnc, VideoInv, VideoTypes
  <2> HIDE DEF files
  <2>4. VideoTypes' /\ Fresh'
    BY <2>3 DEF VideoInv, VideoTypes, Fresh, Renewed, Stages
  <2>5. Owner'
    BY <1>2, <2>2, <2>3 DEF VideoInv, Owner, Renewed, Owning
  <2>6. TargetsComplete' /\ OneKeyPerDirectory'
    <3>1. video.at \in Owning
      BY DEF Renewed, Owning
    <3> QED
      BY <2>1, <2>2, <3>1, OtherRows, OneKey
  <2>7. files[n] = msg /\ \A i \in Files : enc[dir][i] = msg => files[i] = msg
    BY <1>3 DEF files
  <2> QED
    BY <1>2, <2>3, <2>4, <2>5, <2>6, <2>7
<1>5. CASE UNCHANGED enc
  <2>1. VideoTypes' /\ Fresh'
    BY <1>5 DEF VideoInv, VideoTypes, Fresh, Renewed, Stages
  <2>2. Owner'
    BY <1>2, <1>3, <1>5 DEF VideoInv, Owner, Renewed, Owning, Present
  <2>3. TargetsComplete' /\ OneKeyPerDirectory'
    BY <1>5 DEF VideoInv, TargetsComplete, Playable, OneKeyPerDirectory
  <2>4. Put(n) => enc'[dir][n] = msg
    BY <1>1, <1>3 DEF Put, SetEnc, VideoInv, VideoTypes
  <2> QED
    BY <1>2, <1>5, <2>1, <2>2, <2>3, <2>4
<1> QED
  BY <1>4, <1>5

\* DeleteFile: removes files, at last the directory, or ends the process.
LEMMA DeleteFileInv ==
    ASSUME VideoInv, video.at \in {"delete", "clean"}, NEW then \in {"idle", "create"},
           then = "create" => video.at = "delete", DeleteFile(then),
           UNCHANGED <<orig, made, begun, unnoticed, target>>
    PROVE  VideoInv' /\ (epub' = epub \/ epub' = Idle) /\ queue' \subseteq queue
<1> USE HandlersAssumption
<1>1. msg \in Videos /\ Target[msg] \in Targets /\ dir \in Dirs /\ video.at \in Owning
  BY InHand DEF VideoInv, Owning
<1>2. enc[dir] \in [Files -> Videos \cup {None}]
  BY <1>1 DEF VideoInv, VideoTypes, Owner, Present
<1>0. queue' \subseteq queue /\ sent' \subseteq queue'
  BY MailShrinks DEF VideoInv, DeleteFile, Go
<1>3. ASSUME NEW n \in Files, SetEnc([enc[dir] EXCEPT ![n] = None]), UNCHANGED <<video, epub>>
      PROVE  VideoInv'
  <2> DEFINE files == [enc[dir] EXCEPT ![n] = None]
  <2>1. files \in [Files -> Videos \cup {None}] /\ \A i \in Files : files[i] \in {enc[dir][i], None}
    BY <1>2
  <2>2. enc' \in [Dirs -> [Files -> Videos \cup {None}] \cup {None}] /\ enc'[dir] = files
    BY <1>1, <1>3, <2>1 DEF SetEnc, VideoInv, VideoTypes
  <2>3. TargetsComplete' /\ OneKeyPerDirectory'
    <3>1. SetEnc(files)
      BY <1>3
    <3>2. enc[dir] # None
      BY <1>2
    <3> HIDE DEF files
    <3> QED
      BY <1>1, <2>1, <3>1, <3>2, OtherRows, OneKey
  <2> HIDE DEF files
  <2>4. VideoTypes' /\ Fresh'
    BY <1>0, <1>3, <2>2 DEF VideoInv, VideoTypes, Fresh
  <2>5. msg' = msg /\ dir' = dir /\ enc'[dir] # None
    BY <1>3, <2>1, <2>2 DEF msg, dir
  <2>6. Owner' /\ Progress'
    BY <1>2, <1>3, <2>1, <2>2, <2>5 DEF VideoInv, Owner, Progress, Filled, Renewed
  <2> QED
    BY <2>3, <2>4, <2>6 DEF VideoInv
<1>4. ASSUME SetEnc(None), IF then = "idle" THEN Done ELSE Go(then)
      PROVE  VideoInv'
  <2>1. enc' \in [Dirs -> [Files -> Videos \cup {None}] \cup {None}]
    BY <1>1, <1>4 DEF SetEnc, VideoInv, VideoTypes
  <2>2. TargetsComplete' /\ OneKeyPerDirectory'
    BY <1>1, <1>4, OtherRows, OneKey
  <2>3. VideoTypes' /\ Fresh'
    <3>1. CASE then = "idle"
      BY <1>0, <1>4, <2>1, <3>1 DEF VideoInv, VideoTypes, Fresh, Stages, Idle, Done
    <3>2. CASE then = "create"
      <4>1. "create" \in Stages /\ {} \in SUBSET Segments
        BY DEF Stages
      <4>2. /\ video' \in [at : Stages, msg : Videos \cup {None}, todo : SUBSET Segments]
            /\ video'.at = "create" /\ video'.msg = video.msg
        BY <1>4, <3>2, <4>1, GoesOn DEF VideoInv, Go
      <4> QED
        BY <1>0, <2>1, <4>2 DEF VideoInv, VideoTypes, Fresh
    <3> QED
      BY <3>1, <3>2
  <2>4. Owner' /\ Progress'
    <3>1. CASE then = "idle"
      BY <1>4, <3>1 DEF Owner, Progress, Idle, Done, Owning, Present, Renewed, Filled
    <3>2. CASE then = "create"
      <4>0. "create" \in Stages /\ {} \in SUBSET Segments
        BY DEF Stages
      <4>1. msg' = msg /\ dir' = dir /\ video'.at = "create" /\ video.at = "delete"
        BY <1>4, <3>2, <4>0, GoesOn DEF VideoInv, Go
      <4> QED
        BY <4>1 DEF VideoInv, Owner, Progress, Owning, Present, Renewed, Filled
    <3> QED
      BY <3>1, <3>2
  <2> QED
    BY <2>2, <2>3, <2>4 DEF VideoInv
<1>5. ASSUME Die, UNCHANGED enc PROVE VideoInv'
  BY <1>0, <1>5, VideoStops DEF Die, VideoInv, VideoTypes
<1> QED
  BY <1>0, <1>3, <1>4, <1>5 DEF DeleteFile, Die, Done, Go

-----------------------------------------------------------------------------
(* One lemma per group of actions.                                         *)

\* The consumers' callbacks take a message out of the queue.
LEMMA ReceiveInv ==
    ASSUME Inv,
           \/ \E m \in Videos \cup Epubs : Deliver(m)
           \/ \E v \in Videos : ReceiveVideo(v)
           \/ \E e \in Epubs : ReceiveEpub(e)
    PROVE  Inv'
<1> USE HandlersAssumption
<1>0. ASSUME NEW m \in Videos \cup Epubs, Deliver(m) PROVE Inv'
  BY <1>0, VideoKept, EpubKept DEF Inv, VideoInv, VideoTypes, Deliver
<1>1. ASSUME NEW v \in Videos, ReceiveVideo(v) PROVE Inv'
  <2>0. v \in queue \/ ~Take(v)
    BY <1>1 DEF Inv, VideoInv, VideoTypes, ReceiveVideo
  <2>1. CASE Take(v) /\ video' = [Idle EXCEPT !.at = "keys", !.msg = v] /\ UNCHANGED epub
    <3>1. video'.at = "keys" /\ video'.msg = v /\ video'.todo = {}
      BY <2>1 DEF Idle
    <3>2. queue' \subseteq queue /\ sent' \subseteq queue' /\ v \notin queue' /\ v \in queue
      BY <2>0, <2>1, MailShrinks DEF Inv, VideoInv, Take
    <3>3. VideoTypes'
      BY <1>1, <2>1, <3>1, <3>2 DEF Inv, VideoInv, VideoTypes, ReceiveVideo, Stages, Idle
    <3>4. Fresh'
      BY <1>1, <3>1, <3>2 DEF Inv, VideoInv, Fresh, ReceiveVideo
    <3>5. Owner' /\ Progress'
      BY <3>1 DEF Owner, Progress, Owning, Present, Renewed, Filled
    <3>0. UNCHANGED <<made, enc, begun, unnoticed, target>>
      BY <1>1 DEF ReceiveVideo
    <3>6. TargetsComplete' /\ OneKeyPerDirectory'
      BY <3>0 DEF Inv, VideoInv, TargetsComplete, Playable, OneKeyPerDirectory
    <3>7. EpubInv'
      BY <1>1, <2>1, <3>2, EpubKept DEF Inv, ReceiveVideo
    <3> QED
      BY <3>3, <3>4, <3>5, <3>6, <3>7 DEF Inv, VideoInv
  <2>2. CASE Take(v) /\ UNCHANGED <<video, epub>>
    <3>1. queue' \subseteq queue /\ sent' \subseteq queue'
      BY <2>2, MailShrinks DEF Inv, VideoInv
    <3> QED
      BY <1>1, <2>2, <3>1, VideoKept, EpubKept DEF Inv, ReceiveVideo
  <2>3. CASE Die
    BY <1>1, <2>3, Dies DEF ReceiveVideo
  <2> QED
    BY <1>1, <2>1, <2>2, <2>3 DEF ReceiveVideo
<1>2. ASSUME NEW e \in Epubs, ReceiveEpub(e) PROVE Inv'
  <2>0. e \in queue \/ ~Take(e)
    BY <1>2 DEF Inv, VideoInv, VideoTypes, ReceiveEpub
  <2>1. CASE Take(e) /\ epub' = [Idle EXCEPT !.at = "catalog", !.msg = e] /\ UNCHANGED video
    <3>1. queue' \subseteq queue /\ sent' \subseteq queue' /\ e \notin queue' /\ e \in queue
      BY <2>0, <2>1, MailShrinks DEF Inv, VideoInv, Take
    <3>2. VideoInv'
      BY <1>2, <2>1, <3>1, VideoKept DEF Inv, ReceiveEpub
    <3>3. /\ epub'.at = "catalog" /\ epub'.msg = e
          /\ epub' \in [at : {"idle", "catalog", "update"}, msg : Epubs \cup {None}, todo : SUBSET Segments]
      BY <2>1 DEF Idle
    <3>0. UNCHANGED <<catalog, book>> /\ \A k : Whole(k) => Whole(k)'
      BY <1>2 DEF ReceiveEpub, Whole
    <3>4. EpubInv'
      BY <3>0, <3>1, <3>3 DEF Inv, EpubInv
    <3> QED
      BY <3>2, <3>4 DEF Inv
  <2>2. CASE Take(e) /\ UNCHANGED <<video, epub>>
    <3>1. queue' \subseteq queue /\ sent' \subseteq queue'
      BY <2>2, MailShrinks DEF Inv, VideoInv
    <3> QED
      BY <1>2, <2>2, <3>1, VideoKept, EpubKept DEF Inv, ReceiveEpub
  <2>3. CASE Die
    BY <1>2, <2>3, Dies DEF ReceiveEpub
  <2> QED
    BY <1>2, <2>1, <2>2, <2>3 DEF ReceiveEpub
<1> QED
  BY <1>0, <1>1, <1>2

\* Up to EnterEnc nothing that is on disk under enc changes; the playlist lists what has been
\* transcoded.
LEMMA TranscodeInv ==
    ASSUME Inv, CreateKeys \/ Transcode
    PROVE  Inv'
<1> USE HandlersAssumption
<1>1. CASE CreateKeys
  <2>1. CASE Go("transcode")
    <3>1. video'.at = "transcode" /\ msg' = msg /\ video' # Idle
      BY <1>1, <2>1 DEF Inv, VideoInv, VideoTypes, CreateKeys, Go, msg, Idle
    <3>2. VideoTypes' /\ Fresh'
      BY <1>1, <2>1, <3>1 DEF Inv, VideoInv, VideoTypes, Fresh, CreateKeys, Go, msg, Stages
    <3>3. Owner' /\ Progress'
      BY <3>1 DEF Owner, Progress, Owning, Present, Renewed, Filled
    <3>4. TargetsComplete' /\ OneKeyPerDirectory'
      BY <1>1 DEF Inv, VideoInv, CreateKeys, TargetsComplete, Playable, OneKeyPerDirectory
    <3>5. EpubInv'
      BY <1>1, <2>1, EpubKept DEF Inv, CreateKeys, Go
    <3> QED
      BY <3>2, <3>3, <3>4, <3>5 DEF Inv, VideoInv
  <2>2. CASE Done
    BY <1>1, <2>2, Returns DEF CreateKeys
  <2> QED
    BY <1>1, <2>1, <2>2 DEF CreateKeys
<1>2. CASE Transcode
  <2>1. msg \in Videos /\ Target[msg] \in Targets
    BY <1>2, InHand DEF Inv, VideoInv, Transcode
  <2>2. PICK made_ \in SUBSET Segments :
          /\ orig' = [orig EXCEPT ![Target[msg]] = @ \cup made_]
          /\ \/ made' = [made EXCEPT ![msg] = made_] /\ Go("enter")
             \/ (Done \/ Die) /\ UNCHANGED made
    BY <1>2 DEF Transcode
  <2>3. orig' \in [Targets -> SUBSET Segments] /\ made_ \subseteq orig'[Target[msg]]
    BY <2>1, <2>2 DEF Inv, VideoInv, VideoTypes
  <2>0. queue' \subseteq queue /\ sent' \subseteq queue'
    BY <2>2, MailShrinks DEF Inv, VideoInv, Go
  <2>4. EpubInv'
    BY <1>2, <2>0, <2>2, EpubKept DEF Inv, Transcode, Die, Done, Go
  <2>5. CASE made' = [made EXCEPT ![msg] = made_] /\ Go("enter")
    <3>1. video'.at = "enter" /\ msg' = msg /\ video' # Idle
      BY <1>2, <2>5 DEF Inv, VideoInv, VideoTypes, Transcode, Go, msg, Idle
    <3>2. made' \in [Videos -> SUBSET Segments] /\ made'[msg] = made_
      BY <2>1, <2>5 DEF Inv, VideoInv, VideoTypes
    <3>3. VideoTypes' /\ Fresh'
      BY <1>2, <2>3, <2>5, <3>1, <3>2
      DEF Inv, VideoInv, VideoTypes, Fresh, Transcode, Go, msg, Stages
    <3>4. Owner' /\ Progress'
      BY <2>3, <3>1, <3>2 DEF Owner, Progress, Owning, Present, Renewed, Filled
    <3>5. \A r \in Rows : target[r] # None => made'[target[r]] = made[target[r]]
      BY <2>1, <2>5 DEF Inv, VideoInv, VideoTypes, Fresh, msg
    <3>6. TargetsComplete' /\ OneKeyPerDirectory'
      BY <1>2, <3>5 DEF Inv, VideoInv, Transcode, TargetsComplete, Playable, OneKeyPerDirectory
    <3> QED
      BY <2>4, <3>3, <3>4, <3>6 DEF Inv, VideoInv
  <2>6. CASE video' = Idle /\ UNCHANGED made
    BY <1>2, <2>0, <2>3, <2>4, <2>6, VideoStops DEF Inv, Transcode
  <2> QED
    BY <2>2, <2>5, <2>6 DEF Done, Die
<1> QED
  BY <1>1, <1>2

\* EnterEnc claims the directory: a row that named the message before now names an older one.
LEMMA EnterInv ==
    ASSUME Inv, EnterEnc
    PROVE  Inv'
<1> USE HandlersAssumption DEF EnterEnc
<1>1. msg \in Videos /\ Target[msg] \in Targets /\ dir \in Dirs
  BY InHand DEF Inv, VideoInv
<1>2. /\ msg' = msg /\ dir' = dir
      /\ video'.at = IF enc[dir] # None THEN "delete" ELSE "create"
      /\ video'.todo = {} /\ video' \in [at : Stages, msg : Videos \cup {None}, todo : SUBSET Segments]
  <2>1. {"delete", "create"} \subseteq Stages /\ {} \in SUBSET Segments
    BY DEF Stages
  <2> QED
    BY <2>1, GoesOn DEF Inv, VideoInv, Go
<1>3. begun' \in [Dirs -> Videos \cup {None}] /\ begun'[dir] = msg
  BY <1>1 DEF Inv, VideoInv, VideoTypes
<1>4. VideoTypes' /\ Fresh'
  BY <1>1, <1>2, <1>3 DEF Inv, VideoInv, VideoTypes, Fresh, msg, Go
<1>5. Owner' /\ Progress'
  BY <1>2, <1>3 DEF Inv, VideoInv, Owner, Progress, Owning, Present, Renewed, Filled
<1>6. ASSUME NEW r \in Rows, target[r] # None, begun'[DirOf(target[r])] = target[r]
      PROVE  begun[DirOf(target[r])] = target[r]
  BY <1>1, <1>6, DirOfMessage DEF Inv, VideoInv, VideoTypes, Fresh, msg
<1>7. TargetsComplete' /\ OneKeyPerDirectory'
  BY <1>6 DEF Inv, VideoInv, TargetsComplete, Playable, OneKeyPerDirectory
<1>8. EpubInv'
  BY EpubKept DEF Inv, Go
<1> QED
  BY <1>4, <1>5, <1>7, <1>8 DEF Inv, VideoInv

\* The new directory is empty, and the list of files it will be filled from holds all that the
\* playlist lists.
LEMMA CreateInv ==
    ASSUME Inv, CreateEnc
    PROVE  Inv'
<1> USE HandlersAssumption DEF CreateEnc
<1>1. msg \in Videos /\ Target[msg] \in Targets /\ dir \in Dirs /\ video.at \in Owning
  BY InHand DEF Inv, VideoInv, Owning
<1>0. queue' \subseteq queue /\ sent' \subseteq queue'
  BY MailShrinks DEF Inv, VideoInv, Listing
<1>2. EpubInv'
  BY <1>0, EpubKept DEF Inv, Die, Listing
<1>3. NoFiles \in [Files -> Videos \cup {None}] /\ \A n \in Files : NoFiles[n] = None
  BY DEF NoFiles
<1>4. ASSUME SetEnc(NoFiles)
      PROVE  /\ enc' \in [Dirs -> [Files -> Videos \cup {None}] \cup {None}] /\ enc'[dir] = NoFiles
             /\ TargetsComplete' /\ OneKeyPerDirectory'
  <2>1. enc' \in [Dirs -> [Files -> Videos \cup {None}] \cup {None}] /\ enc'[dir] = NoFiles
    BY <1>1, <1>3, <1>4 DEF Inv, VideoInv, VideoTypes, SetEnc
  <2>2. TargetsComplete' /\ OneKeyPerDirectory'
    BY <1>1, <1>3, <1>4, OtherRows, OneKey DEF Inv
  <2> QED
    BY <2>1, <2>2
<1>5. CASE SetEnc(NoFiles) /\ Listing
  <2>1. /\ msg' = msg /\ dir' = dir /\ video'.at = "encrypt" /\ video'.todo = orig[Target[msg]]
        /\ video' \in [at : Stages, msg : Videos \cup {None}, todo : SUBSET Segments]
    BY <1>1, <1>5 DEF Inv, VideoInv, VideoTypes, msg, dir, Stages, Listing
  <2>2. VideoTypes' /\ Fresh'
    BY <1>0, <1>1, <1>4, <1>5, <2>1 DEF Inv, VideoInv, VideoTypes, Fresh, msg
  <2>3. Owner' /\ Progress'
    BY <1>3, <1>4, <1>5, <2>1 DEF Inv, VideoInv, Owner, Progress, Owning, Present, Renewed, Filled
  <2> QED
    BY <1>2, <1>4, <1>5, <2>2, <2>3 DEF Inv, VideoInv
<1>6. CASE Die /\ SetEnc(NoFiles)
  <2>1. VideoTypes' /\ Fresh'
    BY <1>0, <1>4, <1>6 DEF Inv, VideoInv, VideoTypes, Fresh, Die, Idle, Stages
  <2>2. Owner' /\ Progress'
    BY <1>6 DEF Owner, Progress, Die, Idle, Owning, Present, Renewed, Filled
  <2> QED
    BY <1>2, <1>4, <1>6, <2>1, <2>2 DEF Inv, VideoInv
<1>7. CASE Die /\ UNCHANGED enc
  BY <1>7, Dies
<1> QED
  BY <1>5, <1>6, <1>7

\* The names of the files that are written besides the segments.
LEMMA FileNames ==
    {"mp4", "video.key", "m3u8"} \subseteq Files /\ Segments \subseteq Files
BY DEF Files

\* A segment is encrypted, or the failure leads to the deletion of enc.
LEMMA SegmentInv ==
    ASSUME Inv, NEW s \in Segments, EncryptSegment(s)
    PROVE  Inv'
<1> USE DEF EncryptSegment
<1>1. EpubInv'
  BY EpubKept DEF Inv, Encrypted, Go
<1>2. video.todo \in SUBSET Segments /\ s \in Files /\ video.at \in Renewed
  BY FileNames DEF Inv, VideoInv, VideoTypes, Renewed
<1>3. made[msg] \subseteq Segments
  BY InHand DEF Inv, VideoInv, VideoTypes
<1>4. CASE Put(s) /\ Encrypted(s)
  <2> DEFINE rest == video.todo \ {s}
  <2>1. video' = [video EXCEPT !.at = "encrypt", !.todo = rest] /\ rest \in SUBSET Segments
    BY <1>2, <1>4 DEF Encrypted, Inv, VideoInv, VideoTypes
  <2> HIDE DEF rest
  <2>2. "encrypt" \in Renewed
    BY DEF Renewed
  <2>3. /\ VideoTypes' /\ Fresh' /\ Owner' /\ TargetsComplete' /\ OneKeyPerDirectory'
        /\ msg' = msg /\ dir' = dir /\ video'.at = "encrypt" /\ video'.todo = rest
        /\ \A i \in Files : enc[dir][i] = msg => enc'[dir][i] = msg
        /\ enc'[dir][s] = msg
    BY <1>2, <1>4, <2>1, <2>2, Writes DEF Inv, Encrypted
  <2>4. Progress'
    BY <1>3, <2>3, FileNames DEF Inv, VideoInv, Progress, Filled, rest
  <2> QED
    BY <1>1, <2>3, <2>4 DEF Inv, VideoInv
<1>5. CASE (Put(s) \/ UNCHANGED enc) /\ Go("clean")
  <2>1. "clean" \in Renewed /\ {} \in SUBSET Segments
    BY DEF Renewed
  <2>2. /\ VideoTypes' /\ Fresh' /\ Owner' /\ TargetsComplete' /\ OneKeyPerDirectory'
        /\ video'.at = "clean"
    BY <1>2, <1>5, <2>1, Writes DEF Inv, Go
  <2>3. Progress'
    BY <2>2 DEF Progress, Filled
  <2> QED
    BY <1>1, <2>2, <2>3 DEF Inv, VideoInv
<1> QED
  BY <1>4, <1>5

\* The source is encrypted; if the list of files was cut short, that went unnoticed.
LEMMA SourceInv ==
    ASSUME Inv, EncryptSource
    PROVE  Inv'
<1> USE DEF EncryptSource
<1>1. EpubInv'
  BY EpubKept DEF Inv, Go
<1>2. video.at \in Renewed /\ "mp4" \in Files /\ {} \in SUBSET Segments
  BY FileNames DEF Renewed
<1>3. made[msg] \subseteq Files
  BY InHand, FileNames DEF Inv, VideoInv, VideoTypes
<1>4. CASE Put("mp4") /\ Go("key")
  <2>1. "key" \in Renewed
    BY DEF Renewed
  <2>2. /\ VideoTypes' /\ Fresh' /\ Owner' /\ TargetsComplete' /\ OneKeyPerDirectory'
        /\ msg' = msg /\ dir' = dir /\ video'.at = "key"
        /\ \A i \in Files : enc[dir][i] = msg => enc'[dir][i] = msg
        /\ enc'[dir]["mp4"] = msg
    BY <1>2, <1>4, <2>1, Writes DEF Inv, Go
  <2>3. Progress'
    BY <1>3, <2>2 DEF Inv, VideoInv, Progress, Filled, Written
  <2> QED
    BY <1>1, <2>2, <2>3 DEF Inv, VideoInv
<1>5. CASE (Put("mp4") \/ UNCHANGED enc) /\ Go("clean")
  <2>1. "clean" \in Renewed
    BY DEF Renewed
  <2>2. /\ VideoTypes' /\ Fresh' /\ Owner' /\ TargetsComplete' /\ OneKeyPerDirectory'
        /\ video'.at = "clean"
    BY <1>2, <1>5, <2>1, Writes DEF Inv, Go
  <2>3. Progress'
    BY <2>2 DEF Progress, Filled
  <2> QED
    BY <1>1, <2>2, <2>3 DEF Inv, VideoInv
<1> QED
  BY <1>4, <1>5

\* A file is written, or it went unnoticed that it was not.
LEMMA WriteFileInv ==
    ASSUME VideoInv, NEW n \in Files, NEW stage \in Filled, video.at \in Filled,
           WriteFile(n, stage), Written(stage) \subseteq Written(video.at) \cup {n},
           UNCHANGED <<orig, made, begun, target>>
    PROVE  VideoInv'
<1>1. video.at \in Renewed /\ stage \in Renewed /\ {} \in SUBSET Segments
  BY DEF Filled, Renewed
<1>2. made[msg] \cup Written(video.at) \subseteq Files
  BY InHand, FileNames DEF VideoInv, VideoTypes, Written, Filled
<1>3. /\ Put(n) \/ UNCHANGED enc
      /\ video' = [video EXCEPT !.at = stage, !.todo = {}]
      /\ unnoticed \subseteq unnoticed'
      /\ Put(n) \/ msg \in unnoticed'
  BY DEF WriteFile, Go
<1>4. /\ VideoTypes' /\ Fresh' /\ Owner' /\ TargetsComplete' /\ OneKeyPerDirectory'
      /\ msg' = msg /\ dir' = dir /\ video'.at = stage
      /\ \A i \in Files : enc[dir][i] = msg => enc'[dir][i] = msg
      /\ Put(n) => enc'[dir][n] = msg
  BY <1>1, <1>3, Writes DEF WriteFile, Go
<1>5. Progress'
  BY <1>2, <1>3, <1>4 DEF VideoInv, Progress, Filled
<1> QED
  BY <1>4, <1>5 DEF VideoInv

\* The key file, the encrypted path and the playlist.
LEMMA WriteInv ==
    ASSUME Inv, WriteKey \/ EncryptPath \/ WritePlaylist
    PROVE  Inv'
<1>1. CASE WriteKey
  <2>1. "video.key" \in Files /\ "cipher" \in Filled /\ video.at \in Filled
    BY <1>1, FileNames DEF WriteKey, Filled
  <2>2. Written("cipher") \subseteq Written(video.at) \cup {"video.key"}
    BY DEF Written
  <2>3. VideoInv'
    BY <1>1, <2>1, <2>2, WriteFileInv DEF Inv, WriteKey
  <2> QED
    BY <1>1, <2>3, EpubKept DEF Inv, WriteKey, WriteFile, Go
<1>2. CASE EncryptPath
  <2>1. CASE Go("m3u8")
    <3>1. "m3u8" \in Renewed /\ video.at \in Renewed /\ {} \in SUBSET Segments /\ "m3u8" \in Files
      BY <1>2, FileNames DEF Renewed, EncryptPath
    <3>2. /\ VideoTypes' /\ Fresh' /\ Owner' /\ TargetsComplete' /\ OneKeyPerDirectory'
          /\ msg' = msg /\ dir' = dir /\ video'.at = "m3u8"
      BY <1>2, <2>1, <3>1, Writes DEF Inv, EncryptPath, Go
    <3>3. Progress'
      BY <1>2, <3>2 DEF Inv, VideoInv, EncryptPath, Progress, Filled, Written
    <3> QED
      BY <1>2, <2>1, <3>2, <3>3, EpubKept DEF Inv, VideoInv, EncryptPath, Go
  <2>2. CASE Done
    BY <1>2, <2>2, Returns DEF EncryptPath
  <2> QED
    BY <1>2, <2>1, <2>2 DEF EncryptPath
<1>3. CASE WritePlaylist
  <2>1. CASE WriteFile("m3u8", "update")
    <3>1. "m3u8" \in Files /\ "update" \in Filled /\ video.at \in Filled
      BY <1>3, FileNames DEF WritePlaylist, Filled
    <3>2. Written("update") \subseteq Written(video.at) \cup {"m3u8"}
      BY <1>3 DEF Written, WritePlaylist
    <3>3. VideoInv'
      BY <1>3, <2>1, <3>1, <3>2, WriteFileInv DEF Inv, WritePlaylist
    <3> QED
      BY <1>3, <2>1, <3>3, EpubKept DEF Inv, WritePlaylist, WriteFile, Go
  <2>2. CASE Die /\ UNCHANGED <<enc, unnoticed>>
    BY <1>3, <2>2, Dies DEF WritePlaylist
  <2> QED
    BY <1>3, <2>1, <2>2 DEF WritePlaylist
<1> QED
  BY <1>1, <1>2, <1>3

\* The UPDATE: by now everything the playlist lists has the key that the row gets.
LEMMA UpdateTargetInv ==
    ASSUME Inv, UpdateTarget
    PROVE  Inv'
<1> USE HandlersAssumption DEF UpdateTarget
<1>2. CASE Done /\ Row[msg] \in Rows /\ target' = [target EXCEPT ![Row[msg]] = msg]
  <2>0. queue' \subseteq queue /\ sent' \subseteq queue'
    BY <1>2, MailShrinks DEF Inv, VideoInv
  <2>1. msg \in Videos /\ video.msg = msg /\ msg # None /\ dir = DirOf(msg)
    BY InHand DEF Inv, VideoInv, msg, dir
  <2>2. /\ target' \in [Rows -> Videos \cup {None}] /\ target'[Row[msg]] = msg
        /\ \A r \in Rows : r # Row[msg] => target'[r] = target[r]
    BY <1>2, <2>1 DEF Inv, VideoInv, VideoTypes
  <2>3. VideoTypes' /\ Fresh'
    BY <1>2, <2>0, <2>1, <2>2 DEF Inv, VideoInv, VideoTypes, Fresh, Done, Idle, Stages
  <2>4. Owner' /\ Progress'
    BY <1>2 DEF Owner, Progress, Done, Idle, Owning, Present, Renewed, Filled
  <2>5. msg \notin unnoticed => Playable(msg)
    BY <2>1 DEF Inv, VideoInv, Owner, Progress, Playable, Present, Filled, Written
  <2>6. ASSUME NEW r \in Rows, target'[r] # None, begun[DirOf(target'[r])] = target'[r],
               target'[r] \notin unnoticed
        PROVE  Playable(target'[r])
    <3>1. CASE r = Row[msg]
      BY <2>2, <2>5, <2>6, <3>1
    <3>2. CASE r # Row[msg]
      BY <2>2, <2>6, <3>2 DEF Inv, VideoInv, TargetsComplete
    <3> QED
      BY <3>1, <3>2
  <2>7. TargetsComplete' /\ OneKeyPerDirectory'
    BY <2>6 DEF Inv, VideoInv, TargetsComplete, Playable, OneKeyPerDirectory
  <2>8. EpubInv'
    BY <1>2, <2>0, EpubKept DEF Inv, Done
  <2> QED
    BY <2>3, <2>4, <2>7, <2>8 DEF Inv, VideoInv
<1>3. CASE (Done \/ Die) /\ UNCHANGED target
  BY <1>3, Returns, Dies
<1> QED
  BY <1>2, <1>3

\* The book's handler: what is written over for a message in hand belongs to no row.
LEMMA EpubStepInv ==
    ASSUME Inv, EpubStep
    PROVE  Inv'
<1> USE HandlersAssumption
<1>0. queue' \subseteq queue /\ sent' \subseteq queue'
  BY MailShrinks DEF Inv, VideoInv, EpubStep, CallEpubService, UpdateBook
<1>1. ASSUME UNCHANGED <<video, target, disk>>
      PROVE  VideoInv'
  BY <1>0, <1>1, VideoKept DEF Inv
<1> DEFINE e == epub.msg
<1>2. e \in Epubs /\ Book[e] \in Books /\ e # None
  BY DEF Inv, EpubInv, EpubStep, CallEpubService, UpdateBook, Books
<1>3. CASE CallEpubService
  <2>1. VideoInv' /\ UNCHANGED book
    BY <1>1, <1>3 DEF CallEpubService, EpubDone
  <2>2. PICK ok \in BOOLEAN : \/ catalog' = [catalog EXCEPT ![Book[e]] = [msg |-> e, whole |-> ok]]
                              \/ UNCHANGED catalog
    BY <1>3 DEF CallEpubService, GetEpubCatalog
  <2> DEFINE c == [msg |-> e, whole |-> ok]
  <2>3. c \in Catalogs /\ c # None /\ c.msg = e /\ c.whole = ok
    BY <1>2 DEF Catalogs
  <2>4. catalog' = [catalog EXCEPT ![Book[e]] = c] \/ UNCHANGED catalog
    BY <2>2
  <2> HIDE DEF c
  <2>5. catalog' \in [Books -> Catalogs \cup {None}]
    BY <1>2, <2>3, <2>4 DEF Inv, EpubInv
  <2>6. ASSUME NEW k \in Epubs, Whole(k), k # e
        PROVE  Whole(k)'
    BY <1>2, <2>3, <2>4, <2>6 DEF Inv, EpubInv, Whole, Books
  <2>7. \A r \in Rows : book'[r] # None =>
           book'[r] \notin queue' /\ book'[r] # e /\ Whole(book[r])'
    BY <1>0, <2>1, <2>6 DEF Inv, EpubInv
  <2>8. CASE GetEpubCatalog(e, TRUE) /\ epub' = [epub EXCEPT !.at = "update"] /\ UNCHANGED mail
    <3> DEFINE yes == TRUE
               whole == [msg |-> e, whole |-> yes]
    <3>1. catalog' = [catalog EXCEPT ![Book[e]] = whole]
      BY <2>8, Zenon DEF GetEpubCatalog
    <3>0. yes \in BOOLEAN /\ yes
      OBVIOUS
    <3> HIDE DEF yes
    <3>2. whole \in Catalogs /\ whole.whole = yes
      BY <1>2, <3>0 DEF Catalogs
    <3>6. whole # None
      BY <3>2 DEF Catalogs
    <3> HIDE DEF whole
    <3>7. catalog'[Book[e]] = whole
      BY <1>2, <3>1 DEF Inv, EpubInv
    <3>4. /\ epub' \in [at : {"idle", "catalog", "update"}, msg : Epubs \cup {None},
                        todo : SUBSET Segments]
          /\ epub'.at = "update" /\ epub'.msg = epub.msg
      BY <2>8 DEF Inv, EpubInv
    <3>3. Whole(epub.msg)'
      BY <3>0, <3>2, <3>4, <3>6, <3>7 DEF Whole
    <3>5. EpubInv'
      BY <1>2, <2>1, <2>5, <2>7, <2>8, <3>3, <3>4 DEF Inv, EpubInv
    <3> QED
      BY <2>1, <3>5 DEF Inv
  <2>9. CASE EpubDone
    <3>1. epub' = Idle /\ epub'.at = "idle" /\ epub'.msg = None
      BY <2>9 DEF EpubDone, Idle
    <3>3. epub' \in [at : {"idle", "catalog", "update"}, msg : Epubs \cup {None}, todo : SUBSET Segments]
      BY <3>1 DEF Idle
    <3>4. None \notin queue' /\ queue' \subseteq Videos \cup Epubs
      BY <1>0 DEF Inv, VideoInv, VideoTypes
    <3>5. book' \in [Rows -> Epubs \cup {None}]
      BY <2>1 DEF Inv, EpubInv
    <3>2. EpubInv'
      BY <2>5, <2>7, <3>1, <3>3, <3>4, <3>5 DEF EpubInv
    <3> QED
      BY <2>1, <3>2 DEF Inv
  <2> QED
    BY <1>3, <2>8, <2>9 DEF CallEpubService
<1>4. CASE UpdateBook
  <2>1. CASE EpubDone /\ Row[e] \in Rows /\ book' = [book EXCEPT ![Row[e]] = e]
    <3>1. VideoInv' /\ UNCHANGED catalog
      BY <1>1, <1>4, <2>1 DEF UpdateBook, EpubDone
    <3>2. epub' = Idle /\ epub'.at = "idle" /\ epub'.msg = None
      BY <2>1 DEF EpubDone, Idle
    <3>3. /\ book' \in [Rows -> Epubs \cup {None}] /\ book'[Row[e]] = e
          /\ \A r \in Rows : r # Row[e] => book'[r] = book[r]
      BY <1>2, <2>1 DEF Inv, EpubInv
    <3>4. Whole(e) /\ e \notin queue
      BY <1>4 DEF Inv, EpubInv, UpdateBook
    <3>5. \A k : Whole(k) => Whole(k)'
      BY <3>1 DEF Whole
    <3>7. epub' \in [at : {"idle", "catalog", "update"}, msg : Epubs \cup {None}, todo : SUBSET Segments]
      BY <3>2 DEF Idle
    <3>8. /\ None \notin queue' /\ catalog' \in [Books -> Catalogs \cup {None}]
          /\ queue' \subseteq Videos \cup Epubs
      BY <1>0, <3>1 DEF Inv, VideoInv, VideoTypes, EpubInv
    <3>9. \A r \in Rows : book'[r] # None => book'[r] \notin queue' /\ Whole(book'[r])
      BY <1>0, <3>3, <3>4 DEF Inv, EpubInv
    <3>6. EpubInv'
      BY <3>2, <3>3, <3>5, <3>7, <3>8, <3>9 DEF EpubInv
    <3> QED
      BY <3>1, <3>6 DEF Inv
  <2>2. CASE EpubDone /\ UNCHANGED book
    <3>1. VideoInv'
      BY <1>1, <1>4, <2>2 DEF UpdateBook, EpubDone
    <3> QED
      BY <1>0, <1>4, <2>2, <3>1, EpubKept DEF Inv, UpdateBook, EpubDone
  <2>3. CASE Die /\ UNCHANGED book
    BY <1>4, <2>3, Dies DEF UpdateBook
  <2> QED
    BY <1>4, <2>1, <2>2, <2>3 DEF UpdateBook
<1> QED
  BY <1>3, <1>4 DEF EpubStep

\* Every step of both threads, and a crash, preserves the invariant.
LEMMA NextInv == Inv /\ [Next]_vars => Inv'
<1> SUFFICES ASSUME Inv, [Next]_vars PROVE Inv'
  OBVIOUS
<1>1. CASE VideoStep
  <2>1. CASE DeleteOld
    <3>1. VideoInv' /\ (epub' = epub \/ epub' = Idle) /\ queue' \subseteq queue
      BY <2>1, DeleteFileInv DEF Inv, DeleteOld
    <3> QED
      BY <2>1, <3>1, EpubKept DEF Inv, DeleteOld
  <2>2. CASE CleanUp
    <3>1. VideoInv' /\ (epub' = epub \/ epub' = Idle) /\ queue' \subseteq queue
      BY <2>2, DeleteFileInv DEF Inv, CleanUp
    <3> QED
      BY <2>2, <3>1, EpubKept DEF Inv, CleanUp
  <2> QED
    BY <1>1, <2>1, <2>2, TranscodeInv, EnterInv, CreateInv, SegmentInv, SourceInv, WriteInv,
       UpdateTargetInv DEF VideoStep
<1>2. CASE Crash
  BY <1>2, Dies DEF Crash
<1>3. CASE UNCHANGED vars
  BY <1>3, VideoKept, EpubKept DEF Inv, VideoInv, VideoTypes, vars
<1> QED
  BY <1>1, <1>2, <1>3, ReceiveInv, EpubStepInv DEF Next

\* Nothing has been taken, written or recorded.
LEMMA InitInv == Init => Inv
<1> SUFFICES ASSUME Init PROVE Inv
  OBVIOUS
<1> USE HandlersAssumption DEF Init, Idle
<1>1. VideoTypes /\ Fresh
  BY DEF VideoTypes, Fresh, Stages
<1>2. Owner /\ Progress
  BY DEF Owner, Progress, Owning, Present, Renewed, Filled
<1>3. TargetsComplete /\ OneKeyPerDirectory
  BY DEF TargetsComplete, OneKeyPerDirectory
<1>4. EpubInv
  BY DEF EpubInv, Whole
<1> QED
  BY <1>1, <1>2, <1>3, <1>4 DEF Inv, VideoInv

-----------------------------------------------------------------------------
(* The theorems.                                                           *)

\* Whatever messages for the same directory failed, were abandoned or cut short by a crash,
\* the files of one enc are all encrypted with the key of one message.
THEOREM OneKeyPerDirectoryHolds == Spec => []OneKeyPerDirectory
<1>1. Inv => OneKeyPerDirectory
  BY DEF Inv, VideoInv
<1> QED
  BY <1>1, InitInv, NextInv, PTL DEF Spec

\* A row of t_isli_target has the keys of a playlist whose files are all there, until enc is
\* replaced, unless a read or a write failed unnoticed; and a row of t_book has the path of a
\* catalog, a whole one unless a later message has torn it.
THEOREM RecordedIsCompleteHolds == Spec => []RecordedIsComplete
<1>1. Inv => RecordedIsComplete
  BY DEF Inv, VideoInv, EpubInv, TargetsComplete, Playable, Whole, RecordedIsComplete
<1> QED
  BY <1>1, InitInv, NextInv, PTL DEF Spec

\* The broker forgets a message as it sends it, and neither an end of the process nor a
\* failure brings one back: the one in hand is not in the queue, and no row has the key of a
\* message that is still waiting or in hand, so none is handled twice.
THEOREM HandledOnce == Spec => []Fresh
<1>1. Inv => Fresh
  BY DEF Inv, VideoInv
<1> QED
  BY <1>1, InitInv, NextInv, PTL DEF Spec
=============================================================================
