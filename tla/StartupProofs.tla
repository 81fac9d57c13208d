---------------------------- MODULE StartupProofs ----------------------------
(***************************************************************************)
(* For any list of files, directories and versions, and any number of      *)
(* restarts: what the game data on disk are worth, and that the first      *)
(* update waits for them and for the stored items.                         *)
(*                                                                         *)
(* First RePoE by itself, then the worker and its parser thread.           *)
(***************************************************************************)
EXTENDS Startup, SequenceTheorems, TLAPS

\* The files still needed are the first ones of the list.
Prefix ==
    /\ Len(neededFiles) <= Len(Files)
    /\ \A k \in 1..Len(neededFiles) : neededFiles[k] = Files[k]

\* A file is being fetched.
Fetching == \E n \in Busy : downloads[n] # "version.txt"

\* Where no two downloads met, the one there is waits for the file on top of the list.
OneDownload ==
    ~overlapped[dir] =>
        /\ \A m, n \in Busy : m = n
        /\ initialized => Busy = {}
        /\ \A n \in Busy : downloads[n] # "version.txt" =>
              neededFiles # <<>> /\ downloads[n] = FileName

\* The file is what the server answered for it, when the version the directory claims was
\* published or later.
Good(d, f) ==
    disk[d][f].file \in {f, "errorPage"} /\ disk[d][f].version >= localVersion[d]

Whole(d) == \A f \in FileNames : Good(d, f)
Lacking(d) == \E f \in FileNames : disk[d][f] = Missing

\* A directory is whole, or lacks a file and will be filled again, or is being
\* filled from the end of the list.
DirState(d) ==
    IF d = dir /\ Fetching
    THEN \A k \in Len(neededFiles) + 1 .. Len(Files) : Good(d, Files[k])
    ELSE Whole(d) \/ Lacking(d)

RePoEIInv ==
    /\ RePoETypeOK /\ Prefix
    /\ \A d \in Dirs : localVersion[d] <= published
    /\ OneDownload
    /\ FilesAreThemselves
    /\ \A d \in Dirs : ~overlapped[d] /\ ~interrupted[d] => DirState(d)
    /\ ReadyIsCurrent

\* The items are parsed once, and only when the data and the account are there.
ParserInv ==
    /\ (\A d \in Dirs : ~overlapped[d]) =>
          /\ ~loggedIn \/ ~initialized => parsers = 0
          /\ parsers <= 1
    /\ waiting => loggedIn
    /\ thread # "none" => initialized
    /\ thread \notin {"none", "parsing"} => loaded
    /\ loaded => thread # "none"
    /\ user = "start" => loaded

StartupIInv == StartupTypeOK /\ RePoEIInv /\ ParserInv

-----------------------------------------------------------------------------
LEMMA FilesFacts ==
    /\ Len(Files) \in Nat /\ Len(Files) > 0
    /\ Files \in Seq(FileNames) /\ Files # <<>>
    /\ \A k \in 1..Len(Files) : Files[k] \in FileNames
    /\ \A f \in FileNames : \E k \in 1..Len(Files) : f = Files[k]
    /\ "version.txt" \notin FileNames /\ Idle \notin FileNames
    /\ "missing" \notin FileNames /\ "broken" \notin FileNames /\ "errorPage" \notin FileNames
    /\ Idle # "version.txt"
<1>1. Files \in Seq(STRING) /\ Files # <<>> /\ Len(Files) \in Nat /\ DOMAIN Files = 1..Len(Files)
  BY FilesAssumption
<1>2. \A k \in 1..Len(Files) : Files[k] \in FileNames
  BY <1>1 DEF FileNames
<1>3. Files \in Seq(FileNames)
  BY <1>1, <1>2
<1>4. Len(Files) > 0
  BY <1>1, EmptySeq
<1> QED
  BY <1>1, <1>2, <1>3, <1>4, FilesAssumption DEF FileNames, Idle

LEMMA MissingIsContents ==
    /\ Missing \in Contents /\ Missing.file = "missing"
    /\ \A f \in FileNames \cup {"broken", "errorPage"}, v \in 1..MaxVersion :
          [file |-> f, version |-> v] \in Contents
BY DEF Missing, Contents

LEMMA ContentsFields ==
    ASSUME NEW c \in Contents
    PROVE  c.version \in 0..MaxVersion
BY FilesAssumption DEF Contents, Missing

LEMMA NoFilesIsContents == NoFiles \in [FileNames -> Contents]
BY MissingIsContents DEF NoFiles

\* A download that waits for something else, or no longer.
LEMMA AwaitChanges ==
    ASSUME RePoEIInv, NEW n \in Busy,
           NEW what \in FileNames \cup {Idle, "version.txt"}, Await(n, what)
    PROVE  /\ downloads' \in Seq(FileNames \cup {Idle, "version.txt"})
           /\ downloads'[n] = what
           /\ Busy' \subseteq Busy /\ (what # Idle => n \in Busy')
           /\ ~overlapped[dir] => /\ Busy = {n} /\ ~initialized
                                  /\ what = Idle => Busy' = {}
                                  /\ what # Idle => Busy' = {n}
<1> DEFINE Whats == FileNames \cup {Idle, "version.txt"}
<1>1. downloads \in Seq(Whats) /\ n \in DOMAIN downloads /\ n \in 1..Len(downloads)
  BY DEF RePoEIInv, RePoETypeOK, Busy
<1>2. downloads' = [downloads EXCEPT ![n] = what]
  BY DEF Await
<1>3. downloads' \in Seq(Whats)
  BY <1>1, <1>2, ExceptSeq
<1>4. /\ DOMAIN downloads' = DOMAIN downloads /\ downloads'[n] = what
      /\ \A m \in DOMAIN downloads : m # n => downloads'[m] = downloads[m]
  BY <1>1, <1>2
<1>5. Busy' \subseteq Busy /\ (what # Idle => n \in Busy')
  BY <1>1, <1>4 DEF Busy
<1>6. ~overlapped[dir] => Busy = {n} /\ ~initialized
  BY DEF RePoEIInv, OneDownload
<1>7. n \in Busy' <=> what # Idle
  BY <1>1, <1>4 DEF Busy
<1> QED
  BY <1>3, <1>4, <1>5, <1>6, <1>7

\* A step of one download: the other directories do not notice.
LEMMA StepInDirectory ==
    ASSUME RePoEIInv, RePoETypeOK', Prefix',
           UNCHANGED <<published, dir, overlapped>>,
           localVersion'[dir] <= published,
           \A d \in Dirs : d # dir => /\ disk'[d] = disk[d]
                                      /\ localVersion'[d] = localVersion[d]
                                      /\ interrupted'[d] = interrupted[d],
           ~overlapped[dir] =>
              /\ OneDownload'
              /\ \A f \in FileNames : disk'[dir][f].file \in {f, "missing", "broken", "errorPage"}
              /\ ~interrupted'[dir] => DirState(dir)' /\ ReadyIsCurrent'
    PROVE  RePoEIInv'
<1>1. OneDownload'
  BY DEF OneDownload
<1>2. FilesAreThemselves'
  BY DEF RePoEIInv, FilesAreThemselves
<1>3. \A d \in Dirs : localVersion'[d] <= published'
  BY DEF RePoEIInv
<1>4. ASSUME NEW d \in Dirs, ~overlapped'[d], ~interrupted'[d]
      PROVE  DirState(d)'
  <2>1. CASE d = dir
    BY <1>4, <2>1
  <2>2. CASE d # dir
    <3>1. DirState(d)
      BY <1>4, <2>2 DEF RePoEIInv
    <3> QED
      BY <2>2, <3>1 DEF DirState, Whole, Lacking, Good
  <2> QED
    BY <2>1, <2>2
<1>5. ReadyIsCurrent'
  BY DEF ReadyIsCurrent
<1> QED
  BY <1>1, <1>2, <1>3, <1>4, <1>5 DEF RePoEIInv

\* What FinishUpdate reads from a directory that is whole.
LEMMA WholeIsCurrent ==
    ASSUME Whole(dir)', UNCHANGED dir, parsed' = disk'[dir]
    PROVE  Current(dir)'
<1> SUFFICES ASSUME NEW f \in FileNames
             PROVE  /\ parsed'[f].file \in {f, "errorPage"}
                    /\ parsed'[f].version >= localVersion'[dir]
  BY DEF Current
<1>1. /\ disk'[dir][f].file \in {f, "errorPage"}
      /\ disk'[dir][f].version >= localVersion'[dir]
  BY DEF Whole, Good
<1> QED
  BY <1>1

-----------------------------------------------------------------------------
LEMMA RePoEInitEstablishes == RePoEInit => RePoEIInv
<1> SUFFICES ASSUME RePoEInit PROVE RePoEIInv
  OBVIOUS
<1>1. /\ downloads = <<"version.txt">> /\ Busy = {1} /\ neededFiles = <<>>
      /\ Len(neededFiles) = 0 /\ initialized = FALSE
  BY FilesFacts DEF RePoEInit, Busy
<1>2. RePoETypeOK
  <2>1. /\ published \in 1..MaxVersion /\ 0 \in Claims
    BY FilesAssumption DEF RePoEInit, Claims
  <2>2. disk \in [Dirs -> [FileNames -> Contents]]
    BY NoFilesIsContents DEF RePoEInit
  <2>3. localVersion \in [Dirs -> Claims]
    BY <2>1 DEF RePoEInit
  <2>4. overlapped \in [Dirs -> BOOLEAN] /\ interrupted \in [Dirs -> BOOLEAN]
    BY DEF RePoEInit
  <2>5. /\ neededFiles \in Seq(FileNames)
        /\ downloads \in Seq(FileNames \cup {Idle, "version.txt"})
    BY <1>1
  <2>6. parsed \in [FileNames -> Contents] /\ finished \in Nat /\ initialized \in BOOLEAN /\ dir \in Dirs
    BY NoFilesIsContents DEF RePoEInit
  <2> QED
    BY <2>1, <2>2, <2>3, <2>4, <2>5, <2>6 DEF RePoETypeOK
<1>3. Prefix
  BY <1>1, FilesFacts DEF Prefix
<1>4. OneDownload /\ ~Fetching
  BY <1>1 DEF OneDownload, Fetching
<1>5. \A d \in Dirs : localVersion[d] <= published
  BY DEF RePoEInit
<1>6. FilesAreThemselves
  BY MissingIsContents DEF RePoEInit, FilesAreThemselves, NoFiles
<1>7. \A d \in Dirs : DirState(d)
  BY <1>4, FilesFacts DEF DirState, Lacking, RePoEInit, NoFiles
<1> QED
  BY <1>1, <1>2, <1>3, <1>4, <1>5, <1>6, <1>7 DEF RePoEIInv, ReadyIsCurrent

LEMMA PublishPreserves ==
    ASSUME RePoEIInv, Publish
    PROVE  RePoEIInv'
<1>1. /\ published \in 1..MaxVersion /\ published' = published + 1
      /\ published' \in 1..MaxVersion
      /\ UNCHANGED <<diskVars, dir, initialized, neededFiles, downloads, parsed,
                     finished, overlapped, interrupted>>
  BY FilesAssumption DEF Publish, RePoEIInv, RePoETypeOK
<1>2. \A d \in Dirs : localVersion'[d] <= published'
  BY <1>1, FilesAssumption DEF RePoEIInv, RePoETypeOK, diskVars, Claims, ErrorText
<1>3. RePoETypeOK' /\ Prefix' /\ OneDownload' /\ FilesAreThemselves' /\ ReadyIsCurrent'
  BY <1>1 DEF RePoEIInv, RePoETypeOK, Prefix, OneDownload, FilesAreThemselves,
     ReadyIsCurrent, Current, Busy, FileName, diskVars
<1>4. \A d \in Dirs : DirState(d) => DirState(d)'
  BY <1>1 DEF DirState, Fetching, Busy, Whole, Lacking, Good, diskVars
<1> QED
  BY <1>1, <1>2, <1>3, <1>4 DEF RePoEIInv

\* What an interrupted download says of its directory.
LEMMA InterruptSays ==
    ASSUME RePoETypeOK, Interrupt
    PROVE  /\ interrupted' \in [Dirs -> BOOLEAN]
           /\ \A d \in Dirs : d # dir => interrupted'[d] = interrupted[d]
           /\ ~interrupted'[dir] => \E f \in FileNames : disk'[dir][f] = Missing
BY DEF RePoETypeOK, Interrupt

LEMMA RestartPreserves ==
    ASSUME RePoEIInv, Restart
    PROVE  RePoEIInv'
<1> DEFINE Whats == FileNames \cup {Idle, "version.txt"}
           L == Len(downloads)
<1>1. RePoETypeOK /\ L \in Nat /\ DOMAIN downloads = 1..L
  BY DEF RePoEIInv, RePoETypeOK
<1>2. /\ dir' \in Dirs /\ initialized' = FALSE /\ neededFiles' = <<>> /\ parsed' = NoFiles
      /\ finished' = 0
      /\ downloads' = [n \in 1..L + 1 |-> IF n > L THEN "version.txt" ELSE Idle]
      /\ UNCHANGED <<published, disk, localVersion, overlapped>>
  BY DEF Restart, diskVars
<1>3. downloads' \in Seq(Whats) /\ Busy' = {L + 1} /\ downloads'[L + 1] = "version.txt"
  <2>1. downloads' \in Seq(Whats)
    BY <1>1, <1>2, IsASeq
  <2>2. DOMAIN downloads' = 1..L + 1
    BY <1>2
  <2>3. \A n \in 1..L + 1 : downloads'[n] # Idle <=> n = L + 1
    BY <1>1, <1>2, FilesFacts
  <2> QED
    BY <1>1, <1>2, <2>1, <2>2, <2>3 DEF Busy
<1>4. ~Fetching' /\ OneDownload'
  BY <1>2, <1>3 DEF Fetching, OneDownload
<1>5. /\ interrupted' \in [Dirs -> BOOLEAN]
      /\ \A d \in Dirs : d # dir => interrupted'[d] = interrupted[d]
      /\ Fetching /\ ~interrupted'[dir] => Lacking(dir)
      /\ ~Fetching => interrupted' = interrupted
  <2>1. CASE Fetching
    BY <1>1, <1>2, <2>1, InterruptSays DEF Restart, Fetching, Lacking
  <2>2. CASE ~Fetching
    BY <1>1, <2>2 DEF Restart, Fetching, RePoETypeOK
  <2> QED
    BY <2>1, <2>2
<1>6. RePoETypeOK'
  <2>1. neededFiles' \in Seq(FileNames) /\ parsed' \in [FileNames -> Contents] /\ finished' \in Nat
    BY <1>2, NoFilesIsContents
  <2>2. initialized' \in BOOLEAN
    BY <1>2
  <2> QED
    BY <1>1, <1>2, <1>3, <1>5, <2>1, <2>2 DEF RePoETypeOK
<1>7. Prefix'
  BY <1>2, FilesFacts DEF Prefix
<1>8. ASSUME NEW d \in Dirs, ~overlapped'[d], ~interrupted'[d]
      PROVE  DirState(d)'
  <2>1. CASE d = dir /\ Fetching
    <3>1. Lacking(d)
      BY <1>5, <1>8, <2>1
    <3>2. Lacking(d)'
      BY <1>2, <3>1 DEF Lacking
    <3> QED
      BY <1>4, <3>2 DEF DirState
  <2>2. CASE d # dir \/ ~Fetching
    <3>1. DirState(d) /\ (Whole(d) \/ Lacking(d))
      BY <1>2, <1>5, <1>8, <2>2 DEF RePoEIInv, DirState
    <3> QED
      BY <1>2, <1>4, <3>1 DEF DirState, Whole, Lacking, Good
  <2> QED
    BY <2>1, <2>2
<1>9. FilesAreThemselves' /\ ReadyIsCurrent' /\ \A d \in Dirs : localVersion'[d] <= published'
  BY <1>2 DEF RePoEIInv, FilesAreThemselves, ReadyIsCurrent
<1> QED
  BY <1>4, <1>6, <1>7, <1>8, <1>9 DEF RePoEIInv

LEMMA SetUserDirPreserves ==
    ASSUME RePoEIInv, SetUserDir
    PROVE  RePoEIInv'
<1> DEFINE Whats == FileNames \cup {Idle, "version.txt"}
           L == Len(downloads)
<1>1. /\ RePoETypeOK /\ downloads \in Seq(Whats) /\ L \in Nat /\ DOMAIN downloads = 1..L
      /\ dir \in Dirs
  BY DEF RePoEIInv, RePoETypeOK
<1>2. /\ ~initialized /\ dir' \in Dirs
      /\ downloads' = Append(downloads, "version.txt")
      /\ overlapped' = [d \in Dirs |-> overlapped[d] \/ (Busy # {} /\ d \in {dir, dir'})]
      /\ UNCHANGED <<published, disk, localVersion, initialized, neededFiles, parsed,
                     finished, interrupted>>
  BY DEF SetUserDir, diskVars
<1>3. /\ downloads' \in Seq(Whats) /\ downloads'[L + 1] = "version.txt"
      /\ Busy' = Busy \cup {L + 1}
      /\ \A n \in Busy : downloads'[n] = downloads[n]
  <2>1. /\ downloads' \in Seq(Whats) /\ downloads'[L + 1] = "version.txt"
        /\ DOMAIN downloads' = DOMAIN downloads \cup {L + 1}
        /\ \A n \in DOMAIN downloads : downloads'[n] = downloads[n]
    BY <1>1, <1>2, AppendProperties
  <2> QED
    BY <1>1, <2>1, FilesFacts DEF Busy
<1>4. overlapped' \in [Dirs -> BOOLEAN] /\ \A d \in Dirs : overlapped[d] => overlapped'[d]
  BY <1>1, <1>2 DEF RePoETypeOK
<1>5. RePoETypeOK' /\ Prefix'
  BY <1>1, <1>2, <1>3, <1>4 DEF RePoEIInv, RePoETypeOK, Prefix
<1>6. Busy # {} => \A d \in {dir, dir'} : overlapped'[d]
  BY <1>1, <1>2
<1>7. OneDownload'
  BY <1>2, <1>3, <1>6 DEF OneDownload
<1>8. ASSUME NEW d \in Dirs, ~overlapped'[d], ~interrupted'[d]
      PROVE  DirState(d)'
  <2>1. DirState(d) /\ ~overlapped[d]
    BY <1>2, <1>4, <1>8 DEF RePoEIInv
  <2>2. Whole(d) \/ Lacking(d)
    BY <1>6, <1>8, <2>1 DEF DirState, Fetching
  <2>3. ~(d = dir' /\ Fetching')
    BY <1>3, <1>6, <1>8 DEF Fetching
  <2>4. Whole(d)' \/ Lacking(d)'
    BY <1>2, <2>2 DEF Whole, Lacking, Good
  <2> QED
    BY <2>3, <2>4 DEF DirState
<1>9. FilesAreThemselves' /\ ReadyIsCurrent' /\ \A d \in Dirs : localVersion'[d] <= published'
  BY <1>2, <1>4 DEF RePoEIInv, FilesAreThemselves, ReadyIsCurrent
<1> QED
  BY <1>5, <1>7, <1>8, <1>9 DEF RePoEIInv

-----------------------------------------------------------------------------
(* The steps of a download. *)

LEMMA ParsedIsContents ==
    ASSUME disk' \in [Dirs -> [FileNames -> Contents]], dir \in Dirs,
           parsed' = disk'[dir]
    PROVE  parsed' \in [FileNames -> Contents]
OBVIOUS

LEMMA FinishUpdateFacts ==
    ASSUME RePoEIInv, NEW n \in Busy, FinishUpdate(n),
           disk' \in [Dirs -> [FileNames -> Contents]]
    PROVE  /\ downloads' \in Seq(FileNames \cup {Idle, "version.txt"})
           /\ initialized' = TRUE /\ finished' \in Nat
           /\ parsed' = disk'[dir] /\ parsed' \in [FileNames -> Contents]
           /\ ~overlapped[dir] => Busy' = {}
<1>1. /\ initialized' = TRUE /\ finished' = finished + 1 /\ Await(n, Idle)
      /\ parsed' = disk'[dir]
  BY DEF FinishUpdate
<1>2. dir \in Dirs /\ finished \in Nat
  BY DEF RePoEIInv, RePoETypeOK
<1>3. parsed' \in [FileNames -> Contents]
  BY <1>1, <1>2, ParsedIsContents
<1>4. /\ downloads' \in Seq(FileNames \cup {Idle, "version.txt"})
      /\ ~overlapped[dir] => Busy' = {}
  BY <1>1, AwaitChanges
<1> QED
  BY <1>1, <1>2, <1>3, <1>4

\* The files q are left: the last of them is asked for, or the data are read.
LEMMA RequestNextFileFacts ==
    ASSUME RePoEIInv, NEW n \in Busy, NEW q \in Seq(FileNames), RequestNextFile(n, q),
           Len(q) <= Len(Files), \A k \in 1..Len(q) : q[k] = Files[k],
           disk' \in [Dirs -> [FileNames -> Contents]], UNCHANGED <<dir, overlapped>>
    PROVE  /\ neededFiles' = q /\ Prefix' /\ OneDownload'
           /\ neededFiles' \in Seq(FileNames)
           /\ downloads' \in Seq(FileNames \cup {Idle, "version.txt"})
           /\ initialized' \in BOOLEAN /\ finished' \in Nat /\ parsed' \in [FileNames -> Contents]
           /\ q # <<>> => /\ Fetching' /\ UNCHANGED <<initialized, parsed, finished>>
           /\ q = <<>> => /\ parsed' = disk'[dir]
                          /\ ~overlapped[dir] => ~Fetching'
<1>1. neededFiles' = q /\ Prefix'
  BY DEF RequestNextFile, Prefix
<1>2. CASE q = <<>>
  <2>1. FinishUpdate(n)
    BY <1>2 DEF RequestNextFile
  <2>2. /\ downloads' \in Seq(FileNames \cup {Idle, "version.txt"})
        /\ initialized' = TRUE /\ finished' \in Nat
        /\ parsed' = disk'[dir] /\ parsed' \in [FileNames -> Contents]
        /\ ~overlapped[dir] => Busy' = {}
    BY <2>1, FinishUpdateFacts
  <2>3. OneDownload' /\ (~overlapped[dir] => ~Fetching')
    BY <2>2 DEF OneDownload, Fetching
  <2>4. initialized' \in BOOLEAN
    BY <2>2
  <2> QED
    BY <1>1, <1>2, <2>2, <2>3, <2>4
<1>3. CASE q # <<>>
  <2>1. Len(q) \in 1..Len(q) /\ q[Len(q)] \in FileNames
    BY <1>3
  <2>2. /\ Await(n, q[Len(q)]) /\ UNCHANGED <<initialized, parsed, finished>>
    BY <1>3 DEF RequestNextFile
  <2> DEFINE what == q[Len(q)]
  <2>3. what \in FileNames \cup {Idle, "version.txt"} /\ what # Idle /\ Await(n, what)
    BY <2>1, <2>2, FilesFacts
  <2> HIDE DEF what
  <2>4. /\ downloads' \in Seq(FileNames \cup {Idle, "version.txt"})
        /\ downloads'[n] = what /\ n \in Busy'
        /\ ~overlapped[dir] => Busy' = {n} /\ ~initialized
    BY <2>3, AwaitChanges
  <2>5. /\ downloads' \in Seq(FileNames \cup {Idle, "version.txt"})
        /\ downloads'[n] = q[Len(q)] /\ n \in Busy'
        /\ ~overlapped[dir] => Busy' = {n} /\ ~initialized
    BY <2>4 DEF what
  <2>6. OneDownload'
    BY <1>1, <1>3, <2>2, <2>5 DEF OneDownload, FileName
  <2>7. Fetching'
    BY <2>1, <2>5, FilesFacts DEF Fetching
  <2>8. initialized' \in BOOLEAN /\ finished' \in Nat /\ parsed' \in [FileNames -> Contents]
    BY <2>2 DEF RePoEIInv, RePoETypeOK
  <2> QED
    BY <1>1, <1>3, <2>2, <2>5, <2>6, <2>7, <2>8
<1> QED
  BY <1>2, <1>3

\* The list without its last file.
LEMMA RestIsPrefix ==
    ASSUME RePoETypeOK, Prefix, neededFiles # <<>>
    PROVE  LET rest == SubSeq(neededFiles, 1, Len(neededFiles) - 1) IN
           /\ rest \in Seq(FileNames) /\ Len(neededFiles) \in 1..Len(Files)
           /\ Len(rest) = Len(neededFiles) - 1 /\ Len(rest) <= Len(Files)
           /\ \A k \in 1..Len(rest) : rest[k] = Files[k]
           /\ FileName \in FileNames /\ FileName = Files[Len(neededFiles)]
           /\ rest = <<>> => Len(neededFiles) = 1
<1>1. neededFiles \in Seq(FileNames) /\ Len(neededFiles) \in Nat /\ Len(neededFiles) > 0
  BY EmptySeq DEF RePoETypeOK
<1> DEFINE rest == SubSeq(neededFiles, 1, Len(neededFiles) - 1)
<1>2. /\ rest \in Seq(FileNames) /\ Len(rest) = Len(neededFiles) - 1
      /\ \A k \in 1..Len(rest) : rest[k] = neededFiles[k]
  <2> DEFINE n == Len(neededFiles) - 1
  <2>1. 1 \in Int /\ n \in Int /\ n \in Nat /\ \A i \in 1..n : neededFiles[i] \in FileNames
    BY <1>1
  <2> HIDE DEF n
  <2>2. /\ SubSeq(neededFiles, 1, n) \in Seq(FileNames)
        /\ Len(SubSeq(neededFiles, 1, n)) = n
        /\ \A i \in 1..n : SubSeq(neededFiles, 1, n)[i] = neededFiles[i]
    BY <2>1, SubSeqProperties
  <2> QED
    BY <2>2 DEF n
<1>3. Len(neededFiles) \in 1..Len(Files) /\ Len(rest) <= Len(Files)
  <2>1. Len(neededFiles) <= Len(Files) /\ Len(Files) \in Nat
    BY FilesFacts DEF Prefix
  <2> QED
    BY <1>1, <1>2, <2>1
<1>4. \A k \in 1..Len(rest) : rest[k] = Files[k]
  BY <1>1, <1>2 DEF Prefix
<1>5. FileName \in FileNames /\ FileName = Files[Len(neededFiles)]
  BY <1>1 DEF FileName, Prefix
<1>6. rest = <<>> => Len(neededFiles) = 1
  BY <1>1, <1>2, EmptySeq, SMTT(30)
<1> QED
  BY <1>2, <1>3, <1>4, <1>5, <1>6

\* One file of the directory is written.
LEMMA SaveWrites ==
    ASSUME RePoETypeOK, dir \in Dirs, NEW f \in FileNames, NEW c \in Contents,
           disk' = [disk EXCEPT ![dir][f] = c]
    PROVE  /\ disk' \in [Dirs -> [FileNames -> Contents]]
           /\ disk'[dir][f] = c
           /\ \A g \in FileNames : g # f => disk'[dir][g] = disk[dir][g]
           /\ \A d \in Dirs : d # dir => disk'[d] = disk[d]
BY DEF RePoETypeOK

\* A download that is cut off: by an error, or by a write that fails.
LEMMA CutOffPreserves ==
    ASSUME RePoEIInv, NEW n \in Busy, Await(n, Idle),
           disk' \in [Dirs -> [FileNames -> Contents]],
           neededFiles' \in Seq(FileNames), Prefix',
           UNCHANGED <<published, dir, initialized, parsed, finished, overlapped>>,
           \/ UNCHANGED localVersion
           \/ localVersion' = [localVersion EXCEPT ![dir] = 0],
           \A d \in Dirs : d # dir => disk'[d] = disk[d],
           \A f \in FileNames : ~overlapped[dir] => disk'[dir][f].file \in {f, "missing", "broken", "errorPage"},
           \/ Interrupt
           \/ UNCHANGED <<interrupted, disk>> /\ downloads[n] = "version.txt"
    PROVE  RePoEIInv'
<1>1. RePoETypeOK /\ dir \in Dirs /\ localVersion[dir] <= published
  BY DEF RePoEIInv, RePoETypeOK
<1>2. /\ downloads' \in Seq(FileNames \cup {Idle, "version.txt"})
      /\ ~overlapped[dir] => Busy = {n} /\ ~initialized /\ Busy' = {}
  BY AwaitChanges
<1>3. /\ interrupted' \in [Dirs -> BOOLEAN]
      /\ \A d \in Dirs : d # dir => interrupted'[d] = interrupted[d]
  BY <1>1, InterruptSays DEF RePoETypeOK
<1>4. RePoETypeOK'
  <2>1. 0 \in Claims
    BY FilesAssumption DEF Claims
  <2> QED
    BY <1>1, <1>2, <1>3, <2>1 DEF RePoETypeOK
<1>5. /\ localVersion'[dir] <= published /\ localVersion'[dir] \in {localVersion[dir], 0}
      /\ \A d \in Dirs : d # dir => localVersion'[d] = localVersion[d]
  BY <1>1, FilesAssumption DEF RePoETypeOK
<1>6. ASSUME ~overlapped[dir]
      PROVE  OneDownload' /\ ~Fetching' /\ ReadyIsCurrent'
  BY <1>2, <1>6 DEF OneDownload, Fetching, ReadyIsCurrent
<1>7. ASSUME ~overlapped[dir], ~interrupted'[dir]
      PROVE  DirState(dir)'
  <2>1. CASE Interrupt
    <3>1. Lacking(dir)'
      BY <1>1, <1>7, <2>1, InterruptSays DEF Lacking
    <3> QED
      BY <1>6, <1>7, <3>1 DEF DirState
  <2>2. CASE UNCHANGED <<interrupted, disk>> /\ downloads[n] = "version.txt"
    <3>1. ~Fetching
      BY <1>2, <1>7, <2>2 DEF Fetching
    <3>2. Whole(dir) \/ Lacking(dir)
      BY <1>1, <1>7, <2>2, <3>1 DEF RePoEIInv, DirState
    <3>3. \A f \in FileNames : disk[dir][f].version >= 0
      BY <1>1, ContentsFields, FilesAssumption DEF RePoETypeOK
    <3>4. Whole(dir)' \/ Lacking(dir)'
      BY <1>1, <1>5, <2>2, <3>2, <3>3 DEF Whole, Lacking, Good
    <3> QED
      BY <1>6, <1>7, <3>4 DEF DirState
  <2> QED
    BY <2>1, <2>2
<1> QED
  BY <1>1, <1>3, <1>4, <1>6, <1>7, <1>5, StepInDirectory

LEMMA VersionPreserves ==
    ASSUME RePoEIInv, OnVersionReceived
    PROVE  RePoEIInv'
<1> DEFINE goesOn(n, version) ==
               /\ localVersion' = [localVersion EXCEPT ![dir] = version]
               /\ interrupted' = [interrupted EXCEPT ![dir] = FALSE]
               /\ RequestNextFile(n, Files)
           isThere(n) ==
               /\ FinishUpdate(n)
               /\ UNCHANGED <<localVersion, neededFiles, interrupted>>
<1>1. PICK n \in DOMAIN downloads, version \in {published, ErrorText} :
          /\ downloads[n] = "version.txt"
          /\ UNCHANGED disk
          /\ \/ goesOn(n, version)
             \/ WriteVersionFails(n)
             \/ ~UpdateNeeded(version) /\ isThere(n)
          /\ UNCHANGED <<published, dir, overlapped>>
  BY DEF OnVersionReceived
<1>2. n \in Busy
  BY <1>1, FilesFacts DEF Busy
<1>3. /\ RePoETypeOK /\ dir \in Dirs /\ published \in 1..MaxVersion
      /\ disk' \in [Dirs -> [FileNames -> Contents]]
  BY <1>1 DEF RePoEIInv, RePoETypeOK
<1>4. ~overlapped[dir] => ~initialized
  BY <1>2 DEF RePoEIInv, OneDownload
<1>5. \A f \in FileNames : ~overlapped[dir] => disk'[dir][f].file \in {f, "missing", "broken", "errorPage"}
  BY <1>1, <1>3 DEF RePoEIInv, FilesAreThemselves
<1>6. /\ version \in Claims /\ version <= published
  BY <1>3, FilesAssumption DEF Claims, ErrorText
<1>7. CASE goesOn(n, version)
  <2>1. /\ neededFiles' = Files /\ Prefix' /\ OneDownload'
        /\ neededFiles' \in Seq(FileNames)
        /\ downloads' \in Seq(FileNames \cup {Idle, "version.txt"})
        /\ initialized' \in BOOLEAN /\ finished' \in Nat /\ parsed' \in [FileNames -> Contents]
        /\ Fetching' /\ UNCHANGED <<initialized, parsed, finished>>
    <3>1. /\ Files \in Seq(FileNames) /\ Files # <<>> /\ Len(Files) <= Len(Files)
          /\ \A k \in 1..Len(Files) : Files[k] = Files[k]
      BY FilesFacts
    <3>2. RequestNextFile(n, Files) /\ UNCHANGED <<dir, overlapped>>
      BY <1>1, <1>7
    <3> QED
      BY <1>2, <1>3, <3>1, <3>2, RequestNextFileFacts
  <2>2. /\ localVersion' \in [Dirs -> Claims] /\ interrupted' \in [Dirs -> BOOLEAN]
        /\ localVersion'[dir] = version
        /\ \A d \in Dirs : d # dir => /\ localVersion'[d] = localVersion[d]
                                      /\ interrupted'[d] = interrupted[d]
    <3>1. /\ localVersion \in [Dirs -> Claims] /\ interrupted \in [Dirs -> BOOLEAN]
      BY <1>3, FilesAssumption DEF RePoETypeOK
    <3>2. /\ localVersion' = [localVersion EXCEPT ![dir] = version]
          /\ interrupted' = [interrupted EXCEPT ![dir] = FALSE]
      BY <1>1, <1>7
    <3>3. /\ localVersion' \in [Dirs -> Claims] /\ localVersion'[dir] = version
          /\ \A d \in Dirs : d # dir => localVersion'[d] = localVersion[d]
      BY <1>3, <1>6, <3>1, <3>2
    <3>4. /\ interrupted' \in [Dirs -> BOOLEAN]
          /\ \A d \in Dirs : d # dir => interrupted'[d] = interrupted[d]
      BY <1>3, <3>1, <3>2
    <3> QED
      BY <3>3, <3>4
  <2>3. RePoETypeOK'
    BY <1>1, <1>3, <2>1, <2>2 DEF RePoETypeOK
  <2>4. DirState(dir)'
    BY <1>1, <2>1, FilesFacts DEF DirState
  <2>5. ~overlapped[dir] => ReadyIsCurrent'
    BY <1>4, <2>1 DEF ReadyIsCurrent
  <2>6. localVersion'[dir] <= published
    BY <1>6, <2>2
  <2>7. \A d \in Dirs : d # dir => disk'[d] = disk[d]
    BY <1>1
  <2> QED
    BY <1>1, <1>5, <2>1, <2>2, <2>3, <2>4, <2>5, <2>6, <2>7, StepInDirectory
<1>8. CASE ~UpdateNeeded(version) /\ isThere(n)
  <2>1. /\ downloads' \in Seq(FileNames \cup {Idle, "version.txt"})
        /\ initialized' = TRUE /\ finished' \in Nat
        /\ parsed' = disk'[dir] /\ parsed' \in [FileNames -> Contents]
        /\ ~overlapped[dir] => Busy' = {}
    BY <1>1, <1>2, <1>3, <1>8, FinishUpdateFacts
  <2>2. UNCHANGED <<localVersion, neededFiles, interrupted, published, dir, overlapped, disk>>
    BY <1>1, <1>8
  <2>3. initialized' \in BOOLEAN
    BY <2>1
  <2>4. RePoETypeOK' /\ Prefix'
    BY <1>3, <2>1, <2>2, <2>3 DEF RePoETypeOK, RePoEIInv, Prefix
  <2>5. ASSUME ~overlapped[dir]
        PROVE  /\ OneDownload' /\ (~interrupted'[dir] => DirState(dir)' /\ ReadyIsCurrent')
    <3>1. OneDownload' /\ ~Fetching'
      BY <2>1, <2>5 DEF OneDownload, Fetching
    <3>2. ~Fetching
      BY <1>1, <1>2, <2>5 DEF RePoEIInv, OneDownload, Fetching
    <3>3. ~interrupted[dir] => Whole(dir)
      BY <1>3, <1>8, <2>5, <3>2 DEF RePoEIInv, DirState, UpdateNeeded, Lacking
    <3>4. ~interrupted[dir] => Whole(dir)'
      BY <2>2, <3>3 DEF Whole, Good
    <3>5. ~interrupted[dir] => Current(dir)'
      BY <2>1, <2>2, <3>4, WholeIsCurrent
    <3> QED
      BY <2>2, <3>1, <3>4, <3>5 DEF DirState, ReadyIsCurrent
  <2>6. localVersion'[dir] <= published
    BY <1>3, <2>2 DEF RePoEIInv
  <2> QED
    BY <1>5, <2>2, <2>4, <2>5, <2>6, StepInDirectory
<1>9. CASE WriteVersionFails(n)
  <2>1. /\ Await(n, Idle) /\ UNCHANGED <<initialized, parsed, finished, interrupted>>
        /\ UNCHANGED neededFiles /\ UNCHANGED disk
        /\ \/ UNCHANGED localVersion
           \/ localVersion' = [localVersion EXCEPT ![dir] = 0]
    BY <1>1, <1>9 DEF WriteVersionFails
  <2>2. neededFiles' \in Seq(FileNames) /\ Prefix'
    BY <1>3, <2>1 DEF RePoEIInv, RePoETypeOK, Prefix
  <2> QED
    BY <1>1, <1>2, <1>3, <1>5, <2>1, <2>2, CutOffPreserves
<1> QED
  BY <1>1, <1>7, <1>8, <1>9

LEMMA FilePreserves ==
    ASSUME RePoEIInv, OnFileReceived
    PROVE  RePoEIInv'
<1> DEFINE rest == SubSeq(neededFiles, 1, Len(neededFiles) - 1)
           save(c) == disk' = [disk EXCEPT ![dir][FileName] = c]
<1>1. PICK n \in DOMAIN downloads :
          /\ downloads[n] \in FileNames
          /\ neededFiles # <<>>
          /\ \/ /\ \E file \in {downloads[n], "errorPage"} :
                      save([file |-> file, version |-> published])
                /\ RequestNextFile(n, rest)
                /\ UNCHANGED interrupted
             \/ /\ save([file |-> "broken", version |-> published])
                /\ Await(n, Idle) /\ neededFiles' = rest
                /\ Interrupt
                /\ UNCHANGED <<initialized, parsed, finished>>
          /\ UNCHANGED <<published, localVersion, dir, overlapped>>
  BY DEF OnFileReceived
<1>2. n \in Busy
  BY <1>1, FilesFacts DEF Busy
<1>3. /\ RePoETypeOK /\ Prefix /\ dir \in Dirs /\ published \in 1..MaxVersion
      /\ published \in Nat /\ localVersion[dir] \in Int /\ localVersion[dir] <= published
      /\ localVersion'[dir] <= published
  BY <1>1, FilesAssumption DEF RePoEIInv, RePoETypeOK, Claims, ErrorText
<1>4. ~overlapped[dir] => ~initialized /\ downloads[n] = FileName /\ Fetching
  BY <1>1, <1>2, FilesFacts DEF RePoEIInv, OneDownload, Fetching
<1>5. /\ rest \in Seq(FileNames) /\ Len(neededFiles) \in 1..Len(Files)
      /\ Len(rest) = Len(neededFiles) - 1 /\ Len(rest) <= Len(Files)
      /\ \A k \in 1..Len(rest) : rest[k] = Files[k]
      /\ FileName \in FileNames /\ FileName = Files[Len(neededFiles)]
      /\ rest = <<>> => Len(neededFiles) = 1
  BY <1>1, <1>3, RestIsPrefix
<1> HIDE DEF rest
<1>6. ASSUME NEW file \in {downloads[n], "errorPage"},
             /\ save([file |-> file, version |-> published])
             /\ RequestNextFile(n, rest)
             /\ UNCHANGED interrupted
      PROVE  RePoEIInv'
  <2> DEFINE c == [file |-> file, version |-> published]
  <2>1. c \in Contents /\ c.file \in {downloads[n], "errorPage"} /\ c.version = published
    BY <1>1, <1>3, MissingIsContents
  <2> HIDE DEF c
  <2>2. disk' = [disk EXCEPT ![dir][FileName] = c]
    BY <1>6 DEF c
  <2>3. /\ disk' \in [Dirs -> [FileNames -> Contents]] /\ disk'[dir][FileName] = c
        /\ \A g \in FileNames : g # FileName => disk'[dir][g] = disk[dir][g]
        /\ \A d \in Dirs : d # dir => disk'[d] = disk[d]
    BY <1>3, <1>5, <2>1, <2>2, SaveWrites
  <2>4. RequestNextFile(n, rest) /\ UNCHANGED <<dir, overlapped>>
    BY <1>1, <1>6
  <2>5. /\ neededFiles' = rest /\ Prefix' /\ OneDownload'
        /\ neededFiles' \in Seq(FileNames)
        /\ downloads' \in Seq(FileNames \cup {Idle, "version.txt"})
        /\ initialized' \in BOOLEAN /\ finished' \in Nat /\ parsed' \in [FileNames -> Contents]
        /\ rest # <<>> => /\ Fetching' /\ UNCHANGED <<initialized, parsed, finished>>
        /\ rest = <<>> => /\ parsed' = disk'[dir]
                          /\ ~overlapped[dir] => ~Fetching'
    BY <1>2, <1>5, <2>3, <2>4, RequestNextFileFacts
  <2>6. RePoETypeOK'
    BY <1>1, <1>3, <1>6, <2>3, <2>5 DEF RePoETypeOK
  <2>7. ASSUME ~overlapped[dir]
        PROVE  \A f \in FileNames : disk'[dir][f].file \in {f, "missing", "broken", "errorPage"}
    <3>1. \A f \in FileNames : disk[dir][f].file \in {f, "missing", "broken", "errorPage"}
      BY <1>3, <2>7 DEF RePoEIInv, FilesAreThemselves
    <3>2. c.file \in {FileName, "errorPage"}
      BY <1>4, <2>1, <2>7
    <3> QED
      BY <2>3, <3>1, <3>2
  <2>8. ASSUME ~overlapped[dir], ~interrupted[dir]
        PROVE  DirState(dir)' /\ ReadyIsCurrent'
    <3>1. \A k \in Len(neededFiles) + 1 .. Len(Files) : Good(dir, Files[k])
      BY <1>3, <1>4, <2>8 DEF RePoEIInv, DirState
    <3>2. ASSUME NEW k \in Len(neededFiles) .. Len(Files)
          PROVE  disk'[dir][Files[k]].file \in {Files[k], "errorPage"}
                 /\ disk'[dir][Files[k]].version >= localVersion[dir]
      <4>1. CASE Files[k] = FileName
        BY <1>3, <1>4, <2>1, <2>3, <2>8, <4>1
      <4>2. CASE Files[k] # FileName
        <5>1. k \in Len(neededFiles) + 1 .. Len(Files) /\ Files[k] \in FileNames
          BY <1>5, <4>2, FilesFacts, SMTT(30)
        <5> QED
          BY <2>3, <3>1, <4>2, <5>1 DEF Good
      <4> QED
        BY <4>1, <4>2
    <3>3. CASE rest # <<>>
      <4>1. Fetching' /\ ~initialized'
        BY <1>4, <2>5, <2>8, <3>3
      <4>2. \A k \in Len(rest) + 1 .. Len(Files) : Good(dir, Files[k])'
        BY <1>1, <1>5, <3>2 DEF Good
      <4> QED
        BY <1>1, <2>5, <4>1, <4>2 DEF DirState, ReadyIsCurrent, Good
    <3>4. CASE rest = <<>>
      <4>1. \A f \in FileNames : disk'[dir][f].file \in {f, "errorPage"}
                                 /\ disk'[dir][f].version >= localVersion[dir]
        <5>1. \A k \in 1..Len(Files) : disk'[dir][Files[k]].file \in {Files[k], "errorPage"}
                                       /\ disk'[dir][Files[k]].version >= localVersion[dir]
          BY <1>5, <3>2, <3>4
        <5> QED
          BY <5>1, FilesFacts
      <4>2. Whole(dir)'
        BY <1>1, <4>1 DEF Whole, Good
      <4>3. Current(dir)'
        BY <1>1, <2>5, <3>4, <4>2, WholeIsCurrent
      <4> QED
        BY <1>1, <2>5, <2>8, <3>4, <4>2, <4>3 DEF DirState, ReadyIsCurrent
    <3> QED
      BY <3>3, <3>4
  <2> QED
    BY <1>1, <1>3, <1>6, <2>3, <2>5, <2>6, <2>7, <2>8, StepInDirectory
<1>7. CASE /\ save([file |-> "broken", version |-> published])
           /\ Await(n, Idle) /\ neededFiles' = rest
           /\ Interrupt
           /\ UNCHANGED <<initialized, parsed, finished>>
  <2> DEFINE c == [file |-> "broken", version |-> published]
  <2>1. c \in Contents /\ c.file = "broken"
    BY <1>3, MissingIsContents
  <2> HIDE DEF c
  <2>2. disk' = [disk EXCEPT ![dir][FileName] = c]
    BY <1>7 DEF c
  <2>3. /\ disk' \in [Dirs -> [FileNames -> Contents]] /\ disk'[dir][FileName] = c
        /\ \A g \in FileNames : g # FileName => disk'[dir][g] = disk[dir][g]
        /\ \A d \in Dirs : d # dir => disk'[d] = disk[d]
    BY <1>3, <1>5, <2>1, <2>2, SaveWrites
  <2>4. \A f \in FileNames : ~overlapped[dir] => disk'[dir][f].file \in {f, "missing", "broken", "errorPage"}
    BY <1>3, <2>1, <2>3 DEF RePoEIInv, FilesAreThemselves
  <2>5. Prefix'
    BY <1>5, <1>7 DEF Prefix
  <2> QED
    BY <1>1, <1>2, <1>5, <1>7, <2>3, <2>4, <2>5, CutOffPreserves
<1> QED
  BY <1>1, <1>6, <1>7 DEF rest

LEMMA FailurePreserves ==
    ASSUME RePoEIInv, RequestFails
    PROVE  RePoEIInv'
<1> DEFINE rest == SubSeq(neededFiles, 1, Len(neededFiles) - 1)
<1>1. PICK n \in Busy :
          /\ UNCHANGED disk
          /\ IF downloads[n] = "version.txt"
             THEN UNCHANGED <<neededFiles, interrupted>>
             ELSE /\ neededFiles # <<>>
                  /\ neededFiles' = rest
                  /\ Interrupt
          /\ Await(n, Idle)
          /\ UNCHANGED <<published, localVersion, dir, initialized, parsed, finished,
                         overlapped>>
  BY DEF RequestFails
<1>2. RePoETypeOK /\ Prefix /\ disk' \in [Dirs -> [FileNames -> Contents]]
  BY <1>1 DEF RePoEIInv, RePoETypeOK
<1>3. \A f \in FileNames : ~overlapped[dir] => disk'[dir][f].file \in {f, "missing", "broken", "errorPage"}
  BY <1>1, <1>2 DEF RePoEIInv, RePoETypeOK, FilesAreThemselves
<1>4. neededFiles' \in Seq(FileNames) /\ Prefix'
  <2>1. CASE neededFiles' = neededFiles
    BY <1>2, <2>1 DEF RePoETypeOK, Prefix
  <2>2. CASE neededFiles # <<>> /\ neededFiles' = rest
    <3>1. /\ rest \in Seq(FileNames) /\ Len(rest) <= Len(Files)
          /\ \A k \in 1..Len(rest) : rest[k] = Files[k]
      BY <1>2, <2>2, RestIsPrefix
    <3> QED
      BY <2>2, <3>1 DEF Prefix
  <2> QED
    BY <1>1, <2>1, <2>2
<1>5. \/ Interrupt
      \/ UNCHANGED <<interrupted, disk>> /\ downloads[n] = "version.txt"
  BY <1>1
<1> QED
  BY <1>1, <1>2, <1>3, <1>4, <1>5, CutOffPreserves

-----------------------------------------------------------------------------
(* The worker and its parser thread. *)

\* finished() is emitted once for each time the data become ready.
LEMMA DownloadFinishes ==
    ASSUME RePoEIInv, Publish \/ OnVersionReceived \/ OnFileReceived \/ RequestFails
    PROVE  /\ UNCHANGED overlapped
           /\ \/ UNCHANGED <<finished, initialized>>
              \/ /\ finished' = finished + 1 /\ initialized' = TRUE
                 /\ ~overlapped[dir] => ~initialized
<1>1. CASE Publish \/ RequestFails
  BY <1>1 DEF Publish, RequestFails
<1>2. ASSUME NEW n \in DOMAIN downloads, downloads[n] # Idle,
             UNCHANGED <<finished, initialized>> \/ FinishUpdate(n)
      PROVE  \/ UNCHANGED <<finished, initialized>>
             \/ /\ finished' = finished + 1 /\ initialized' = TRUE
                /\ ~overlapped[dir] => ~initialized
  <2>1. ~overlapped[dir] => ~initialized
    BY <1>2 DEF RePoEIInv, OneDownload, Busy
  <2> QED
    BY <1>2, <2>1 DEF FinishUpdate
<1>3. CASE OnVersionReceived
  <2>1. PICK n \in DOMAIN downloads :
            /\ downloads[n] = "version.txt" /\ UNCHANGED overlapped
            /\ \/ RequestNextFile(n, Files) \/ FinishUpdate(n)
               \/ UNCHANGED <<finished, initialized>>
    BY <1>3 DEF OnVersionReceived, WriteVersionFails
  <2>2. downloads[n] # Idle /\ (UNCHANGED <<finished, initialized>> \/ FinishUpdate(n))
    BY <2>1, FilesFacts DEF RequestNextFile
  <2> QED
    BY <1>2, <2>1, <2>2
<1>4. CASE OnFileReceived
  <2>1. PICK n \in DOMAIN downloads :
            /\ downloads[n] \in FileNames /\ UNCHANGED overlapped
            /\ \/ \E q : RequestNextFile(n, q)
               \/ UNCHANGED <<finished, initialized>>
    BY <1>4 DEF OnFileReceived
  <2>2. downloads[n] # Idle /\ (UNCHANGED <<finished, initialized>> \/ FinishUpdate(n))
    BY <2>1, FilesFacts DEF RequestNextFile
  <2> QED
    BY <1>2, <2>1, <2>2
<1> QED
  BY <1>1, <1>3, <1>4

LEMMA StartupInitEstablishes == StartupInit => StartupIInv
<1> SUFFICES ASSUME StartupInit PROVE StartupIInv
  OBVIOUS
<1>1. RePoEIInv
  BY RePoEInitEstablishes DEF StartupInit
<1>2. /\ loggedIn = FALSE /\ waiting = FALSE /\ parsers = 0 /\ thread = "none"
      /\ loaded = FALSE /\ updating = FALSE /\ updateRequest = FALSE
      /\ user = "free" /\ updates = 0
  BY DEF StartupInit
<1>3. /\ loggedIn \in BOOLEAN /\ waiting \in BOOLEAN /\ loaded \in BOOLEAN
      /\ updating \in BOOLEAN /\ updateRequest \in BOOLEAN
  BY <1>2
<1>4. StartupTypeOK
  BY <1>1, <1>2, <1>3 DEF StartupTypeOK, RePoEIInv
<1>5. ParserInv
  BY <1>2 DEF ParserInv
<1> QED
  BY <1>1, <1>4, <1>5 DEF StartupIInv

LEMMA RestartProgramPreserves ==
    ASSUME StartupIInv, RestartProgram
    PROVE  StartupIInv'
<1>1. RePoEIInv'
  BY RestartPreserves DEF StartupIInv, RestartProgram
<1>2. /\ loggedIn' = FALSE /\ waiting' = FALSE /\ parsers' = 0 /\ thread' = "none"
      /\ loaded' = FALSE /\ updating' = FALSE /\ updateRequest' = FALSE
      /\ user' = "free" /\ updates' = 0
  BY DEF RestartProgram
<1>3. /\ loggedIn' \in BOOLEAN /\ waiting' \in BOOLEAN /\ loaded' \in BOOLEAN
      /\ updating' \in BOOLEAN /\ updateRequest' \in BOOLEAN
  BY <1>2
<1>4. StartupTypeOK'
  BY <1>1, <1>2, <1>3 DEF StartupTypeOK, RePoEIInv
<1>5. ParserInv'
  BY <1>2 DEF ParserInv
<1> QED
  BY <1>1, <1>4, <1>5 DEF StartupIInv

LEMMA DownloadPreserves ==
    ASSUME StartupIInv, Download
    PROVE  StartupIInv'
<1>1. StartupTypeOK /\ RePoEIInv /\ ParserInv
  BY DEF StartupIInv
<1>2. /\ OnRePoEReady(IF waiting THEN finished' - finished ELSE 0)
      /\ UNCHANGED <<loggedIn, waiting, workerVars, user, updates>>
  BY DEF Download
<1>3. /\ UNCHANGED overlapped
      /\ \/ UNCHANGED <<finished, initialized>>
         \/ /\ finished' = finished + 1 /\ initialized' = TRUE
            /\ ~overlapped[dir] => ~initialized
  BY <1>1, DownloadFinishes DEF Download
<1>4. RePoEIInv'
  BY <1>1, PublishPreserves, VersionPreserves, FilePreserves, FailurePreserves DEF Download
<1>5. finished \in Nat /\ parsers \in Nat /\ dir \in Dirs
  BY <1>1 DEF StartupTypeOK, RePoETypeOK
<1>6. \/ UNCHANGED <<parsers, thread>> /\ (initialized => initialized')
         /\ (waiting => initialized' = initialized)
      \/ /\ waiting /\ initialized' = TRUE /\ (~overlapped[dir] => ~initialized)
         /\ parsers' = parsers + 1
         /\ thread' = IF thread = "none" THEN "parsing" ELSE thread
  <2>1. CASE ~waiting
    BY <1>2, <1>3, <1>5, <2>1 DEF OnRePoEReady
  <2>2. CASE waiting /\ UNCHANGED <<finished, initialized>>
    BY <1>2, <1>5, <2>2 DEF OnRePoEReady
  <2>3. CASE waiting /\ finished' = finished + 1 /\ initialized' = TRUE
             /\ (~overlapped[dir] => ~initialized)
    <3>1. (IF waiting THEN finished' - finished ELSE 0) = 1
      BY <1>5, <2>3
    <3>2. OnRePoEReady(1)
      BY <1>2, <3>1, Zenon
    <3>3. /\ parsers' = parsers + 1
          /\ thread' = IF thread = "none" THEN "parsing" ELSE thread
      BY <3>2 DEF OnRePoEReady
    <3> QED
      BY <2>3, <3>3
  <2> QED
    BY <1>3, <2>1, <2>2, <2>3
<1>7. StartupTypeOK'
  BY <1>1, <1>2, <1>4, <1>5, <1>6 DEF StartupTypeOK, RePoEIInv, workerVars
<1>8. ParserInv'
  <2>1. CASE UNCHANGED <<parsers, thread>> /\ (initialized => initialized')
             /\ (waiting => initialized' = initialized)
    BY <1>1, <1>2, <1>3, <2>1 DEF ParserInv, workerVars
  <2>2. CASE /\ waiting /\ initialized' = TRUE /\ (~overlapped[dir] => ~initialized)
             /\ parsers' = parsers + 1
             /\ thread' = IF thread = "none" THEN "parsing" ELSE thread
    BY <1>1, <1>2, <1>3, <1>5, <2>2 DEF ParserInv, workerVars
  <2> QED
    BY <1>6, <2>1, <2>2
<1> QED
  BY <1>4, <1>7, <1>8 DEF StartupIInv

LEMMA ChangeUserDirPreserves ==
    ASSUME StartupIInv, ChangeUserDir
    PROVE  StartupIInv'
<1>1. StartupTypeOK /\ RePoEIInv /\ ParserInv /\ ~loggedIn /\ UNCHANGED startupVars
  BY DEF StartupIInv, ChangeUserDir
<1>2. RePoEIInv'
  BY <1>1, SetUserDirPreserves DEF ChangeUserDir
<1>3. UNCHANGED initialized /\ \A d \in Dirs : overlapped[d] => overlapped'[d]
  BY DEF ChangeUserDir, SetUserDir
<1>4. StartupTypeOK'
  BY <1>1, <1>2 DEF StartupTypeOK, RePoEIInv, startupVars, workerVars
<1>5. ParserInv'
  BY <1>1, <1>3 DEF ParserInv, startupVars, workerVars
<1> QED
  BY <1>2, <1>4, <1>5 DEF StartupIInv

LEMMA LoginPreserves ==
    ASSUME StartupIInv, Login
    PROVE  StartupIInv'
<1>1. StartupTypeOK /\ RePoEIInv /\ ParserInv /\ ~loggedIn /\ parsers \in Nat
  BY DEF StartupIInv, StartupTypeOK, Login
<1>2. /\ loggedIn' = TRUE /\ Init
      /\ UNCHANGED <<repoeVars, loaded, updateRequest, user, updates>>
  BY DEF Login
<1>3. /\ updating' = TRUE /\ UNCHANGED <<initialized, overlapped>>
      /\ \/ /\ initialized /\ parsers' = parsers + 1 /\ UNCHANGED waiting
            /\ thread' = IF thread = "none" THEN "parsing" ELSE thread
         \/ /\ ~initialized /\ waiting' = TRUE /\ UNCHANGED <<parsers, thread>>
  BY <1>1, <1>2 DEF Init, OnRePoEReady, repoeVars
<1>4. RePoEIInv'
  BY <1>1, <1>2 DEF repoeVars, diskVars, RePoEIInv, RePoETypeOK, Prefix, OneDownload,
     FilesAreThemselves, DirState, Fetching, Busy, Whole, Lacking, Good, ReadyIsCurrent,
     Current, FileName
<1>5. StartupTypeOK'
  <2>1. loggedIn' \in BOOLEAN /\ updating' \in BOOLEAN /\ waiting' \in BOOLEAN
    BY <1>1, <1>2, <1>3 DEF StartupTypeOK
  <2>2. parsers' \in Nat /\ thread' \in {"none", "parsing", "loaded", "idle", "update", "start", "done"}
    BY <1>1, <1>3 DEF StartupTypeOK
  <2> QED
    BY <1>1, <1>2, <1>4, <2>1, <2>2 DEF StartupTypeOK, RePoEIInv
<1>6. ParserInv'
  BY <1>1, <1>2, <1>3 DEF ParserInv
<1> QED
  BY <1>4, <1>5, <1>6 DEF StartupIInv

\* The steps of the two threads, and none at all.
ThreadStep ==
    \/ ParseItemMods \/ ParserIsIdle \/ ParserChecks \/ ParserUpdates
    \/ AskForUpdate \/ UpdateRequest \/ Update
    \/ UNCHANGED allVars

LEMMA ThreadPreserves ==
    ASSUME StartupIInv, ThreadStep
    PROVE  StartupIInv'
<1>1. StartupTypeOK /\ RePoEIInv /\ ParserInv
  BY DEF StartupIInv
<1>2. UNCHANGED <<repoeVars, loggedIn, waiting, parsers>>
  BY DEF ThreadStep, ParseItemMods, ParserIsIdle, ParserChecks, ParserUpdates, AskForUpdate,
     UpdateRequest, Update, allVars, startupVars
<1>3. RePoEIInv'
  BY <1>1, <1>2 DEF repoeVars, diskVars, RePoEIInv, RePoETypeOK, Prefix, OneDownload,
     FilesAreThemselves, DirState, Fetching, Busy, Whole, Lacking, Good, ReadyIsCurrent,
     Current, FileName
<1>4. UNCHANGED <<initialized, overlapped>>
  BY <1>2 DEF repoeVars
<1>5. StartupTypeOK'
  <2>1. loaded' \in BOOLEAN /\ updating' \in BOOLEAN /\ updateRequest' \in BOOLEAN
    BY <1>1 DEF StartupTypeOK, ThreadStep, ParseItemMods, ParserIsIdle, ParserChecks,
       ParserUpdates, AskForUpdate, UpdateRequest, Update, allVars, startupVars, workerVars
  <2>2. /\ thread' \in {"none", "parsing", "loaded", "idle", "update", "start", "done"}
        /\ user' \in {"free", "request", "start"} /\ updates' \in Nat
    BY <1>1 DEF StartupTypeOK, ThreadStep, ParseItemMods, ParserIsIdle, ParserChecks,
       ParserUpdates, AskForUpdate, UpdateRequest, Update, allVars, startupVars, workerVars
  <2> QED
    BY <1>1, <1>2, <1>3, <2>1, <2>2 DEF StartupTypeOK, RePoEIInv
<1>6. ParserInv'
  BY <1>1, <1>2, <1>4 DEF ParserInv, ThreadStep, ParseItemMods, ParserIsIdle, ParserChecks,
     ParserUpdates, AskForUpdate, UpdateRequest, Update, allVars, startupVars, workerVars
<1> QED
  BY <1>3, <1>5, <1>6 DEF StartupIInv

LEMMA NextPreserves == StartupIInv /\ [StartupNext]_allVars => StartupIInv'
BY RestartProgramPreserves, DownloadPreserves, ChangeUserDirPreserves, LoginPreserves,
   ThreadPreserves DEF StartupNext, ThreadStep

LEMMA InvariantHolds == StartupSpec => []StartupIInv
<1> QED
  BY StartupInitEstablishes, NextPreserves, PTL DEF StartupSpec

-----------------------------------------------------------------------------
(***************************************************************************)
(* The stored items are parsed by one thread: Init, OnRePoEReady.          *)
(***************************************************************************)
THEOREM StartupInvHolds == StartupSpec => []StartupInv
<1>1. StartupIInv => StartupInv
  BY DEF StartupIInv, ParserInv, StartupInv, OneParser
<1> QED
  BY <1>1, InvariantHolds, PTL

(***************************************************************************)
(* No file is kept under another's name where no two downloads met:        *)
(* RequestNextFile, OnFileReceived.                                        *)
(***************************************************************************)
THEOREM FilesAreThemselvesHolds == StartupSpec => []FilesAreThemselves
<1>1. StartupIInv => FilesAreThemselves
  BY DEF StartupIInv, RePoEIInv
<1> QED
  BY <1>1, InvariantHolds, PTL

(***************************************************************************)
(* RePoE is ready only with what the server answered for each file, none   *)
(* of it older than the version the directory claims, cut off or missing   *)
(* (pages of errors are answers): OnVersionReceived, OnFileReceived,       *)
(* FinishUpdate.                                                           *)
(***************************************************************************)
THEOREM ReadyIsCurrentHolds == StartupSpec => []ReadyIsCurrent
<1>1. StartupIInv => ReadyIsCurrent
  BY DEF StartupIInv, RePoEIInv
<1> QED
  BY <1>1, InvariantHolds, PTL

(***************************************************************************)
(* No update begins before the stored items and the game data are there:   *)
(* Update of ItemsManager and of the worker, on either thread.             *)
(***************************************************************************)
THEOREM UpdateHasItemsHolds == StartupSpec => UpdateHasItems
<1> DEFINE Begins == updates' > updates => loaded /\ initialized
<1>1. StartupIInv /\ [StartupNext]_allVars => [Begins]_allVars
  <2> SUFFICES ASSUME StartupIInv, StartupNext, updates' > updates
               PROVE  loaded /\ initialized
    OBVIOUS
  <2>1. updates \in Nat /\ ParserInv
    BY DEF StartupIInv, StartupTypeOK
  <2>2. thread = "start" \/ user = "start"
    BY <2>1 DEF StartupNext, RestartProgram, Download, ChangeUserDir, Login, startupVars,
       ParseItemMods, ParserIsIdle, ParserChecks, ParserUpdates, AskForUpdate,
       UpdateRequest, Update
  <2> QED
    BY <2>1, <2>2 DEF ParserInv
<1>2. [][Begins]_allVars => UpdateHasItems
  BY DEF UpdateHasItems
<1> HIDE DEF Begins
<1> QED
  BY <1>1, <1>2, InvariantHolds, PTL DEF StartupSpec
=============================================================================
