-------------------------------- MODULE RePoE --------------------------------
(***************************************************************************)
(* RePoE (src/util/repoe.cpp): the download of the game data without which *)
(* no item can be parsed.  Init asks for the published version.  If that   *)
(* is not the local one, or a file is missing, version.txt is written and  *)
(* then the files are fetched one by one.  Data directories outlive the    *)
(* program; the program is closed and started at any time, and the user    *)
(* may choose another directory while a download is going on.              *)
(*                                                                         *)
(* What a file holds is the file it was published as and in what version,  *)
(* or the page of an error: reply->error() is compared with 200..299 as if *)
(* it were an HTTP status, but Qt's errors about the content (access       *)
(* denied, not found, ...) have those numbers, so such a page passes for   *)
(* what was asked.                                                         *)
(***************************************************************************)
EXTENDS Integers, Sequences, FiniteSets

CONSTANTS
    Files,           \* REPOE_FILES and STAT_TRANSLATIONS, in that order
    Dirs,            \* data directories
    MaxVersion,      \* bound: versions published
    MaxInits         \* bound: calls of Init

Missing == [file |-> "missing", version |-> 0]
ErrorText == -1      \* version.txt holds the page of an error, and claims nothing
FileNames == {Files[k] : k \in DOMAIN Files}

ASSUME FilesAssumption ==
    /\ Files \in Seq(STRING) /\ Files # <<>> /\ Dirs # {}
    /\ {"missing", "broken", "errorPage", "version.txt", "idle"} \cap FileNames = {}
    /\ MaxVersion \in Nat \ {0} /\ MaxInits \in Nat

VARIABLES
    published,       \* the version on the server
    disk,            \* per directory and file, what it holds
    localVersion,    \* per directory, what version.txt says (0: nothing)
    dir,             \* m_data_dir
    initialized,     \* m_initialized
    neededFiles,     \* m_needed_files
    downloads,       \* for each call of Init, what it waits for
    parsed,          \* what FinishUpdate read of each file (all missing before it)
    finished,        \* how often finished() was emitted
    overlapped,      \* per directory: two downloads were under way at once
    interrupted      \* per directory: a download was cut short with no file missing

diskVars == <<disk, localVersion>>
repoeVars ==
    <<published, diskVars, dir, initialized, neededFiles, downloads, parsed,
      finished, overlapped, interrupted>>

Contents ==
    [file : FileNames \cup {"broken", "errorPage"}, version : 1..MaxVersion] \cup {Missing}
NoFiles == [f \in FileNames |-> Missing]
Claims == 0..MaxVersion \cup {ErrorText}
Idle == "idle"
Busy == {n \in DOMAIN downloads : downloads[n] # Idle}

-----------------------------------------------------------------------------
RePoEInit ==
    /\ published = 1
    /\ disk = [d \in Dirs |-> NoFiles]
    /\ localVersion = [d \in Dirs |-> 0]
    /\ dir \in Dirs
    /\ initialized = FALSE /\ neededFiles = <<>> /\ parsed = NoFiles
    /\ finished = 0
    /\ downloads = <<"version.txt">>
    /\ overlapped = [d \in Dirs |-> FALSE] /\ interrupted = [d \in Dirs |-> FALSE]

\* The download of the files stops here.  Whether the next Init notices depends on
\* whether a file is missing.
Interrupt ==
    interrupted' = [interrupted EXCEPT ![dir] = \A f \in FileNames : disk'[dir][f] # Missing]

\* The program is closed, or dies, and is started again.
Restart ==
    /\ Len(downloads) < MaxInits
    /\ dir' \in Dirs
    /\ initialized' = FALSE /\ neededFiles' = <<>> /\ parsed' = NoFiles
    /\ finished' = 0
    /\ downloads' = [n \in 1..Len(downloads) + 1 |->
                        IF n > Len(downloads) THEN "version.txt" ELSE Idle]
    /\ UNCHANGED <<published, diskVars, overlapped>>
    /\ IF \E n \in Busy : downloads[n] # "version.txt" THEN Interrupt
       ELSE UNCHANGED interrupted

Publish ==
    /\ published < MaxVersion
    /\ published' = published + 1
    /\ UNCHANGED <<diskVars, dir, initialized, neededFiles, downloads, parsed,
                   finished, overlapped, interrupted>>

\* Application::SetUserDir: Init for another directory, by the same RePoE object.
SetUserDir ==
    /\ Len(downloads) < MaxInits
    /\ ~initialized
    /\ dir' \in Dirs
    /\ downloads' = Append(downloads, "version.txt")
    /\ overlapped' = [d \in Dirs |-> overlapped[d] \/ (Busy # {} /\ d \in {dir, dir'})]
    /\ UNCHANGED <<published, diskVars, initialized, neededFiles, parsed, finished,
                   interrupted>>

-----------------------------------------------------------------------------
Await(n, what) == downloads' = [downloads EXCEPT ![n] = what]

\* FinishUpdate: the files of the directory are read as they are.
FinishUpdate(n) ==
    /\ initialized' = TRUE /\ finished' = finished + 1
    /\ parsed' = disk'[dir]
    /\ Await(n, Idle)

\* RequestNextFile with the files q still needed, the last one first.
RequestNextFile(n, q) ==
    /\ neededFiles' = q
    /\ IF q = <<>> THEN FinishUpdate(n)
       ELSE Await(n, q[Len(q)]) /\ UNCHANGED <<initialized, parsed, finished>>

\* Mutant: only the version decides.
VersionNeeded(version) == localVersion[dir] # version

\* The local version differs from the one received, or a file is not there.
UpdateNeeded(version) ==
    localVersion[dir] # version \/ \E f \in FileNames : disk[dir][f] = Missing

\* version.txt cannot be opened for writing, or is left empty; nothing goes on.
WriteVersionFails(n) ==
    /\ Await(n, Idle)
    /\ \/ UNCHANGED localVersion
       \/ localVersion' = [localVersion EXCEPT ![dir] = 0]
    /\ UNCHANGED <<neededFiles, initialized, parsed, finished, interrupted>>

\* The version arrives, or the page of an error in its place: version.txt is written
\* before any file is fetched.
OnVersionReceived ==
    \E n \in DOMAIN downloads, version \in {published, ErrorText} :
        /\ downloads[n] = "version.txt"
        /\ UNCHANGED disk
        /\ \/ /\ UpdateNeeded(version) \/ version = ErrorText   \* it may be another page
              /\ \/ /\ localVersion' = [localVersion EXCEPT ![dir] = version]
                    /\ interrupted' = [interrupted EXCEPT ![dir] = FALSE]
                    /\ RequestNextFile(n, Files)
                 \/ WriteVersionFails(n)
           \/ /\ ~UpdateNeeded(version)
              /\ FinishUpdate(n)
              /\ UNCHANGED <<localVersion, neededFiles, interrupted>>
        /\ UNCHANGED <<published, dir, overlapped>>

\* Mutant: the name of the file is taken after the pop.
ShiftedFileName ==
    IF Len(neededFiles) > 1 THEN neededFiles[Len(neededFiles) - 1] ELSE neededFiles[1]

\* The name under which a reply is saved: the back of m_needed_files, not what was asked.
FileName == neededFiles[Len(neededFiles)]

(***************************************************************************)
(* A file arrives and is saved; what is on the server now is what comes,   *)
(* or the page of an error, which is saved as if it were the file.         *)
(* A write that fails leaves a broken file behind, and nothing goes on.    *)
(* With nothing left in m_needed_files, after two overlapping downloads,   *)
(* the code takes the back of an empty vector: the program ends there.     *)
(***************************************************************************)
OnFileReceived ==
    \E n \in DOMAIN downloads :
        /\ downloads[n] \in FileNames
        /\ neededFiles # <<>>
        /\ LET rest == SubSeq(neededFiles, 1, Len(neededFiles) - 1)
               save(c) == disk' = [disk EXCEPT ![dir][FileName] = c]
           IN  \/ /\ \E file \in {downloads[n], "errorPage"} :
                        save([file |-> file, version |-> published])
                  /\ RequestNextFile(n, rest)
                  /\ UNCHANGED interrupted
               \/ /\ save([file |-> "broken", version |-> published])
                  /\ Await(n, Idle) /\ neededFiles' = rest
                  /\ Interrupt
                  /\ UNCHANGED <<initialized, parsed, finished>>
        /\ UNCHANGED <<published, localVersion, dir, overlapped>>

\* A request fails with an error of another number (the connection, the proxy, the
\* server): it is logged, and that is all.
RequestFails ==
    \E n \in Busy :
        /\ UNCHANGED disk
        /\ IF downloads[n] = "version.txt"
           THEN UNCHANGED <<neededFiles, interrupted>>
           ELSE /\ neededFiles # <<>>
                /\ neededFiles' = SubSeq(neededFiles, 1, Len(neededFiles) - 1)
                /\ Interrupt
        /\ Await(n, Idle)
        /\ UNCHANGED <<published, localVersion, dir, initialized, parsed, finished,
                       overlapped>>

-----------------------------------------------------------------------------
(* Properties. *)

RePoETypeOK ==
    /\ published \in 1..MaxVersion
    /\ disk \in [Dirs -> [FileNames -> Contents]]
    /\ localVersion \in [Dirs -> Claims]
    /\ dir \in Dirs /\ initialized \in BOOLEAN
    /\ neededFiles \in Seq(FileNames)
    /\ downloads \in Seq(FileNames \cup {Idle, "version.txt"})
    /\ parsed \in [FileNames -> Contents] /\ finished \in Nat
    /\ overlapped \in [Dirs -> BOOLEAN] /\ interrupted \in [Dirs -> BOOLEAN]

(***************************************************************************)
(* What was downloaded as one file is not kept as another, in any          *)
(* directory in which no two downloads were under way at once.             *)
(***************************************************************************)
FilesAreThemselves ==
    \A d \in Dirs : ~overlapped[d] =>
        \A f \in FileNames : disk[d][f].file \in {f, "missing", "broken", "errorPage"}

\* What is parsed as each file is what the server answered for it, when the version the
\* directory claims was published or later.
Current(d) ==
    \A f \in FileNames :
        parsed[f].file \in {f, "errorPage"} /\ parsed[f].version >= localVersion[d]

(***************************************************************************)
(* The program is ready only with an answer of the server for every file,  *)
(* none older than the local version and none cut off: a download that was *)
(* cut short while a file was missing is made good the next time.  (Not so *)
(* when none was missing, or when two overlapped.)  An answer may be the   *)
(* page of an error: the code goes on with it and is ready all the same.   *)
(***************************************************************************)
ReadyIsCurrent ==
    initialized /\ ~overlapped[dir] /\ ~interrupted[dir] => Current(dir)

=============================================================================
