------------------------------- MODULE Archive -------------------------------
(***************************************************************************)
(* Archives: extracting the marked ones into a folder (ExtractZipThread,     *)
(* ExtractRemoteZipThread, ZipUtil::Extract) and making one of the marked    *)
(* files and folders (MakeZipThread, ZipAddPath).  libarchive and libzip are  *)
(* what the code expects of them: a sequence of entries to read, and a set of *)
(* names that is only written, and its files only read, by zip_close.       *)
(***************************************************************************)
EXTENDS Tree, Integers, Sequences

CONSTANTS
  Listing,        \* the entries of each marked archive, in order
  Folders,        \* which of the marked ones are folders
  Entries, Kind,  \* "file", "dir", "link", or "other": refused, or neither of these
  Name,           \* the name an entry is extracted to
  Names, In,      \* all names, and the folder each is in; top for the chosen folder
  MaxFails        \* bound: calls that fail

ASSUME ArchiveAssumption ==
  /\ Listing \in Seq(Seq(Entries)) /\ Folders \subseteq DOMAIN Listing
  /\ Kind \in [Entries -> {"file", "dir", "link", "other"}] /\ Name \in [Entries -> Names]
  /\ In \in [Names -> Names \cup {top}]
  /\ Entries \cap {"none", "dir", "old", "part"} = {}
  /\ MaxFails \in Nat

VARIABLES
  op, step,       \* "extract" or "zip", and where the thread is
  remote,         \* the archives are on a server
  disk, start,    \* what has each name: "none", "dir", "old", "part" or an entry; ghost: at first
  arc, pos,       \* the archive in hand and the entry next in it
  zip, existing,  \* the names in the archive being made, and in the one there was
  seen, dir,      \* ZipAddPath: what is done with, the folder being read
  poisoned,       \* a source that zip_close will not be able to read has been added
  made,           \* the names in the file on the disk
  stop, told,     \* stop_activity; status_message is not empty
  fails, unseen   \* bounded count; ghost: the entries, the nodes, that failures nothing tells cost

extraction  == <<remote, disk, start, arc, pos>>
zipping     == <<zip, existing, seen, dir, poisoned, made>>
archiveVars == <<op, step, extraction, zipping, stop, told, fails, unseen>>

Fails == fails < MaxFails /\ fails' = fails + 1

ArchiveInit ==
  /\ op \in {"extract", "zip"} /\ step = "open"
  /\ remote \in IF op = "zip" THEN {FALSE} ELSE BOOLEAN
  /\ start \in {d \in [Names -> IF op = "zip" THEN {"none"} ELSE {"none", "dir", "old"}] :
                  \A n \in Names : d[n] # "none" /\ In[n] # top => d[In[n]] = "dir"}
  /\ disk = start /\ arc = 1 /\ pos = 1
  /\ existing \in IF op = "zip" THEN SUBSET Tops ELSE {{}}
  /\ zip = existing /\ made = existing
  /\ seen = {} /\ dir = top /\ poisoned = FALSE
  /\ stop = FALSE /\ told = FALSE /\ fails = 0 /\ unseen = {}

\* The Cancel button.
Cancel ==
  /\ step # "done" /\ ~stop /\ stop' = TRUE
  /\ UNCHANGED <<op, step, extraction, zipping, told, fails, unseen>>

-----------------------------------------------------------------------------
(* ZipUtil::Extract.                                                        *)

NextArchive == arc' = arc + 1 /\ pos' = 1 /\ step' = "open"

\* The loop over the marked entries.
FinishExtract ==
  /\ op = "extract" /\ step = "open" /\ (stop \/ arc > Len(Listing))
  /\ step' = "done"
  /\ UNCHANGED <<op, extraction, zipping, stop, told, fails, unseen>>

PassFolder ==
  /\ op = "extract" /\ step = "open" /\ ~stop /\ arc \in Folders
  /\ NextArchive
  /\ UNCHANGED <<op, remote, disk, start, zipping, stop, told, fails, unseen>>

OpenArchive ==
  /\ op = "extract" /\ step = "open" /\ ~stop /\ arc \in DOMAIN Listing \ Folders
  /\ step' = "entry"
  /\ UNCHANGED <<op, extraction, zipping, stop, told, fails, unseen>>

\* Mutant: the result of Extract is ignored.
ReadFailsQuietly ==
  /\ op = "extract" /\ step = "entry" /\ ~stop /\ Fails
  /\ NextArchive
  /\ UNCHANGED <<op, remote, disk, start, zipping, stop, told, unseen>>

\* The archive cannot be opened, or the next header not be read: the archive is given up.
ReadFails ==
  /\ op = "extract" /\ Fails /\ told' = TRUE
  /\ \/ step = "open" /\ ~stop /\ arc \in DOMAIN Listing \ Folders
     \/ step = "entry" /\ ~stop
  /\ NextArchive
  /\ UNCHANGED <<op, remote, disk, start, zipping, stop, unseen>>

\* What is left of an archive is not seen: OpenRemoteArchive does not look at what Size
\* returns, and one of no bytes is empty; and GetRange returns 1 for an FTP transfer that
\* broke, and for whatever status and length a web server answers with, so ReadRemoteArchive
\* counts bytes that never came as read, and a header among them is the end of the archive.
CutShort ==
  /\ op = "extract" /\ remote /\ ~stop /\ Fails
  /\ \/ step = "open" /\ arc \in DOMAIN Listing \ Folders
     \/ step = "entry"
  /\ unseen' = unseen \cup {Listing[arc][i] : i \in pos .. Len(Listing[arc])}
  /\ NextArchive
  /\ UNCHANGED <<op, remote, disk, start, zipping, stop, told>>

\* ARCHIVE_EOF, or Cancel.
EndOfArchive ==
  /\ op = "extract" /\ step = "entry" /\ (stop \/ pos > Len(Listing[arc]))
  /\ NextArchive
  /\ UNCHANGED <<op, remote, disk, start, zipping, stop, told, fails, unseen>>

entry == Listing[arc][pos]
name  == Name[entry]
AtEntry(kinds) ==
  /\ op = "extract" /\ step = "entry" /\ ~stop
  /\ pos <= Len(Listing[arc]) /\ Kind[entry] \in kinds
  /\ UNCHANGED <<op, remote, start, arc, zipping, stop, told, fails, unseen>>

NextEntry == pos' = pos + 1 /\ step' = "entry"

IsFile(d, n) == d[n] \notin {"none", "dir"}

\* FS::MkDirs of the folder a name is in; a file in its place stays.
WithFolder(d, n) ==
  IF In[n] = top \/ d[In[n]] # "none" THEN d ELSE [d EXCEPT ![In[n]] = "dir"]
FolderThere(d, n) == In[n] # top => d[In[n]] = "dir"

SkipEntry == AtEntry({"other"}) /\ NextEntry /\ UNCHANGED disk

\* extract_dir; that a folder cannot be made is not told.
ExtractDir ==
  /\ AtEntry({"dir"}) /\ NextEntry
  /\ LET d == WithFolder(disk, name)
     IN  disk' = IF FolderThere(d, name) /\ d[name] = "none"
                   THEN [d EXCEPT ![name] = "dir"] ELSE d

ExtractFile ==
  /\ AtEntry({"file", "link"})
  /\ disk' = WithFolder(disk, name) /\ step' = "unlink"
  /\ UNCHANGED pos

\* Within extract_file, where nobody looks at stop_activity.
InFile(s) ==
  /\ op = "extract" /\ step = s
  /\ UNCHANGED <<op, remote, start, arc, zipping, stop>>

\* The file in the way is removed, or stays: nobody looks.  No links are made.
Unlink ==
  /\ InFile("unlink")
  /\ \/ IsFile(disk, name) /\ disk' = [disk EXCEPT ![name] = "none"] /\ UNCHANGED fails
     \/ UNCHANGED disk /\ IF IsFile(disk, name) THEN Fails ELSE UNCHANGED fails
  /\ IF Kind[entry] = "link" THEN NextEntry ELSE step' = "create" /\ UNCHANGED pos
  /\ UNCHANGED <<told, unseen>>

Creatable == FolderThere(disk, name) /\ disk[name] # "dir"

Create ==
  /\ InFile("create") /\ Creatable
  /\ disk' = [disk EXCEPT ![name] = "part"] /\ step' = "write"
  /\ UNCHANGED <<pos, told, fails, unseen>>

CreateFails ==
  /\ InFile("create") /\ IF Creatable THEN Fails ELSE UNCHANGED fails
  /\ told' = TRUE /\ NextEntry
  /\ UNCHANGED <<disk, unseen>>

\* extract2fd: all of the data, as far as the thread can tell.
Write ==
  /\ InFile("write") /\ step' = "close"
  /\ UNCHANGED <<disk, pos, told, fails, unseen>>

\* Mutant: the data that could not be read is not told of.
WriteFailsQuietly ==
  /\ InFile("write") /\ Fails /\ NextEntry
  /\ UNCHANGED <<disk, told, unseen>>

\* The data cannot be read or written; the part of it that was is closed, and stays.
WriteFails ==
  /\ InFile("write") /\ Fails
  /\ told' = TRUE /\ NextEntry
  /\ UNCHANGED <<disk, unseen>>

\* As CutShort: bytes that never came are written, and nothing tells.
WriteWrong ==
  /\ InFile("write") /\ remote /\ Fails
  /\ unseen' = unseen \cup {entry} /\ NextEntry
  /\ UNCHANGED <<disk, told>>

Close ==
  /\ InFile("close")
  /\ disk' = [disk EXCEPT ![name] = entry] /\ NextEntry
  /\ UNCHANGED <<told, fails, unseen>>

\* FS::Close fails: the last of the data is not written, and nothing tells.
CloseFails ==
  /\ InFile("close") /\ Fails
  /\ unseen' = unseen \cup {entry} /\ NextEntry
  /\ UNCHANGED <<disk, told>>

-----------------------------------------------------------------------------
(* MakeZipThread and ZipAddPath.                                            *)

\* zip_open, with what an archive of that name holds.
ZipOpen(opened) ==
  /\ op = "zip" /\ step = "open"
  /\ IF opened THEN step' = "next" /\ UNCHANGED <<told, fails>>
               ELSE step' = "done" /\ Fails /\ told' = TRUE
  /\ UNCHANGED <<op, extraction, zipping, stop, unseen>>

Todo == {n \in Nodes \ seen : Parent[n] = dir}

\* ZipAddFile, or opendir and ZipAddFolder: the node next in the folder.
ZipAdd(n) ==
  /\ op = "zip" /\ step = "next" /\ ~stop /\ n \in Todo /\ n \notin zip
  /\ zip' = zip \cup {n}
  /\ IF n \in Dirs THEN dir' = n /\ UNCHANGED seen ELSE seen' = seen \cup {n} /\ UNCHANGED dir
  /\ UNCHANGED <<op, step, extraction, existing, poisoned, made, stop, told, fails, unseen>>

\* A folder that cannot be opened is added as a file, a file that cannot be read as well:
\* only zip_close will find out.
ZipAddUnreadable(n) ==
  /\ op = "zip" /\ step = "next" /\ ~stop /\ n \in Todo /\ n \notin zip /\ Fails
  /\ zip' = zip \cup {n} /\ seen' = seen \cup Under(n) /\ poisoned' = TRUE
  /\ UNCHANGED <<op, step, extraction, existing, dir, made, stop, told, unseen>>

\* The marked entry that n is or is in.
TopOf(n) == CHOOSE t \in Tops : n \in Under(t)

\* Mutant: the walk goes on behind a node that could not be added, and its result is lost.
ZipAddFailsQuietly(n) ==
  /\ op = "zip" /\ step = "next" /\ ~stop /\ n \in Todo /\ (n \in zip \/ Fails)
  /\ seen' = seen \cup Under(n)
  /\ n \in zip => UNCHANGED fails
  /\ UNCHANGED <<op, step, extraction, zip, existing, dir, poisoned, made, stop, told, unseen>>

\* zip_add or zip_add_dir fails, as for a name that an existing archive has: every folder
\* above gives up, the next marked entry is tried.
ZipAddFails(n) ==
  /\ op = "zip" /\ step = "next" /\ ~stop /\ n \in Todo
  /\ \/ n \in zip /\ UNCHANGED fails
     \/ n \notin zip /\ Fails
  /\ seen' = seen \cup Under(TopOf(n)) /\ dir' = top /\ told' = TRUE
  /\ UNCHANGED <<op, step, extraction, zip, existing, poisoned, made, stop, unseen>>

\* A folder's loop is over: readdir has no more of it, or fails, which looks the same.
ZipLeave ==
  /\ op = "zip" /\ step = "next" /\ ~stop /\ dir # top
  /\ IF Todo = {} THEN UNCHANGED fails ELSE Fails
  /\ unseen' = unseen \cup UNION {Under(n) : n \in Todo}
  /\ seen' = seen \cup Under(dir) /\ dir' = Parent[dir]
  /\ UNCHANGED <<op, step, extraction, zip, existing, poisoned, made, stop, told>>

\* zip_close, also after Cancel, which every loop looks at, and after a failure.  When it
\* fails the file on the disk is what it was, and nothing tells.
ZipClose(written) ==
  /\ op = "zip" /\ step = "next" /\ (stop \/ (Todo = {} /\ dir = top))
  /\ step' = "done"
  /\ IF written
       THEN ~poisoned /\ made' = zip /\ UNCHANGED <<fails, unseen>>
       ELSE /\ \/ poisoned /\ UNCHANGED fails
               \/ ~poisoned /\ Fails
            /\ unseen' = unseen \cup Nodes /\ UNCHANGED made
  /\ UNCHANGED <<op, extraction, zip, existing, seen, dir, poisoned, stop, told>>

-----------------------------------------------------------------------------
Thread ==
  \/ FinishExtract \/ PassFolder \/ OpenArchive \/ ReadFails \/ CutShort \/ EndOfArchive
  \/ SkipEntry \/ ExtractDir \/ ExtractFile \/ Unlink \/ Create \/ CreateFails
  \/ Write \/ WriteFails \/ WriteWrong \/ Close \/ CloseFails
  \/ \E b \in BOOLEAN : ZipOpen(b) \/ ZipClose(b)
  \/ \E n \in Nodes : ZipAdd(n) \/ ZipAddUnreadable(n) \/ ZipAddFails(n)
  \/ ZipLeave

ArchiveNext == Thread \/ Cancel

ArchiveSpec == ArchiveInit /\ [][ArchiveNext]_archiveVars
-----------------------------------------------------------------------------
ArchiveTypes ==
  /\ op \in {"extract", "zip"} /\ step \in {"open", "entry", "unlink", "create", "write", "close", "next", "done"}
  /\ disk \in [Names -> {"none", "dir", "old", "part"} \cup Entries]
  /\ arc \in 1 .. Len(Listing) + 1 /\ pos \in Nat \ {0}
  /\ {zip, made, existing, seen} \subseteq SUBSET Nodes
  /\ dir \in Dirs \cup {top}
  /\ unseen \subseteq Entries \cup Nodes
  /\ {remote, stop, told, poisoned} \subseteq BOOLEAN

\* Whether an entry that comes behind the i-th of archive k has its name.
Again(k, i) ==
  \E l \in DOMAIN Listing \ Folders : \E j \in DOMAIN Listing[l] :
    /\ l > k \/ (l = k /\ j > i)
    /\ Name[Listing[l][j]] = Name[Listing[k][i]] /\ Kind[Listing[l][j]] \in {"file", "link"}

\* ExtractZipThread, Extract, extract_file: an extraction that was not cancelled and ends
\* with an empty status line has put every file of every archive where its name says, the
\* last one of a name, but for exactly those that a failed Size, a remote read that GetRange
\* takes for whole or the failed close of the file itself cost.
ExtractedOrTold ==
  op = "extract" /\ step = "done" /\ ~stop /\ ~told =>
    \A k \in DOMAIN Listing \ Folders : \A i \in DOMAIN Listing[k] :
      Kind[Listing[k][i]] = "file" /\ ~Again(k, i) /\ Listing[k][i] \notin unseen
        => disk[Name[Listing[k][i]]] = Listing[k][i]

\* The file with name n is gone or half, and the thread has yet to put the new one there.
InHand(n) == step \in {"create", "write", "close"} /\ name = n

\* extract_file, which removes what is in the way without asking: a file that was there is
\* still there, or all of another is, or a message tells; but while its own replacement is
\* being written, when a link of its name removed it, and when a failure that nothing tells
\* hit its own replacement.  Cancel leaves no file in that window.
LostIsTold ==
  \A n \in Names : start[n] = "old" /\ disk[n] \notin {"old"} \cup Entries =>
    \/ told \/ InHand(n)
    \/ \E e \in Entries : Name[e] = n /\ (Kind[e] = "link" \/ e \in unseen)

\* MakeZipThread, ZipAddPath: unless it was cancelled, what is told to have worked has made
\* an archive that holds all that was marked and all below it, but for what a failing
\* readdir passed over, and for all of it when zip_close failed; what an archive of that
\* name held is still in it.
ZippedOrTold ==
  op = "zip" /\ step = "done" /\ ~stop /\ ~told =>
    existing \cup (Nodes \ unseen) \subseteq made
=============================================================================
