----------------------------- MODULE LocalPaste -----------------------------
(***************************************************************************)
(* Pasting cut or copied local files: MoveLocalFilesThread and              *)
(* CopyLocalFilesThread, CopyOrMove, CopyOrMoveLocalFile of actions.cpp and *)
(* Copy, Move, MkDirs of fs.cpp, one file-system call per step.             *)
(*                                                                          *)
(* Abstracted: the clipboard's files and folders are the nodes of a tree;   *)
(* what stands at a node's source path and at its destination path is a     *)
(* kind, not bytes.  The recursion of CopyOrMove is the folder being walked *)
(* (dir) and the nodes done with (seen).  The question about an existing    *)
(* file is answered in one step; the protocol behind it is module Activity. *)
(* Source and destination paths are taken to be disjoint.                   *)
(***************************************************************************)
EXTENDS Tree

CONSTANTS
  ReadErrors, \* TRUE: reading a source file may fail
  FlushErrors \* the pastes, of {"cut", "copy"}, whose last bytes may fail to reach the device

ASSUME FailureAssumption == ReadErrors \in BOOLEAN /\ FlushErrors \subseteq {"cut", "copy"}

VARIABLES
  mode,       \* paste_action: "cut" or "copy"
  rule,       \* overwrite_type
  refused,    \* entries that come from local_directory, or seem to contain it
  src, dst,   \* what stands at each node's source and destination path
  pc, dir, cur, seen,
  stop,       \* stop_activity
  had,        \* ghost: the nodes present at the source when the paste began
  agreed,     \* ghost: the files whose overwriting was answered Yes
  trouble,    \* ghost: a file-system call has failed
  passed      \* ghost: something was left out: a refusal, a No, a skip, a Cancel

request == <<mode, rule, refused, had>>
tree    == <<src, dst>>
ghosts  == <<agreed, trouble, passed>>
vars    == <<request, tree, pc, dir, cur, seen, stop, ghosts>>

\* Every folder above n stands at the destination.
Stands(n) == \A d \in Nodes : n \in Below[d] => dst[d] = "dir"

\* The clipboard may be stale (files deleted since), the destination already
\* hold files ("old") or folders of the same names.
Init ==
  /\ mode \in {"cut", "copy"} /\ rule \in {"skip", "ask", "replace"}
  /\ refused \in (SUBSET (Tops \cap Dirs)) \cup {Tops}
  /\ src \in {t \in [Nodes -> {"none", "dir", "data"}] :
                /\ \A n \in Nodes : t[n] # "none" => (t[n] = "dir" <=> n \in Dirs)
                /\ WellFormed(t)}
  /\ dst \in {t \in [Nodes -> {"none", "dir", "old"}] : WellFormed(t)}
  /\ pc = "next" /\ dir = top /\ cur = top /\ seen = {}
  /\ stop = FALSE
  /\ had = {n \in Nodes : src[n] # "none"}
  /\ agreed = {} /\ trouble = FALSE /\ passed = FALSE

\* What the loop over the clipboard, or over a folder's ListDir, has left.
Todo == {n \in Nodes : Parent[n] = dir /\ n \notin seen /\ (dir = top \/ src[n] # "none")}

\* The node is done with, and the loop goes on.
Done(ns) == pc' = "next" /\ seen' = seen \cup ns

\* A return of 0 unwinds every CopyOrMove; the thread's loop ignores it.
GiveUp ==
  /\ pc' = "next" /\ dir' = top
  /\ seen' = seen \cup UNION {Under(e) : e \in {t \in Tops : cur \in Under(t)}}

\* Mutant: the cut entry is forgotten instead of its folder being walked.
PickAll ==
  /\ pc = "next" /\ ~stop
  /\ \E n \in Todo \ refused :
       /\ cur' = n
       /\ IF n \in Dirs THEN pc' = "enter" /\ seen' = seen \cup Below[n]
                        ELSE pc' = "file" /\ UNCHANGED seen
  /\ UNCHANGED <<request, tree, dir, stop, ghosts>>

\* The next file or folder.
Pick ==
  /\ pc = "next" /\ ~stop
  /\ \E n \in Todo \ refused :
       /\ cur' = n
       /\ pc' = IF n \in Dirs THEN "enter" ELSE "file"
  /\ UNCHANGED <<request, tree, dir, seen, stop, ghosts>>

\* Mutant: the loop does not move on.
RefuseStays ==
  /\ pc = "next" /\ ~stop
  /\ Todo \cap refused # {}
  /\ passed' = TRUE
  /\ UNCHANGED <<request, tree, pc, dir, cur, seen, stop, agreed, trouble>>

\* "it->directory == local_directory", or the text of local_directory begins with
\* that of the folder.
Refuse ==
  /\ pc = "next" /\ ~stop
  /\ \E n \in Todo \cap refused : Done(Under(n))
  /\ passed' = TRUE
  /\ UNCHANGED <<request, tree, dir, cur, stop, agreed, trouble>>

\* Cancel: the thread's loop breaks ...
Break ==
  /\ pc = "next" /\ dir = top
  /\ Todo = {} \/ stop
  /\ pc' = "done"
  /\ passed' = (passed \/ Todo # {})
  /\ UNCHANGED <<request, tree, dir, cur, seen, stop, agreed, trouble>>

\* ... and a folder's returns before its RmDir.
LeaveStopped ==
  /\ pc = "next" /\ dir # top /\ stop /\ Todo # {}
  /\ Done({dir}) /\ dir' = Parent[dir]
  /\ passed' = TRUE
  /\ UNCHANGED <<request, tree, cur, stop, agreed, trouble>>

\* ListDir cannot open a folder, or not read it to its end, and what it returns is taken for
\* all of it: the rest is passed over, and nobody told.
ListFails ==
  /\ pc = "next" /\ dir # top /\ Todo # {}
  /\ Done(UNION {Under(n) : n \in Todo})
  /\ trouble' = TRUE
  /\ UNCHANGED <<request, tree, dir, cur, stop, agreed, passed>>

\* Mutant: RmRecursive where the code calls RmDir.
LeaveClearing ==
  /\ pc = "next" /\ dir # top /\ Todo = {}
  /\ Done({dir}) /\ dir' = Parent[dir]
  /\ IF mode = "cut" /\ src[dir] = "dir"
       THEN src' = [n \in Nodes |-> IF n \in Under(dir) THEN "none" ELSE src[n]]
       ELSE UNCHANGED src
  /\ UNCHANGED <<request, dst, cur, stop, ghosts>>

\* The folder's loop is over.  A cut folder that is still there is removed;
\* rmdir fails when something is left in it.
Leave ==
  /\ pc = "next" /\ dir # top /\ Todo = {}
  /\ Done({dir}) /\ dir' = Parent[dir]
  /\ \/ /\ mode = "cut" /\ src[dir] = "dir"
        /\ \A n \in Below[dir] : src[n] = "none"
        /\ src' = [src EXCEPT ![dir] = "none"]
        /\ UNCHANGED trouble
     \/ /\ mode = "cut" /\ src[dir] = "dir"
        /\ trouble' = (trouble \/ \A n \in Below[dir] : src[n] = "none")
        /\ UNCHANGED src
     \/ ~(mode = "cut" /\ src[dir] = "dir") /\ UNCHANGED <<src, trouble>>
  /\ UNCHANGED <<request, dst, cur, stop, agreed, passed>>

\* MkDirs: of the folders on the way to n, those that are missing, in part or all.
MkDirs(t, wanted) ==
  \E made \in SUBSET {d \in wanted : t[d] = "none"} :
    /\ \A m \in made, d \in Nodes : m \in Below[d] => t[d] = "dir" \/ d \in made
    /\ dst' = [n \in Nodes |-> IF n \in made THEN "dir" ELSE t[n]]

Renames == mode = "cut" /\ dst[cur] = "none"

\* CopyOrMove for a folder: rename carries it whole, unless something of its name
\* is at the destination ...
RenameFolder ==
  /\ pc = "enter" /\ Renames
  /\ src[cur] = "dir" /\ Stands(cur)
  /\ dst' = [n \in Nodes |-> IF n \in Under(cur) THEN src[n] ELSE dst[n]]
  /\ src' = [n \in Nodes |-> IF n \in Under(cur) THEN "none" ELSE src[n]]
  /\ Done(Under(cur))
  /\ UNCHANGED <<request, dir, cur, stop, ghosts>>

\* ... an error other than EXDEV and EEXIST ends it ...
RenameFolderFails ==
  /\ pc = "enter" /\ Renames
  /\ GiveUp
  /\ trouble' = TRUE
  /\ UNCHANGED <<request, tree, cur, stop, agreed, passed>>

\* ... and else the destination is made and the folder walked.
Walk ==
  /\ pc = "enter"
  /\ MkDirs(dst, Above(cur) \cup {cur})
  /\ pc' = "next" /\ dir' = cur
  /\ trouble' = (trouble \/ dst'[cur] # "dir" \/ src[cur] = "none")
  /\ UNCHANGED <<request, src, cur, seen, stop, agreed, passed>>

\* CopyOrMoveLocalFile: does the destination exist, and may it be replaced?
FileExists(n) == dst[n] \in {"old", "data", "partial"}

\* Mutant: the answer is not looked at.
DecideAnyhow(yes) ==
  /\ pc = "file"
  /\ pc' = IF mode = "cut" THEN "move" ELSE "copy"
  /\ UNCHANGED <<request, tree, dir, cur, seen, stop, ghosts>>

Decide(yes) ==
  /\ pc = "file"
  /\ IF ~FileExists(cur) \/ rule = "replace" \/ (rule = "ask" /\ yes)
       THEN /\ pc' = IF mode = "cut" THEN "move" ELSE "copy"
            /\ agreed' = IF FileExists(cur) /\ rule = "ask" THEN agreed \cup {cur}
                                                          ELSE agreed
            /\ UNCHANGED <<seen, passed>>
       ELSE Done({cur}) /\ passed' = TRUE /\ UNCHANGED agreed
  /\ UNCHANGED <<request, tree, dir, cur, stop, trouble>>

\* FS::Move: rename replaces the destination, ...
RenameFile ==
  /\ pc = "move" /\ src[cur] = "data"
  /\ Stands(cur) /\ dst[cur] # "dir"
  /\ dst' = [dst EXCEPT ![cur] = "data"] /\ src' = [src EXCEPT ![cur] = "none"]
  /\ Done({cur})
  /\ UNCHANGED <<request, dir, cur, stop, ghosts>>

\* ... EXDEV and EEXIST lead to a copy, other errors are taken for success.
RenameFileFails ==
  /\ pc = "move"
  /\ \/ pc' = "copy" /\ UNCHANGED <<seen, trouble>>
     \/ Done({cur}) /\ trouble' = TRUE
  /\ UNCHANGED <<request, tree, dir, cur, stop, agreed, passed>>

\* FS::Copy up to fopen(to, "wb"), which truncates ...
OpenCopy ==
  /\ pc = "copy" /\ src[cur] = "data"
  /\ \E made \in SUBSET {d \in Above(cur) : dst[d] = "none"} :
       /\ \A d \in Above(cur) : dst[d] = "dir" \/ d \in made
       /\ dst[cur] # "dir"
       /\ dst' = [n \in Nodes |-> IF n = cur THEN "partial"
                                  ELSE IF n \in made THEN "dir" ELSE dst[n]]
  /\ pc' = "copying"
  /\ UNCHANGED <<request, src, dir, cur, seen, stop, ghosts>>

\* ... or one of its fopens fails.
OpenFails ==
  /\ pc = "copy"
  /\ MkDirs(dst, Above(cur))
  /\ GiveUp
  /\ trouble' = TRUE
  /\ UNCHANGED <<request, src, cur, stop, agreed, passed>>

\* The whole file is written ...
CopyDone ==
  /\ pc = "copying"
  /\ dst' = [dst EXCEPT ![cur] = "data"]
  /\ IF mode = "cut" THEN pc' = "remove" /\ UNCHANGED seen ELSE Done({cur})
  /\ UNCHANGED <<request, src, dir, cur, stop, ghosts>>

\* ... or only fclose, whose result is dropped, could tell that it is not ...
FlushFails ==
  /\ pc = "copying" /\ mode \in FlushErrors
  /\ IF mode = "cut" THEN pc' = "remove" /\ UNCHANGED seen ELSE Done({cur})
  /\ trouble' = TRUE
  /\ UNCHANGED <<request, tree, dir, cur, stop, agreed, passed>>

\* ... or fwrite falls short ...
WriteFails ==
  /\ pc = "copying"
  /\ GiveUp
  /\ trouble' = TRUE
  /\ UNCHANGED <<request, tree, cur, stop, agreed, passed>>

\* ... or fread returns 0 before the end: its error test never holds, and the loop
\* goes round without end, deaf to Cancel.
ReadFails ==
  /\ pc = "copying" /\ ReadErrors
  /\ pc' = "reading"
  /\ trouble' = TRUE
  /\ UNCHANGED <<request, tree, dir, cur, seen, stop, agreed, passed>>

\* Rm of the original, whose error is ignored.
Remove ==
  /\ pc = "remove"
  /\ \/ src' = [src EXCEPT ![cur] = "none"] /\ UNCHANGED trouble
     \/ trouble' = TRUE /\ UNCHANGED src
  /\ Done({cur})
  /\ UNCHANGED <<request, dst, dir, cur, stop, agreed, passed>>

Thread ==
  \/ Pick \/ Refuse \/ Break \/ LeaveStopped \/ ListFails \/ Leave
  \/ RenameFolder \/ RenameFolderFails \/ Walk
  \/ \E yes \in BOOLEAN : Decide(yes)
  \/ RenameFile \/ RenameFileFails \/ OpenCopy \/ OpenFails
  \/ CopyDone \/ FlushFails \/ WriteFails \/ ReadFails \/ Remove

\* The Cancel button of the progress popup.
Cancel ==
  /\ pc # "done" /\ ~stop
  /\ stop' = TRUE
  /\ UNCHANGED <<request, tree, pc, dir, cur, seen, ghosts>>

Next == Thread \/ Cancel

Spec == Init /\ [][Next]_vars

\* The kernel schedules the thread, its calls return and questions are answered.
FairSpec == Spec /\ WF_vars(Thread)

-----------------------------------------------------------------------------
TypeOK ==
  /\ mode \in {"cut", "copy"} /\ rule \in {"skip", "ask", "replace"}
  /\ refused \subseteq Tops
  /\ src \in [Nodes -> {"none", "dir", "data"}]
  /\ dst \in [Nodes -> {"none", "dir", "old", "data", "partial"}]
  /\ pc \in {"next", "enter", "file", "move", "copy", "copying", "reading", "remove",
             "done"}
  /\ dir \in Dirs \cup {top} /\ cur \in Nodes \cup {top}
  /\ seen \subseteq Nodes /\ had \subseteq Nodes /\ agreed \subseteq Files
  /\ stop \in BOOLEAN /\ trouble \in BOOLEAN /\ passed \in BOOLEAN

\* The files whose data stands whole at the source and at the destination.
Held == [f \in Files |-> (IF src[f] = "data" THEN {"src"} ELSE {})
                         \cup (IF dst[f] = "data" THEN {"dst"} ELSE {})]

Abstract == INSTANCE Relocation WITH held <- Held

\* A paste moves, copies and removes files only as Relocation says: a file's data is
\* at no moment nowhere.
Relocates == Abstract!Spec

\* No paste loses a file: what the source held stands whole at the source or at the
\* destination, in every state a crash could leave.
NoFileLost == \A f \in had \cap Files : Held[f] # {}

\* While no call has failed a moved file is at one place, half a file is only what is
\* being written, and a copy takes nothing from the source: whatever was skipped,
\* refused or cancelled.
ExactlyOnce ==
  ~trouble =>
    /\ \A f \in Files :
         /\ (mode = "cut" /\ Held[f] = {"src", "dst"}) => pc = "remove" /\ cur = f
         /\ dst[f] = "partial" => pc = "copying" /\ cur = f
    /\ mode = "copy" => had = {n \in Nodes : src[n] # "none"}

\* A paste that met no failure, no refusal, no No and no Cancel is complete when it
\* ends: everything is at the destination, and after a move nothing at the source.
Complete ==
  pc = "done" /\ ~trouble /\ ~passed =>
    /\ \A n \in had : dst[n] = IF n \in Dirs THEN "dir" ELSE "data"
    /\ mode = "cut" => \A n \in Nodes : src[n] = "none"

\* An existing file of the destination is replaced, or truncated, only under
\* "replace all" or after a Yes to the question about it.
Agreed(n) == dst[n] = "old" /\ dst'[n] # "old"
               => rule = "replace" \/ (rule = "ask" /\ n \in agreed)

ReplacedWithConsent == [][\A n \in Nodes : Agreed(n)]_vars

\* Every paste ends, a cancelled one too, but for one with a read that keeps failing.
PasteEndsOrReads == <>(pc \in {"done", "reading"})
=============================================================================
