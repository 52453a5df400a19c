------------------------------- MODULE Install -------------------------------
(***************************************************************************)
(* Installing packages from a server (InstallRemotePkgsThread): a package is *)
(* queued for the system's own downloader (InstallRemotePkg), or downloaded  *)
(* to temp_folder and handed to the system's installer (DownloadAndInstallPkg, *)
(* InstallLocalPkg), with its licence.  A task is a numbered folder that the  *)
(* system finds when the program is over; most calls that fill it, and the    *)
(* renames, are not looked at.                                              *)
(***************************************************************************)
EXTENDS Integers

CONSTANTS
  Packages, Contents, Content,   \* marked packages, and the content id in the header of each
  Others,                        \* what else is marked: folders, other files, other headers
  Beside,                        \* which licences, "rap" or "rif", are beside each content id
  Ids,                           \* task numbers from the first, as many as are tried
  MaxStarts, MaxFails            \* bounds: installs begun, calls that fail

First == 1
Kinds == {"queue", "install"}
Tasks == Kinds \X Ids
Licences == {"rap", "rif"}
Absent == {"absent"}
Part == "part"          \* part of a package

ASSUME InstallAssumption ==
  /\ Content \in [Packages -> Contents] /\ Beside \in [Contents -> SUBSET Licences]
  /\ Packages \cap Others = {} /\ Ids \subseteq Nat /\ First \in Ids
  /\ MaxStarts \in Nat /\ MaxFails \in Nat /\ Packages # {}
  /\ {"none", Part, "stub", "d0", "d1", "f0", "foreign", "absent"} \cap Packages = {}

VARIABLES
  cross,       \* temp_folder is not on the internal disk
  account,     \* selected_ps3account: "none", "inactive" (no act.dat) or "active"
  tasks,       \* the task folders: Absent, or what is in them
  temp,        \* temp_folder: the package, the rap and the rif of each content id
  exdata,      \* the rif of each content id in the account's folder
  next_id,     \* queue_task_id and install_task_id
  pc, mode,    \* the thread; "install" is download_and_install
  files, it, id,
  result,      \* what each file is counted as: success, failed, skipped
  stop,        \* stop_activity
  starts, fails,           \* bounded counts
  before,                  \* ghost: the task folders there were when the package was begun
  untasked, unlicensed,    \* ghost: a call for the task, or for the licence, failed; its task
                           \* was taken for free
  broken                   \* ghost: contents of whose licence only part came once

settings == <<cross, account>>
disk     == <<tasks, temp, exdata>>
list     == <<mode, files, stop, starts>>
ghosts   == <<before, untasked, unlicensed, broken>>
vars     == <<settings, disk, next_id, pc, list, it, id, result, fails, ghosts>>

Marked == Packages \cup Others
c == Content[it]
task == <<mode, id>>
Some == CHOOSE p \in Packages : TRUE
Busy == pc \in {"stub", "move", "rif", "pdb"}

-----------------------------------------------------------------------------
Init ==
  /\ cross \in BOOLEAN /\ account \in {"none", "inactive", "active"}
  /\ \E taken \in SUBSET Kinds :
       tasks = [t \in Tasks |-> IF t[1] \in taken /\ t[2] = First THEN {"foreign"} ELSE Absent]
  /\ temp = [x \in Contents |-> [pkg |-> "none", rap |-> "none", rif |-> "none"]]
  /\ exdata = [x \in Contents |-> "none"]
  /\ next_id = [k \in Kinds |-> First]
  /\ pc = "idle" /\ mode = "install" /\ files = {} /\ it = Some /\ id = First
  /\ result = [p \in Marked |-> "none"]
  /\ stop = FALSE /\ starts = 0 /\ fails = 0
  /\ before = {} /\ untasked = {} /\ unlicensed = {} /\ broken = {}

Fails == fails < MaxFails /\ fails' = fails + 1

\* bd: the site's background download is on; can: canInstallRemotePkg.
Start(marked, bd, can) ==
  /\ pc = "idle" /\ starts < MaxStarts /\ marked # {}
  /\ pc' = (IF bd /\ ~can THEN "ask" ELSE "next")
  /\ mode' = (IF bd THEN "queue" ELSE "install")
  /\ files' = marked /\ stop' = FALSE /\ starts' = starts + 1
  /\ result' = [p \in Marked |-> "none"] /\ untasked' = {} /\ unlicensed' = {}
  /\ UNCHANGED <<settings, disk, next_id, it, id, fails, before, broken>>

\* confirm_state: download instead, or no install at all.
Answer(yes) ==
  /\ pc = "ask"
  /\ pc' = (IF yes THEN "next" ELSE "idle") /\ mode' = "install"
  /\ UNCHANGED <<settings, disk, next_id, files, it, id, result, stop, starts, fails, ghosts>>

Cancel ==
  /\ pc \notin {"idle", "ask"} /\ ~stop /\ stop' = TRUE
  /\ UNCHANGED <<settings, disk, next_id, pc, mode, files, it, id, result, starts, fails, ghosts>>

Finish ==
  /\ pc = "next" /\ (stop \/ files = {})
  /\ pc' = "idle" /\ files' = {} /\ before' = {} /\ it' = Some /\ id' = First
  /\ UNCHANGED <<settings, disk, next_id, mode, stop, starts, result, fails,
                 untasked, unlicensed, broken>>

\* The set of marked entries is gone through in its own order.
Foremost(p) == files # {} /\ p = CHOOSE q \in files : TRUE

Counted(p, what) == result' = [result EXCEPT ![p] = what] /\ pc' = "next"

\* A folder, a name that does not end in .pkg, a header that is not a package's, or no header.
Pass(p) ==
  /\ pc = "next" /\ ~stop /\ Foremost(p) /\ files' = files \ {p}
  /\ \/ p \in Others /\ Counted(p, "skipped") /\ UNCHANGED fails
     \/ Fails /\ Counted(p, "failed")
  /\ UNCHANGED <<settings, disk, next_id, mode, stop, starts, it, id, ghosts>>

Begin(p) ==
  /\ pc = "next" /\ ~stop /\ Foremost(p) /\ p \in Packages /\ files' = files \ {p}
  /\ it' = p /\ pc' = (IF mode = "install" THEN "get" ELSE "task")
  /\ before' = {t \in Tasks : tasks[t] # Absent}
  /\ UNCHANGED <<settings, disk, next_id, mode, stop, starts, id, result, fails,
                 untasked, unlicensed, broken>>

-----------------------------------------------------------------------------
(* DownloadAndInstallPkg: the package and its licence are downloaded.        *)

InTemp(what, got) == temp' = [temp EXCEPT ![c] = [@ EXCEPT ![what] = got]]

Get ==
  /\ pc = "get" /\ pc' = "licence" /\ InTemp("pkg", it)
  /\ UNCHANGED <<settings, tasks, exdata, next_id, list, it, id, result, fails, ghosts>>

\* Get returns 1 although the server ended the transfer early.
GetShort ==
  /\ pc = "get" /\ pc' = "licence" /\ Fails /\ InTemp("pkg", Part)
  /\ untasked' = untasked \cup {it}
  /\ UNCHANGED <<settings, tasks, exdata, next_id, list, it, id, result, before, unlicensed,
     broken>>

GetFails ==
  /\ pc = "get" /\ Fails /\ Counted(it, "failed")
  /\ InTemp("pkg", Part) \/ UNCHANGED temp
  /\ UNCHANGED <<settings, tasks, exdata, next_id, list, it, id, ghosts>>

\* Mutant: only a rap is looked for.
PreferredRap == IF "rap" \in Beside[c] THEN "rap" ELSE "none"

\* The licence DownloadRapOrRif takes when the server answers every question.
Preferred == IF "rap" \in Beside[c] THEN "rap" ELSE IF "rif" \in Beside[c] THEN "rif" ELSE "none"

DownloadRapOrRif ==
  /\ pc = "licence" /\ pc' = "task"
  /\ IF Preferred = "none" THEN UNCHANGED temp ELSE InTemp(Preferred, "whole")
  /\ UNCHANGED <<settings, tasks, exdata, next_id, list, it, id, result, fails, ghosts>>

\* FileExists or Get fails; what DownloadRapOrRif returns is not looked at.
LicenceFails(found, got) ==
  /\ pc = "licence" /\ pc' = "task" /\ Fails
  /\ found \in Beside[c] /\ (found = Preferred => got # "whole")
  /\ IF got = "none" THEN UNCHANGED temp ELSE InTemp(found, got)
  /\ broken' = IF got = Part THEN broken \cup {c} ELSE broken
  /\ unlicensed' = unlicensed \cup {it}
  /\ UNCHANGED <<settings, tasks, exdata, next_id, list, it, id, result, before, untasked>>

-----------------------------------------------------------------------------
(* InstallRemotePkg and InstallLocalPkg.                                    *)

\* Mutant: the numbers are counted, folders left by an earlier run are not looked at.
NextTaskIdCounted(i) == i \in Ids /\ i = next_id[mode]

\* GetNextQueueTaskId, GetNextInstallTaskId: the first number, from the last one used, that
\* no folder has.
NextTaskId(i) ==
  /\ i \in Ids /\ i >= next_id[mode] /\ tasks[<<mode, i>>] = Absent
  /\ \A j \in next_id[mode] .. (i - 1) : tasks[<<mode, j>>] # Absent

\* MkDirs, whose result is not looked at.
NewTask(i, made) ==
  /\ pc = "task" /\ NextTaskId(i)
  /\ pc' = (IF mode = "install" THEN "move" ELSE "stub")
  /\ id' = i /\ next_id' = [next_id EXCEPT ![mode] = i]
  /\ IF made /\ tasks[<<mode, i>>] = Absent
       THEN tasks' = [tasks EXCEPT ![<<mode, i>>] = {}] /\ UNCHANGED fails
       ELSE (made \/ Fails) /\ UNCHANGED tasks /\ (made => UNCHANGED fails)
  /\ UNCHANGED <<settings, temp, exdata, list, it, result, ghosts>>

\* stat fails on a folder that is there: it is taken for free, and whoever had it shares it.
TaskTaken(i) ==
  /\ pc = "task" /\ Fails
  /\ i \in Ids /\ i >= next_id[mode]
  /\ \A j \in next_id[mode] .. i : tasks[<<mode, j>>] # Absent
  /\ pc' = (IF mode = "install" THEN "move" ELSE "stub")
  /\ id' = i /\ next_id' = [next_id EXCEPT ![mode] = i]
  /\ before' = before \ {<<mode, i>>}
  /\ untasked' = untasked \cup {p \in Packages : result[p] = "success" /\ p \in tasks[<<mode, i>>]}
  /\ UNCHANGED <<settings, disk, list, it, result, unlicensed, broken>>

Put(parts) == tasks' = [tasks EXCEPT ![task] = @ \cup parts]

\* The stub of the package that is to be downloaded: FS::Save and truncate.
Stub ==
  /\ pc = "stub" /\ pc' = "pdb"
  /\ IF tasks[task] = Absent THEN UNCHANGED tasks ELSE Put({"stub"})
  /\ UNCHANGED <<settings, temp, exdata, next_id, list, it, id, result, fails, ghosts>>

StubFails ==
  /\ pc = "stub" /\ pc' = "pdb" /\ Fails /\ untasked' = untasked \cup {it}
  /\ UNCHANGED <<settings, disk, next_id, list, it, id, result, before, unlicensed, broken>>

\* FS::Rename of the package into the task's folder, where it replaces one of its name.
Move ==
  /\ pc = "move" /\ pc' = "rif" /\ ~cross /\ tasks[task] # Absent
  /\ tasks' = [tasks EXCEPT ![task] = (@ \ (Packages \cup {Part})) \cup {temp[c].pkg}]
  /\ InTemp("pkg", "none")
  /\ UNCHANGED <<settings, exdata, next_id, list, it, id, result, fails, ghosts>>

MoveFails ==
  /\ pc = "move" /\ pc' = "rif"
  /\ untasked' = untasked \cup {it}
  /\ \/ (cross \/ tasks[task] = Absent) /\ UNCHANGED fails
     \/ Fails
  /\ UNCHANGED <<settings, disk, next_id, list, it, id, result, before, unlicensed, broken>>

\* Whether a rap, or else a rif, in temp_folder is to become the account's.
UsesRap == temp[c].rap # "none" /\ account # "none"
UsesRif == ~UsesRap /\ temp[c].rif # "none" /\ account # "none"
Wanted == account = "active" /\ exdata[c] = "none"

\* CreateRif, or the rename of the rif: a licence the account has is never replaced.
Rif ==
  /\ pc = "rif" /\ pc' = "pdb"
  /\ UsesRif /\ Wanted => ~cross
  /\ exdata' = IF ~Wanted \/ ~(UsesRap \/ UsesRif) THEN exdata
               ELSE [exdata EXCEPT ![c] = IF UsesRap THEN temp[c].rap ELSE temp[c].rif]
  /\ IF UsesRif /\ Wanted THEN InTemp("rif", "none") ELSE UNCHANGED temp
  /\ UNCHANGED <<settings, tasks, next_id, list, it, id, result, fails, ghosts>>

\* rap2rif may leave part of a rif; the rename leaves none.
RifFails ==
  /\ pc = "rif" /\ pc' = "pdb" /\ Wanted /\ (UsesRap \/ UsesRif)
  /\ \/ UsesRif /\ cross /\ UNCHANGED <<fails, exdata, broken>>
     \/ UsesRif /\ ~cross /\ Fails /\ UNCHANGED <<exdata, broken>>
     \/ UsesRap /\ Fails /\ UNCHANGED <<exdata, broken>>
     \/ UsesRap /\ Fails /\ exdata' = [exdata EXCEPT ![c] = Part] /\ broken' = broken \cup {c}
  /\ unlicensed' = unlicensed \cup {it}
  /\ UNCHANGED <<settings, tasks, temp, next_id, list, it, id, result, before, untasked>>

\* What the system needs of a task besides the package, or its address in d0.pdb.
Needed == IF mode = "install" THEN {"d0", "d1", "f0"} ELSE {"stub"}
Files  == IF mode = "install" THEN {"d0", "d1", "f0"} ELSE {it}

\* CreateQueuePDBFiles, CreateInstallPDBFiles.
CreatePDBFiles ==
  /\ pc = "pdb" /\ tasks[task] # Absent /\ Put(Files) /\ Counted(it, "success")
  /\ UNCHANGED <<settings, temp, exdata, next_id, list, it, id, fails, ghosts>>

\* FS::Write does not tell that it failed.
PDBCut ==
  /\ pc = "pdb" /\ tasks[task] # Absent /\ Fails
  /\ Counted(it, "success") /\ untasked' = untasked \cup {it}
  /\ UNCHANGED <<settings, disk, next_id, list, it, id, before, unlicensed, broken>>

\* Mutant: one of d0.pdb and d1.pdb is enough.
PDBFailsUnseen(made) ==
  /\ pc = "pdb" /\ made \subseteq Files
  /\ Fails /\ tasks[task] # Absent /\ Put(made \cap {"d0", "d1"})
  /\ Counted(it, IF made \cap {"d0", "d1"} = {} THEN "failed" ELSE "success")
  /\ UNCHANGED <<settings, temp, exdata, next_id, list, it, id, ghosts>>

\* A file cannot be created: an install may leave the other one, with the package.
PDBFails(made) ==
  /\ pc = "pdb" /\ made \in {{}, {"d0"}, {"d1"}} /\ made \subseteq Files
  /\ \/ tasks[task] = Absent /\ UNCHANGED <<tasks, fails>>
     \/ tasks[task] # Absent /\ Fails /\ Put(made)
  /\ Counted(it, "failed")
  /\ UNCHANGED <<settings, temp, exdata, next_id, list, it, id, ghosts>>

-----------------------------------------------------------------------------
\* The program is left, or the power goes; meanwhile the system carries out or drops a task,
\* and after another restart a second one.
Restart(cut) ==
  /\ \/ UNCHANGED tasks
     \/ \E t \in Tasks : tasks[t] # Absent /\ tasks' = [tasks EXCEPT ![t] = Absent]
  /\ \/ ~cut /\ UNCHANGED <<temp, exdata, broken>>
     \/ cut /\ pc = "get" /\ InTemp("pkg", Part) /\ UNCHANGED <<exdata, broken>>
     \/ /\ cut /\ pc = "licence" /\ broken' = broken \cup {c} /\ UNCHANGED exdata
        /\ \E l \in Beside[c] : InTemp(l, Part)
     \/ /\ cut /\ pc = "rif" /\ Wanted /\ UsesRap /\ broken' = broken \cup {c}
        /\ exdata' = [exdata EXCEPT ![c] = Part] /\ UNCHANGED temp
  /\ next_id' = [k \in Kinds |-> First]
  /\ pc' = "idle" /\ files' = {} /\ result' = [p \in Marked |-> "none"]
  /\ mode' = "install" /\ stop' = FALSE /\ it' = Some /\ id' = First
  /\ before' = {} /\ untasked' = {} /\ unlicensed' = {}
  /\ UNCHANGED <<settings, starts, fails>>

Thread ==
  \/ \E marked \in SUBSET Marked, bd, can \in BOOLEAN : Start(marked, bd, can)
  \/ \E yes \in BOOLEAN : Answer(yes)
  \/ Finish
  \/ \E p \in Marked : Pass(p) \/ Begin(p)
  \/ Get \/ GetShort \/ GetFails
  \/ DownloadRapOrRif
  \/ \E found \in Licences, got \in {"none", Part, "whole"} : LicenceFails(found, got)
  \/ \E i \in Ids, made \in BOOLEAN : NewTask(i, made)
  \/ \E i \in Ids : TaskTaken(i)
  \/ Stub \/ StubFails \/ Move \/ MoveFails \/ Rif \/ RifFails
  \/ CreatePDBFiles \/ PDBCut \/ \E made \in {{}, {"d0"}, {"d1"}} : PDBFails(made)

Next == Thread \/ Cancel \/ \E cut \in BOOLEAN : Restart(cut)

Spec == Init /\ [][Next]_vars
-----------------------------------------------------------------------------
\* GetNextQueueTaskId, GetNextInstallTaskId, InstallRemotePkg, InstallLocalPkg: no package
\* touches a task folder that was there before it, whoever made it and however many runs of
\* the program ago, but for one on which stat failed when its own was looked for.
TasksKept == [][pc' # "idle" => \A t \in before : tasks'[t] = tasks[t]]_vars

Made(p, t) == p \in tasks[t] /\ Needed \subseteq tasks[t]

\* InstallRemotePkgsThread: a package counted as a success has a task of its own in which
\* the system finds all it needs, unless a call failed that nobody looks at (the rename of
\* the package fails whenever temp_folder is on another device; a stat that fails gives its
\* folder to another package).
SuccessQueued ==
  \A p \in Packages : result[p] = "success" =>
    p \in untasked \/ \E i \in Ids : Made(p, <<mode, i>>)

\* DownloadRapOrRif, CreateRif, InstallLocalPkg: a package that was downloaded and counted
\* as a success has its licence, if there is one for it and an account to put it in, unless
\* a call for it failed, or only part of that licence came once, in this run or an earlier
\* one: that part is kept for good.
Licensed ==
  \A p \in Packages :
    result[p] = "success" /\ mode = "install" /\ account = "active" /\ Beside[Content[p]] # {} =>
      p \in unlicensed \/ Content[p] \in broken \/ exdata[Content[p]] = "whole"
=============================================================================
