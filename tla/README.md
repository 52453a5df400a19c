# Verification of ps3-ezremote-client

TLA+ models of the file manager's own logic, checked with TLC on small instances
and, for the properties that matter most, proved with TLAPS for every value of
the constants.  The source is in `src/source/`; the line numbers of `PROJECT.json`
("map") tie each definition to the code it stands for.

Contents: [the system](#the-system) · [plan](#plan) · [modules](#modules-and-the-code) ·
[runs](#runs) · [fairness](#fairness) · [findings](#what-the-violated-properties-show) ·
[proofs](#proofs) · [only model-checked](#only-model-checked) ·
[not modelled](#not-modelled)

## The system

ezRemote is a two-pane file manager for the PS3: one pane shows the console's file
system, the other a server's (FTP, SMB, NFS, WebDAV and several HTTP index pages).
One GUI thread draws frames for ever (`gui.cpp` `RenderLoop`): each frame handles
the pad, draws the windows and the popups (`windows.cpp` `MainWindow`) and then
executes the action a widget has selected (`ExecuteActions`).  What takes long runs
on a thread that `ExecuteActions` starts (`actions.cpp`), and the two sides talk
through global variables.  There is no lock, no join and no condition variable in
the program.

| component | state it keeps | operations | what is hard | what makes it correct |
|---|---|---|---|---|
| background activities and the frame loop (`windows.cpp`, `actions.cpp`, `gui.cpp`) | `selected_action`, `action_to_take`, `activity_inprogess`, `stop_activity`, `paused`, `confirm_state`, `confirm_message`, `confirm_transfer_state`, `overwrite_type`, `dont_prompt_overwrite` | input, progress popup with Cancel, menu, questions, starting a thread, a thread's files, questions and end | two threads write the same flags unsynchronised; a question is a flag polled every 100 ms | one activity at a time; every question answered by its own answer; Cancel reachable and not forgotten; input never dead |
| pasting local files (`actions.cpp`, `fs.cpp`) | the clipboard, `paste_action`, the two trees | rename, copy and remove, `mkdir`, recursion over folders, Cancel | every system call may fail; a rename across devices becomes copy and delete; power may go | no file lost or doubled; nothing replaced unasked; complete when nothing went wrong |
| FTP client (`clients/ftpclient.cpp`) and its callers | control handle, response buffer, `is_connected`, `offset`, the data handle | connect, quit, ping, size, get, put, list, delete, rename ... | replies matched to commands by order only; connections that die at any point | replies belong to their commands; success is reported only for what happened; each operation ends |
| remote session (`actions.cpp`) | the `remoteclient` pointer, `remote_files` | connect by protocol, disconnect, refresh, change folder | the object is deleted by one thread and used by another; failed pings | no use of a missing client |
| other clients (`smbclient`, `nfsclient`, `baseclient` and the HTML index parsers) | library contexts | the same interface | connect and quit paths that leave flags behind | `connected` agrees with the client |
| transfers over them (`actions.cpp`: upload, download, remote cut and copy) | the two trees, `overwrite_type`, `status_message`, open handles | recursion over folders, probe, question, `Get`, `Put`, `Copy`, `Move`, Cancel | any call fails; results nobody looks at; the client is quit in the middle | what is reported as done is done; nothing replaced unasked; a move loses nothing |
| deletions (`actions.cpp`, `fs.cpp`, the clients' `Rmdir`) | the tree, `status_message` | recursive delete of folders, Cancel | partial failure, hidden files, Cancel within a recursion | what is left is told; no false message; Cancel stops |
| other local file operations (`fs.cpp`) | none but the file system | list, create, rename, load and save text | partial failure, line endings at chunk borders | what is listed, saved and loaded agrees |
| package installation (`installer.cpp`, `pdb.cpp`, the thread in `actions.cpp`) | the console's task folders, the counters of their numbers, `temp_folder`, the account's licences | download, queue a package, move it to a task, make its licence, write a task's files | unchecked renames and writes, numbers that start anew with the program, tasks the system removes meanwhile | a package counted as installed has its task and its licence; no task folder is used twice |
| keyboard (`ime_dialog.cpp`) | `gui_mode`, `ime_dialog_running`, the registered callback | open, poll, close | an open that fails is not noticed | the frame loop gets back to the windows; the text goes where it came from |
| text editor (`windows.cpp` `ShowEditorDialog`, `fs.cpp` `LoadText`, `SaveText`) | `edit_file`, `edit_buffer`, `edit_line_num`, `edit_line`, the panels' selection | open, insert, erase, copy, paste and edit a line, save, close | where a save goes is taken from the panels; line ends at chunk borders; failures nobody looks at | a save changes the file that was opened, to what was on the screen |
| configuration (`config.cpp`, `inifile.c`) | the settings in memory, `config.ini` | load (and write back), save, version step | rewritten in place, values with characters that mean something to the format | a saved setting is read back; the version stands with the addresses it explains |
| archives (`zip_util.cpp`, the threads in `actions.cpp`) | the names in a new archive, the tree extracted to | extract local and remote archives, make an archive of files and folders | what is extracted replaces without asking; results nobody looks at; a source that only fails at the end | what is reported as done is done |
| image viewer, language tables, RAP/RIF signatures, vendored libraries | | | | see [not modelled](#not-modelled) |

How they interact: the frame loop starts a thread (a call); the thread calls the
remote client and `fs.cpp` (calls that may fail), asks through `confirm_state`
(shared state, polled) and ends by writing the flags the frame loop reads; Cancel is
`stop_activity`, read by the loops of the threads and by the recursive operations.
`PROJECT.json` lists the hazards at their lines, with the properties that cover each
one or the reason why none does yet.

## Plan

Most important first: what every operation goes through, then where data can be
lost, then the protocol with the most states.

1. `Activity`: the flags.  Done, checked and proved.
2. `LocalPaste` with the abstract specification `Relocation`.  Done, checked and proved.
3. `FtpControl`.  Done, checked and proved.
4. `RemoteSession`: the `remoteclient` pointer shared by the GUI and the threads; connect
   and quit of all clients.  Done, checked and proved.  Left: an unknown server type, and
   the installs, archives and remote pastes that go through the pointer too.
5. `Transfer`: upload, download and remote paste over SMB, NFS, WebDAV and index pages,
   implementing `Relocation` as `LocalPaste` does.  Done, checked and proved.
6. `Deletion`: the recursive deletes, local and remote.  Done, checked and proved.
7. `Install` (task numbers, unchecked renames, licences, restarts) and `Editor` (the
   keyboard, the text's way from file to file).  Done, checked and proved.
   `Config` over `IniFile` (save in place, version step, power loss) and `Archive`.  Done,
   checked and proved.
8. The prefix test that refuses a paste, and `Head` and `GetRange` of the SMB, NFS and HTTP
   clients with the seek arithmetic of the remote archive reader, each an operator compared
   with a reference definition over bounded inputs.
9. Compositions: `Activity` with the clipboard (may the GUI change the vector a paste
   iterates over while its question hides the popup?), the question of `LocalPaste` and
   `Transfer` refined by that of `Activity`, and `Transfer`'s lost connection by the
   objects of `RemoteSession`.

Abstract specifications worth stating: `Relocation` (done, implemented twice); for the FTP client a
request/answer pair per call, which `FtpControl` implements while the replies
are in step; for the question an atomic ask/answer, which `Activity` implements until a race.
Theorems worth proving next: those two refinements, once they are stated.

## Modules and the code

Each component has a specification, an `MC...` module that TLC instantiates, and an
`...Inv` module with its inductive invariant.  The theorems are in the `...Proofs` modules:
`ActivityProofs` has those of the archives too, `TextFileProofs` those of the editor and of
the settings, the two parts that read a text file into lines.  `LocalPaste`, `Transfer`,
`Deletion` and `Archive` share `Tree`: the marked entries and all that is below them, a finite
forest given by `Parent` and `Below`.

### Activity: the frame loop and the threads

`frame` is the position of the GUI thread in one frame: `input` (`HandleWindowInput`,
panels), `progress` and `modal` (`ShowProgressDialog`: its test, then its body, because
a thread may run in between), `menu`, `confirm` and `overwrite` (`ShowActionsDialog`,
in that order), `execute` (`ExecuteActions`), `handled` and `launched` (the assignment
`selected_action = ACTION_NONE` after a thread was started), `ime`.  `pc[w]` is the
position of thread `w`: `check` (the first remote call), `file` (between two files),
`work`, the question (`ask`, `ask2`, `ask3`: one flag each; `poll`: the loop around
`sysUsleep`; `resume`, `resume2`; `decide`), `put`, and the last statements (`flag`,
`modal`, `refresh`), in the order each kind of thread has them.  The other variables
have the names of the globals.

File lists are reduced to how many files are left, a file to whether it exists at the
destination and under which rule it is handled.  `REFRESH` stands for the actions whose
handlers end within the frame.  Local installs are absent: no widget selects them.

Nothing in the program keeps a thread, or the GUI, from being suspended between two accesses to
a global, so every access is a step and all interleavings are explored; no assumption is made
about how threads are scheduled or how fast the user is.  Two ghosts watch for the places where
that goes wrong.  `races` notes the two ways a second activity can come about: `"menu"`, the user
opens the menu inside the 100 ms in which an answered thread still sleeps with its flag down, and
`"saved"`, a thread asks between `ExecuteActions`' call that launched it and the assignment that
clears `selected_action`, and so saves the live action and puts it back later.  `late` notes a
`SetModalMode(true)` that comes after the activity it was for has ended.  The safety properties
say that these are the *only* ways: until a race (`NoRace`) there is one activity, its questions
are its own, and so on; and input is dead only after a `late` call.  What a race leads to is in
the [observations](#what-the-violated-properties-show).

### LocalPaste: cut, copy and paste on the console

One system call of `CopyOrMove`, `CopyOrMoveLocalFile`, `FS::Move`, `FS::Copy` and `FS::MkDirs`
per step.  `src` and `dst` say what stands at each node's source and destination path (nothing, a
folder, the data, an older file, half a file).  The recursion is the folder being walked (`dir`)
and the nodes done with (`seen`).  Any call may fail, with `ReadErrors` reads too, and the flush
in `fclose` in the pastes (`cut`, `copy`) that `FlushErrors` names; a listing that cannot be
opened or breaks off passes over the rest of its folder (`ListFails`); Cancel comes at any time;
the initial trees are all trees, so stale clipboards and existing destinations are included.
Power loss needs no action of its own: the tree on the disk is the state, and `NoFileLost` is
claimed of every state.  Source and destination are taken to be disjoint, and the destination
tests of the paste (is it inside itself?) are a nondeterministic set `refused`.

`Relocation` is what a paste promises: data of a file arrives, departs once it has
arrived, or is carried over by a rename.  `Held` maps `LocalPaste` onto it.

### FtpControl: commands, replies, data connections

A call of the client is its script of commands (`Script`).  Each command is sent (`at` =
`send`), its reply read (`read`), and the call returns 0 at the first reply that does not
begin with an expected digit; transfers open (`open`) and use (`data`) a data connection
in between and read a second reply (`DONE`, `FtpClose`).  The exceptions of the code are
actions of their own: the login that is satisfied by a `2` in the response buffer,
`ListDir` ignoring `CWD`, `GetRange` ignoring `FtpClose`, a refused `REST` that
`FtpAccess` does not recognise (`Stray`: the data handle was never set, so the
program may crash or go on as if the transfer were over), `Quit` that closes whatever is
answered.  The callers in `actions.cpp` are `Browse`, `Change`, `Upload`, `Create`,
`Download`, `NextMarked`, `DeleteMarked` and `Tree`: which call follows which result.
One operation runs at a time: a modal popup or the frame itself blocks the others (that
is what `Activity` proves).

The server carries a command out or refuses it; `Failures` says what else may go
wrong: `refuse`, `drop` (the control connection dies, with or without a farewell), `cut`
(a data connection breaks), `rest` (no `REST`), `data` (a data connection does not open
after its command was sent: the reply to that command stays unread), `long` (a reply does not
fit `Readline`'s 512 bytes: its rest is read as the next reply), `disk` (the local file of a
transfer cannot be read or written further: `FtpXfer` stops and the call still returns 1).
`behind` is a ghost: how many replies this connection has left unread, at most
`MaxBehind`; `spoiled` that the local file has failed.  Left out: parsing of listings, a server
silent for ever (the client has no timeout and would wait), and active mode, which the
program never uses.

### RemoteSession: the pointer, the objects, their contexts

`remoteclient` is the number of an object or 0 for null; `created` counts the objects;
`kind`, `alive`, `connected` and `context` are what each object holds.  A context is the
socket, `smb2_context`, `nfs_context` or `CHTTPClient`: `none` (a null pointer), `open`,
`stale` (the number of a socket the FTP client has closed and kept) or `freed` (an NFS
context that was destroyed while the pointer to it stays).  `ConnectResult` says what each
`Connect` returns and leaves behind, `ConnectedAfterQuit` and `Quit` what each `Quit` does.
`pc["gui"]` and `pc["worker"]` name the call that comes next: the parts of a frame
(`panel`, `button`, `input`, `execute`), then the calls of a handler (`ping`, `list`, `quit`,
`enter`, `lost`, `request`, `fetch`, `connect`, `failed`, `discard`, `leave`, `hangup`, `drop`,
`forget`, `done`) or of a thread (`check`, `files`; `probe`, `put`, `giveup`; `size`, `get`,
`hopeless`; `post`, `end`).  `Touched` says which pointer a call follows; if that one is bad
the program ends (`Crash`, `fault`).  `Pings`, `Calls` and `Quits` are told apart because
`NfsClient::Ping` asks nobody and `Quit` tests for null.

Which action a widget can select depends on `listing` (rows on the screen, which survive a
failed reconnect), on the pointer, on `SupportedActions`, and on whether a `popup` covers the
panels.  The two threads interleave freely.  The connection panel tests the pointer and then
follows it: `panel` and `button` are two steps, and the compiler may keep what was tested, so the
second one may follow the old pointer or the new.  `trouble` is a ghost: a call has failed.
`raced` is another: the user has selected something while a job was at work, which takes one of
the races of `Activity`.  Folders inside a transfer, the questions (module `Activity`)
and the text of the keyboard are left out.

### Transfer: upload, download, remote paste

One library call, or one copying loop, per step, for `UploadFilesThread`,
`DownloadFilesThread`, `CopyRemoteFilesThread`, `MoveRemoteFilesThread` and what they call,
down to `Get`, `Put`, `Copy`, `Move`, `ListDir`, `Mkdir` of the four clients.  `server` and
`job` select the branches.  `pc` is `next` (the head of a loop), `folder` (`ListDir` and
`Mkdir`), `file` (ping or size, existence, question), `transfer` (opening), `copying` (both
files open); `src`, `dst`, `dir`, `cur`, `seen` are as in `LocalPaste`, with "partial" for half
a file, the wrong bytes, or new bytes with the tail of an older file (`KeepsTail`).

What the code does with each failure is the point of the module.  `Failed` is one that
writes `status_message` (`told`), `Muffled` one that nobody looks at: a read that fails
in a copying loop (taken for the end of the file), a write to the SMB server or the
console, a `ListDir` that returns an empty list, an answered HTTP request whatever its
status, a WebDAV `MOVE` or `COPY` answered with 207 Multi-Status, which counts as a success
though part of the folder stays behind (`MovePart`).  `muffled` remembers the very nodes such a
failure hit.  `leaked` are files whose first handle stays open because the second open failed.  A
ping or size that fails calls `Quit`; the loop of marked entries goes on, and its next call
through the null context is `Fault` (`linked` is false).  A probe that fails counts as "no
such file" (`unseen`).  `trouble`, `muffled`, `passed`, `agreed`, `had` and `was` are ghosts.

Abstracted: the number of bytes and the progress figures, the wording of messages, Cancel
inside a copying loop (no client's loop looks at it), the question (module `Activity`).
Destination names are the source's, so a name is free or is taken by the same kind
of node, and two marked entries never share one.

### Deletion: recursive deletes

`DeleteSelectedLocalFilesThread` with `FS::RmRecursive`, and
`DeleteSelectedRemotesFilesThread` with `Rmdir` and `Delete` of the SMB, NFS and WebDAV
clients.  `left` is what is still there, `dir` the folder being emptied, `seen` what the loops are
done with.  The recursions differ in where they look at `stop_activity` (`Heeds`), in what
they return when it is set (`LeaveStopped`: 1, the parent goes on to its own test;
`GiveUpStopped`: 0, every folder above takes it for a failure and says so), in whether
a listing leaves hidden files out (`hiding`, NFS), and in who writes a message (`Enter`,
`DeleteFails`).  `message` is the status line: the delete actions do not clear it, so it may hold
an `"old"` message from before throughout, and `Disconnect` wipes the one that tells of
a closed connection.  `late` is a ghost: what was removed after Cancel.

### Editor: texts and the keyboard

`at` is where a frame is: `panels` (`BrowserPanel`, `HandleWindowInput`; skipped while
`paused`), `editor` (`ShowEditorDialog`), `actions` (`ExecuteActions`), or `keyboard`
(`HandleImeInput`, when `gui_mode` is IME nothing else is drawn); a write to a line that is
gone may end in `crashed`.  A text is a sequence of bytes, with CR and LF among them;
`LoadText` reads it in pieces of `Chunk`, `Offered` is what of a line `edit_line` has room
for.  `selected` and `selected_browser` are what the panels point at, which decides where
`Save` writes: the code keeps `edit_file` and does not use it there.  `Open` may bring less
than the remote file (`Get` returned 1), `OpenUnread` is a `LoadText` that failed,
`Save` may write all, part or nothing.  `loaded`, `moved` and `odd` are ghosts.  Opening
counts in frames, because what a user does in the frame before the editor comes up is the
point of `SavedToSource`.

### Install: packages, tasks, licences

`pc` follows one package through `InstallRemotePkgsThread`: `get` and `licence`
(`DownloadAndInstallPkg`), `task` (the next free number and `MkDirs`), `stub` (a queued package),
`move` and `rif` (`InstallLocalPkg`), `pdb` (the files of the task).  `mode` is
`download_and_install`; `cross` says that `temp_folder` is on another device, `account` whether
the chosen account can have licences.  A task is a numbered folder and what is in it (`d0`, `d1`,
`f0`: the `.pdb` files of an install).  Failures are told apart by who looks at them: those
counted as failed, and those the code ignores, which the ghosts `untasked`, `unlicensed` and
`broken` remember.  `Restart` is a quit or a loss of power in any state, also within a download or
the making of a rif, with the system carrying out or dropping a task meanwhile.  Icons (and the
client they come from) and the layout of the files are left out.

### Config and IniFile: the settings

`IniFile` has the list of lines and its operations (`FindSection`, `FindKey`, `WriteString`,
`AddItem`, `AddItemAt`, `ReadString`).  What a text is does not matter, only what the parser finds
in it: a `;`, brackets, the half line of a write that broke off.  `Config` is the program over it:
`LoadConfig`, which writes back what it read, the site and the fields of the connection panel
(`SelectSite`, `Edit`), `SaveConfig`, `SaveLocalDirectory`, `Quit`.  Two keys of `[Global]` and
three of a site stand for the rest, read and written the same way.  A write goes through, or
leaves any prefix of its lines, the last one perhaps halved, with the program running on or gone.
`OldFile` is the file of a release without `config_version`.  The ghosts: `asked`, what was last
saved and should be read back; `tricky`, the sections that were ever given a `;` or brackets;
`ever`, the addresses entered for each site; `old` and `unsure`, the two reasons for which the
version may be missing.

### Archive: extracting and making archives

libarchive is a sequence of entries, libzip a set of names that is written, and its sources
read, by `zip_close`; both are external.  `Listing` gives the marked archives and folders in
order, `Name` the path of an entry below the chosen folder, `In` the folder it is in.
`disk` is what stands at each name.  A file is extracted as the code does it: folders, `unlink` of
what is in the way, create, write, close, one step each, any of which may fail.  A remote archive
is read in ranges, and `GetRange` returns 1 for a transfer that broke off and for any HTTP
answer: `WriteWrong` is such a range within a file's data, `CutShort` one at a header, or a `Size`
that failed, after which libarchive sees the end of the archive.  (A header of wrong bytes is
refused, `ReadFails`, or taken for the end, `CutShort`; that it reads as another, valid header is
not modelled.)  `ZipAdd` walks the tree as `ZipAddPath` does: `seen`, `dir` as in
`LocalPaste`; `ZipLeave` leaves a folder, also when `readdir` broke off.  `unseen` is a ghost: the
entries and nodes that a failure nobody looks at has cost.

## Runs

| run | instance | shows |
|---|---|---|
| `activity_races` | 2 threads, 2 files, one action of each shape; every interleaving up to the first race | safety of the flag protocol: `OneActivity`, `OverwriteConsent`, `Cancellable`, `PausedHasReason`, `QuestionShown`, `DeleteConsent`, `CancelSticks` |
| `activity_ends` | 1 thread, 1 file, every interleaving | `ActivityEnds`: every activity ends once its questions are answered |
| `local_paste` | tree of 5 nodes, all initial trees, any call may fail but the last bytes of a move | `Complete`, `ReplacedWithConsent`, that `LocalPaste` implements `Relocation`, and `PasteEndsOrReads`: a paste ends, or is for ever in the loop of a failing read |
| `paste_flush` | the same, the last bytes of a move may fail | `NoFileLost` is violated; see below |
| `ftp_session` | 2 names; every failure, one reply left unread | `InStep`, `Truthful`, `OverwriteAsked`, `OpEnds` |
| `remote_session` | 2 objects, 2 files, all 5 kinds of client, every interleaving | `CalmSession`, `DeletedOnlyInPanel`, `ContextReleased` |
| `transfer` | the paste's tree, all 4 servers and 4 jobs, all source trees; one name (`f`) free at the destination, `a` hidden | `FailureTold`, `LeakEndsEntry`, `ReplacedWithConsent`, and that `Transfer` implements `Relocation` |
| `deletion` | tree of 7 nodes, console and 3 servers, one hidden file, with and without an old message | `LeftIsTold`, `NoFalseAlarm`, `CancelHolds` |
| `config` | 2 sites, 3 starts, 3 edits and saves, one write that breaks off | `VersionKept`, `Contained`, `ReadBack` |
| `editor` | 2 local files and a remote one, texts of up to 4 bytes, chunks of 2, 3 files opened and edits | `OfferedLine`, `LoadExact`, `SavedToSource`, `SavedText`, `KeyboardReturns` |
| `install` | 2 packages and a folder, 2 installs, 4 numbers, one failing call, any number of restarts | `SuccessQueued`, `Licensed`, `TasksKept` |
| `archive` | 2 archives with names in common and a marked folder; a tree of 5 nodes; 3 failing calls; local and remote | `ExtractedOrTold`, `LostIsTold`, `ZippedOrTold` |

Why the bounds suffice.  Two threads are enough to show an overlap, and until a race `OneActivity`
says that a second is never at work with the first, so a third would find the same state; behind a
race only `PausedHasReason` claims anything, and there its theorem takes over; two files are the
first at which an answer given for one could be used for another; the offered actions have one
member of each shape of `ExecuteActions` case and thread ending, which is what distinguishes them.
The paste's tree `D{a, S{c}}`, `f` has a folder within a folder (a nested return), a file before
and after a subfolder, and an entry after a folder (the loop goes on); each file stands or not at
either side.  Two remote names give a folder with more than one entry, a probe for a free name
that fails once, and a delete of several entries; an offset is 0 or not, and replies are told
apart by their first digit and the command they answer, which is all the client looks at; one
reply left unread shifts every later one, a second would shift them by one more.  Two client
objects are one left behind or deleted, and one in use; two files the fewest with one after a
failure.  The deletion's tree `D{a, S{b, c}, E}`, `f` adds to the paste's a folder with two files
(the removal in hand and the next one after Cancel) and an empty one. Three starts are one that
writes, one that reads this and writes it back, and one that shows what became of it; a second
broken write finds the kinds of file that one leaves.  The editor's texts have CR, LF and CR LF at
the end, at the beginning, twice, and across a chunk's border, and opening two files with an edit
between them is the shortest way to a save that could go to the wrong one.  Two packages are one
that finds the other's task, and two installs one that finds the leavings of the first; one
package's licence comes as a rap or a rif, the other's as a rif only; with four numbers neither
the folders found at first nor those of the two installs use them up.  The archives have every
kind of entry, a name twice in one archive and once more in the next, and a file in a folder that
an entry names first. TLC explores these instances completely (`activity_races` has 6.8 million
states, `install` 4.3, `transfer` 2.6 and `editor` 1.8, the others fewer), except that
`activity_races` stops at the first race, behind which its properties but `PausedHasReason` say
nothing (`CONSTRAINT NoRace`).  That run takes the threads for alike (`SYMMETRY`); `activity_ends`
and `ftp_session` tell states apart by a `VIEW` that leaves out ghosts and finished values which
guard nothing and which no property of the run needs.

`CHECK_DEADLOCK FALSE` stands in the `Activity` runs because the Start button ends the
program, in the paste, transfer, deletion and archive runs because those end, in `config`
because the last start the bound allows is, and in `editor` because a keyboard that did not
come up freezes the program, which may crash as well.  `ftp_session`, `remote_session` and
`install` are checked for deadlock.

Each property of a passing run has a mutant in the module, an operator commented
"Mutant:" that changes one definition the way a slip in the code would (a case that never
clears `selected_action`, a poll that ends only on Yes, a removal after a failed write, an
`FtpClose` that does not read the reply), under which the property fails.

## Fairness

- `Activity`: weak fairness of `GuiStep`, as `RenderLoop` draws frames for ever; strong
  fairness of each thread, as the kernel schedules every thread and I/O returns while the
  moments it may run in come and go in the model; strong fairness of answering the Confirm
  popup: a user who is asked answers some day.  Nothing is assumed of other user
  input, and none of it is needed.
- `LocalPaste`: weak fairness of the thread's steps, as the kernel schedules
  it and each call returns, well or not; Cancel is not fair.
- `Editor`: weak fairness of `Frame`, as `RenderLoop` draws frames for ever, and of
  `Keyboard`: a user who is shown the keyboard closes it some day.
- `RemoteSession`, `Transfer`, `Deletion`, `Install`, `Config`, `Archive`: no liveness is
  claimed, and no fairness assumed.
- `FtpControl`: weak fairness of `Client`, which includes the server's answer: a server
  answers or its connection ends.  Lost connections and the user are not fair.

## What the violated properties show

- `paste_flush`: `FS::Copy` drops the result of `fclose`; when the last bytes do not reach
  a full device, the move still removes the original.  The wording of the repository this
  contradicts, with its line, is under "findings".

Other observations came out of modelling and are hazards, constants that keep a case apart, or
exceptions that the properties name, without a run of their own.

The console's own files, and the GUI:

- `bytes_read < 0` is tested on a `size_t`; a failing read repeats for ever and Cancel does not
  stop it (the exception in `PasteEndsOrReads`).
- A thread that ends between the progress popup's test and its `SetModalMode(true)` leaves
  `paused` set for good: menu, Start and the panels' keys are dead (`late` in `Activity`).
- While an answered thread sleeps (`actions.cpp:350`) its flag is down, and the menu opens.  Delete,
  picked there, puts its own question; the thread wakes up and restores the action that was
  saved, which by now is the delete: it runs while its question is still on the screen.  A transfer
  picked there starts beside the first one and clears `stop_activity` (`"menu"` in `races`).
- A thread that asks before `ExecuteActions` has cleared `selected_action` saves its own action and
  puts it back after the answer: the same activity is launched again (`"saved"`).
- `FS::RmRecursive` returns 0 on Cancel, so a cancelled delete of a nested folder reports a
  failure (the exception in `NoFalseAlarm`).
- The deletes do not clear `status_message`: after one without a fault the message of an
  earlier operation stands there (`"old"` in `Deletion`).  The one that tells of a failed ping is
  erased at once by the `Disconnect` behind it.
- `FS::ListDir` takes an error of `readdir`, or a folder it cannot open, for the folder's end.
- `FS::Move` takes any other error of `rename` than one across devices for success
  (`fs.cpp:565`); local and remote clipboard share one `paste_action` (`windows.cpp:2067`).

The FTP client and the session:

- A data connection that does not open leaves its command's reply unread, and the next
  command takes it for its own; so does a reply of more than 511 bytes (`behind`: `Truthful` is
  claimed while it is 0).
- A transfer whose local file fails half way returns 1 (`spoiled`).
- `Head` reads from the offset a failed `GetRange` has left, and a refused `REST` leads to
  the use of a data handle that was never set.
- A server that closes after its greeting leaves the FTP client logged in: the response
  buffer still holds the greeting's `2` (the login exception of `FtpControl`).
- `BaseClient::Quit` deletes its HTTP client and leaves `connected` set: the button still
  offers to disconnect, and the next ping goes through the null pointer (`RemoteSession`).
- `NfsClient::Put` opens an existing file with 0660 where the flags belong,
  so nothing truncates it: a shorter file leaves the end of the older one behind it, and
  the upload counts as done (`KeepsTail`).
- WebDAV takes 207 Multi-Status for success (`common.h:17`): a folder that the server has moved or
  copied in part counts as done (`MovePart`).
- The connection panel tests `remoteclient` and then follows it; a delete thread whose ping has
  failed may delete the client in between (`DeletedOnlyInPanel` says that there is no other
  such place).
- `Get` and `Put` of SMB and NFS take a failing read for the end of the file, `BaseClient::Get`
  keeps an error page, a listing that fails is an empty folder (`muffled`); a WebDAV folder
  that cannot be deleted is not reported (the exception in `LeftIsTold`).
- Paste is offered on every server (`|` for `&`, `windows.cpp:976`), and the remote clipboard
  survives a reconnect to another one.  An unknown `http_server_type` leaves `remoteclient`
  as it was (`actions.cpp:1221`).
- The remote install asks without writing `confirm_message`: its popup shows what was asked
  last (the exception in `QuestionShown`).  A remote delete of plain files never looks
  at `stop_activity`.
- Search, and Upload from the local menu, are offered without a client and call it all the
  same (the exception in `CalmSession`).
- After one failed call much more may follow a bad pointer: the threads of SMB, NFS and HTTP
  transfers go on over the client they have quit; an SMB client whose ping failed is deleted
  with its context (the exception in `ContextReleased`); an NFS address that does not parse
  leaves a destroyed context that `Quit` destroys again; connecting over an unconnected
  client loses the object.

Texts and the keyboard (`Editor`):

- `Save` writes to what is selected in the panels, not to `edit_file`: moving in the frame
  between opening a file and the editor's coming up saves it over another one (`moved`).
- The result of `LoadText` is ignored: the editor comes up with the text of the file before,
  and `Save` writes that (`"unread"`); that a save failed is told nowhere.
- X and L1 in one frame bring the keyboard up for a line that is erased (`"chord"`).
- A CR LF that two chunks share ends two lines (`Split`).
- A keyboard that does not come up leaves `gui_mode` at IME, and nothing is drawn any more.
  An empty line cannot be entered: `OSK_NO_TEXT` is neither end nor cancel, and the callbacks
  of other fields see nothing either.

Installation (`Install`):

- A `stat` that fails takes an existing task folder for free (`TaskTaken`).
- With `temp_folder` on another device the rename of the package fails, and the install is
  counted as a success without it (`untasked`).
- A licence of which only part came is used for good, as none is ever replaced (`broken`).
- `InstallLocalPkgs` and the install from an address are offered by no widget; `FS::Save` closes its
  file inside its loop; the descriptions of a task leak a `FILE` when the second one fails.

Settings (`Config`, `IniFile`):

- `SaveConfig` encrypts the password and then writes the plain one; the next start writes
  the encrypted one.
- A value with `;` loses what follows it, one with brackets becomes a section (`tricky`).
- After a write cut right behind `[Global]` the next start puts the version behind that header
  and then overwrites the link to it (`AddItem`); and a program that goes on after a write
  that broke off saves addresses without the version.  Either way a page's address turns
  into a WebDAV one at the next start (`unsure`).

Archives (`Archive`):

- The size of a remote archive that cannot be had is 0: the archive counts as empty.  A range that
  came short, or an error page in its place, counts as read: wrong bytes are extracted, or
  the rest of the archive is not seen, and nothing is told (`unseen`).
- The old file is gone before the new one can be created; power lost there leaves neither
  (`InHand` in `LostIsTold`).
- Closing an extracted file and `zip_close` are not looked at; one source that cannot be read
  makes `zip_close` lose the whole archive (`poisoned`).
- A link entry removes the file that has its name, and makes nothing.
- Cancel while an archive is made writes what has been added so far.

## Proofs

The eight `...Proofs` modules hold the theorems; no proof is left out.  The constants are
arbitrary: any set of threads, any number of files, any forest of files, any set of names,
of servers and of hidden files, any texts, any packages and licences.

**Activity.**  `TypeCorrect`, `OneActivityHolds`, `OverwriteConsentHolds`, `QuestionShownHolds`,
`CancellableHolds`, `PausedHasReasonHolds`, `DeleteConsentHolds`, `CancelSticksHolds`, of every
interleaving and any number of threads, with no assumption about schedules.  None is inductive
alone: that no second activity starts depends on where in a frame an action may be waiting, which
popup is up, and on what a waiting thread saved in `action_to_take`.  `ActivityInv` names these
facts: `Unblocked` (why input does not stay blocked) holds always; `Handover` (which side may
write a variable at that moment) and `Consent` (what an answer means) hold until the first race,
and `RaceFree` says which steps are none.  `Inv` is their conjunction with the types.  The proof is
one lemma for the GUI's steps (`GuiKeeps`) and one for a thread's (`ThreadKeeps`), with `GuiUnblocked`
and `ThreadUnblocked` for the part that races do not touch; each has a step per action.

**LocalPaste.**  `TypeCorrect`, `ConsentHolds`, `ExactlyOnceHolds` and `CompleteHolds` need no
assumption beyond the tree; `NoFileLostHolds` and `RelocatesHolds` assume
`"cut" \notin FlushErrors`, as `paste_flush` shows they must.  `Kinds`, `Folders` and `Moving`
describe the node in hand;
`Whole` says that data stands at the destination only for what is done with, which is
why removing an original is safe; `OnCourse` and `Transferred` follow a paste without
failure through the recursion.  `TreeAssumption` states facts of a finite forest (the
ancestors of a node form a chain, and so on) that would otherwise be proved by induction;
TLC checks them for the run's tree.  The refinement is proved step by step: each step
renames, completes a copy, removes an original that stands at the destination, or stutters.

**FtpControl.**  `InductiveInvariant` (`IInv`: types, `Scripted`, `ConnectedLine`, `Joining`) and
from it `TypeCorrect` and `ConnectedLineHolds`; then `InStepHolds`, `TruthfulHolds` and
`OverwriteAskedHolds`, all for any `Failures` and any number of replies left behind.  `Shaped` is
why they hold: every suffix of a script ends in a command whose result the caller looks at, login
commands occur in `Login` only, and QUIT only alone; `Paced` counts the replies on the way against
those left `behind`.  The lemmas on `Return` say once what all the callers have in common, so that
the invariants are shown for a returning call without going through each caller again.  What a
call reports is true because a reply on its way says so: `Placed` gives each command to the calls
that may send it, so that `Answered` can say what a positive reply to the command in hand means
for the file; `Following` keeps what was told true through the call after it; `Denied` says that
an existing file is denied only by a reply that the caller takes for an error, and `Permitted` why
a `STOR` over an old file was allowed.

**RemoteSession.**  `SessionInvariant` (`IInv` in `RemoteSessionInv`) and from it all properties of
`remote_session`, and that `connected` has a session, that one client is alive and that the
pointer reaches it while nothing has failed, for any number of objects and files, any set of protocols
and every interleaving of the two threads.  `Separate` and
`Handler` say which steps of the two threads can coincide and to which action a step
belongs; `Pointed` that the pointer dangles exactly between `delete` and the assignment of null;
`Connectedness` what `connected` means for each kind; `Dropping` why a deleted client has given
its context back; `Calm` what holds while no call has failed: one client, connected and open,
no rows without it.  The proof has a step per action and, under it, one per group of
conjuncts; `CrashKeeps` shows that a bad pointer is met only as the promises say.

**Transfer.**  `TypeCorrect`, `ConsentHolds`, `LeakEndsEntryHolds`, `FailureToldHolds`,
`CompleteHolds` and `RelocatesHolds`, from no assumption beyond the tree.  `Kinds`, `Folders` and
`Moving` are the facts `LocalPaste` has; `Consented` says that what is about to be replaced
may be; `Reached` that data stands at the destination only where the walk has been, so that
nothing that has arrived is written again; `Leaks` that the marked entry of a leaked handle is
done with; `Told` why there is a message, and that what is missing without one is below a
`muffled` node.  `OnCourse`, `Arrived` and `FoldersMade` follow a
transfer with nothing to tell: its walk leaves nothing behind that the client shows, and
what it has done with has arrived.  Each part is a lemma with a step per action.

**Deletion.**  `TypeCorrect`, `LeftIsToldHolds`, `NoFalseAlarmHolds`, `CancelHoldsAlways`, of every
forest.  `Moving` places the walk; `Handled` says that without a message of its own what is done with is
gone; `Clear` that without a failed call only hidden files make a folder fail; `InHand` that
the loop which has removed something since Cancel does not go on.

**Editor.**  `TypeCorrect`, `OfferedLineHolds`, `SavedToSourceHolds`, `LoadExactHolds` and
`SavedTextHolds`, of any files, texts, chunk and width.  `Modes` and `Flags` place the frame;
`Selections` says which panel a save will take for every way the selection was made; `Up` and
`Chosen` that the editor's popup keeps it; `OpenedHere` that the buffer's file is the selected one
as long as the user has not `moved`; `Consistent` that the keyboard's line is the one it was
offered with.  The last two rest on what `LoadText` and `SaveText` compute: `LoadTextExact` (a
line for each line end and a last one, each ending at its place, whatever the chunk) and
`RoundTrip` (what `SaveText` writes, `LoadText` reads back).  They are by induction over the
bytes, in a form the provers take: `Induction` is about a set of numbers rather than a predicate,
and comes from `WFMin`; `Recursion` says that a function defined by recursion exists and obeys its
equation. `Lined` carries them through the steps: no line of the buffer has a line end in it.
`TextsAssumption` says so of what is typed, because the keyboard is brought up with
`OSK_PROHIBIT_RETURN`.

**Install.**  `TypeCorrect`, `TasksKeptHolds`, `SuccessQueuedHolds` and `LicensedHolds`, of any
packages, licences and numbers.  `Fresh` says that the folder being filled was not there
before; `Filled` what is in `temp_folder` and in it while no call for it has failed; `Queued`
that a success keeps its task while others are filled; `Parts` and `InHand` follow the licence.

**Archive.**  `ArchiveInvariance`, `ExtractedOrToldHolds`, `LostIsToldHolds` and
`ZippedOrToldHolds`, of any archives, names (the same one as often as one likes), failing calls
and, for making an archive, any forest; `ArchiveAssumption` only says that the constants are what
their comments call them.  `Extracted` states the property of the entries that were read so far,
with "no later entry of that name" cut to those and the file in hand set apart; `Zipped` says that
what the walk has done with is in the archive together with the folders above it, `Bottomed` that
it was done with to the bottom, and `Written` that nothing is closed before.

**Config.**  `ConfigInvariance` and from it `VersionKeptHolds`; `SettingsInvariance` and from it
`ReadBackHolds`; `ContainedHolds` from both: where an address comes from is the first's business,
that it is whole the second's.  They hold of any sites, folders and passwords,
any number of starts, edits and broken writes.  The file is a list of lines
of which nothing is assumed but that it came about by the program's writes, so the work is in what
the operations of `IniFile` do to an arbitrary list: `FindSectionFinds`, `FindKeyFinds`; the three
outcomes of `WriteString` (`WriteStringCases`: a line replaced, one put behind its section's
header, or a header and a line added behind `CurEntry`, and what stood there gone); what
reading (`ReadLines`) and a broken write (`CutLines`) leave; `WriteStringsSteps` for one write after
the other.  `Own` says that every address stands in a section of a site it was entered for, or
is one of the old release that is yet to be converted; `Dated` where the version stands and that
no site comes before it, so that no broken write takes it and keeps an address.  `LoadConfig` is the
hard step: it is the first to put the version there, before any site (`FirstWrite`), and it
converts every address it then writes back.  For `ReadBack`, `Whole` says that each section
stands once and that nothing stands behind a value unless the section is `tricky`; `Stands` where
the reader will find a setting; `Linked` that `CurEntry` is the last line but when the file ended
in a header, which is the one place where a line may be lost; `Agreeing` that a start does not write
the same setting twice with different values.

## Only model-checked

`ActivityEnds`, `PasteEndsOrReads`, `OpEnds` and `KeyboardReturns`: liveness is out of the
prover's reach.  Every other property of a passing run is a theorem, under the assumptions named
above (only `NoFileLostHolds` and `RelocatesHolds` of `LocalPaste` have one).

## Not modelled

- HTML and XML index parsing, listing formats, language files, the layout of ISO images,
  packages and task descriptions: data rather than control.
- RAP/RIF signatures and the ciphers: arithmetic far beyond what TLC enumerates.
- The user interface, XML, font and image libraries, which are most of the repository's lines,
  are vendored; the archive, SMB, NFS and HTTP libraries are external: their calls succeed or
  fail.
- `Rename`, `Head` and `GetRange` of the SMB, NFS and HTTP clients (one call each, no state) come
  with the seeks of the remote archive reader (see the plan).
- Settings and property dialogs, language menu: one thread, no shared state.  The image
  viewer's code is commented out.
- Memory faults in general.  Undefined behaviour is a choice in the models only where
  control depends on it (`Stray`; `fault` in `RemoteSession`; the unsynchronised flags,
  each read and written whole).
