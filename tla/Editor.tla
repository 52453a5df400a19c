------------------------------- MODULE Editor -------------------------------
(***************************************************************************)
(* The text editor: the panels whose selection decides what is opened and    *)
(* where it is saved, ShowEditorDialog, the cases of ExecuteActions that open *)
(* a file, FS::LoadText and FS::SaveText, and the on-screen keyboard          *)
(* (HandleImeInput, ime_dialog.cpp).  A frame draws the panels, then the      *)
(* editor, then executes the chosen action; while the keyboard is up nothing  *)
(* is drawn.  A text is a sequence of bytes, with CR and LF among them.       *)
(***************************************************************************)
EXTENDS Integers, SequencesExt

CONSTANTS
  LocalFiles, RemoteFiles,
  Bytes,          \* what a byte can be
  Texts,          \* what each file may hold at first
  Typed,          \* the lines entered with the keyboard
  Chunk,          \* what LoadText reads at once (1024)
  Width,          \* what of a line goes to the keyboard (511)
  MaxActs, MaxLines   \* bounds: files opened and edits, lines that R1 inserts to

Files == LocalFiles \cup RemoteFiles

Breaks == {"CR", "LF"}

ASSUME EditorAssumption ==
  /\ LocalFiles \cap RemoteFiles = {} /\ LocalFiles # {} /\ RemoteFiles # {}
  /\ {Chunk, Width} \subseteq Nat \ {0} /\ {MaxActs, MaxLines} \subseteq Nat

\* The keyboard is brought up with OSK_PROHIBIT_RETURN.
ASSUME TextsAssumption ==
  /\ Breaks \subseteq Bytes
  /\ \A f \in Files : \A t \in Texts[f] : t \in Seq(Bytes)
  /\ \A l \in Typed : l \in Seq(Bytes \ Breaks)

NoFile == "none"
Nowhere == 0

VARIABLES
  files,                   \* what each file holds
  at,                      \* where the frame is
  gui_mode, ime_dialog_running,
  focus,                   \* the panel that has the focus
  selected_browser, saved_selected_browser,
  selected,                \* selected_local_file and selected_remote_file
  selected_action,
  paused, popup,           \* popup: the editor is on the screen
  editor_inprogress, edit_file, edit_buffer, editor_modified,
  edit_line_num, edit_line, copy_text,   \* lines are numbered from 1
  acts,                    \* bounded count of files opened and of edits
  loaded,                  \* ghost: the file the buffer was read from, the bytes, the lines
  moved,                   \* ghost: the user moved between opening a file and the editor's coming up
  odd                      \* ghost: what happened since: "unread", "failed", "chord"

choice == <<focus, selected_browser, selected>>
screen == <<at, gui_mode, ime_dialog_running>>
text   == <<edit_file, edit_buffer, editor_modified, loaded>>
line   == <<edit_line_num, edit_line, copy_text>>
vars   == <<files, screen, choice, saved_selected_browser, selected_action, paused, popup,
            editor_inprogress, text, line, acts, moved, odd>>

Panels == {"local", "remote"}
FilesOf(p) == IF p = "local" THEN LocalFiles ELSE RemoteFiles

-----------------------------------------------------------------------------
(* LoadText and SaveText.                                                  *)

\* Mutant: a CR and its LF end two lines.
LoadByteTwice(bytes, acc, i) ==
  IF bytes[i] \in Breaks
    THEN [acc EXCEPT !.lines = Append(acc.lines, acc.line), !.line = <<>>]
    ELSE [acc EXCEPT !.line = Append(@, bytes[i])]

\* A LF behind a CR is skipped, but not when it begins the next chunk.
LoadByte(bytes, acc, i) ==
  CASE acc.skip -> [acc EXCEPT !.skip = FALSE]
    [] ~acc.skip /\ bytes[i] \notin Breaks -> [acc EXCEPT !.line = Append(@, bytes[i])]
    [] OTHER -> [lines |-> Append(acc.lines, acc.line), line |-> <<>>,
                 skip |-> bytes[i] = "CR" /\ i < Len(bytes) /\ i % Chunk # 0
                            /\ bytes[i + 1] = "LF"]

\* The loop over the bytes: what there is after n of them.
Reading(bytes) ==
  LET read[n \in 0 .. Len(bytes)] ==
        IF n = 0 THEN [lines |-> <<>>, line |-> <<>>, skip |-> FALSE]
                 ELSE LoadByte(bytes, read[n - 1], n)
  IN  read

LoadText(bytes) ==
  LET read  == Reading(bytes)[Len(bytes)]
      lines == IF read.line = <<>> THEN read.lines ELSE Append(read.lines, read.line)
  IN  IF lines = <<>> THEN <<<<>>>> ELSE lines

\* Mutant: a line end goes between lines only.
SaveTextBetween(lines) ==
  FlattenSeq([i \in DOMAIN lines |-> IF i = Len(lines) THEN lines[i] ELSE Append(lines[i], "LF")])

SaveText(lines) == FlattenSeq([i \in DOMAIN lines |-> Append(lines[i], "LF")])

\* What a copy or a write that fails leaves: nothing, or half of it for any other part.
Part(bytes) == {SubSeq(bytes, 1, n) : n \in {0, Len(bytes) \div 2}}

-----------------------------------------------------------------------------
Init ==
  /\ files \in {t \in [Files -> UNION Range(Texts)] : \A f \in Files : t[f] \in Texts[f]}
  /\ at = "panels" /\ gui_mode = "BROWSER" /\ ime_dialog_running = FALSE
  /\ focus \in Panels /\ selected_browser = {focus} /\ saved_selected_browser = {}
  /\ selected \in {f \in [Panels -> Files] : \A p \in Panels : f[p] \in FilesOf(p)}
  /\ selected_action = "NONE" /\ paused = FALSE /\ popup = FALSE
  /\ editor_inprogress = FALSE /\ edit_file = NoFile /\ edit_buffer = <<>>
  /\ editor_modified = FALSE
  /\ edit_line_num = Nowhere /\ edit_line = <<>> /\ copy_text = <<>>
  /\ acts = 0 /\ moved = FALSE /\ odd = {}
  /\ loaded = [file |-> NoFile, bytes |-> <<>>, lines |-> <<>>]

\* A modal popup takes the focus from the panels.
PanelsCovered ==
  /\ at = "panels" /\ paused
  /\ at' = "editor" /\ selected_browser' = {}
  /\ UNCHANGED <<files, gui_mode, ime_dialog_running, focus, selected,
                 saved_selected_browser, selected_action, paused, popup,
                 editor_inprogress, text, line, acts, moved, odd>>

\* BrowserPanel and HandleWindowInput: the focused item is the selected file; L1 and R1
\* change panels, and in that frame a panel drawn before loses the focus too late.
PanelsDrawn(p, f, open) ==
  /\ at = "panels" /\ ~paused
  /\ open => p = focus /\ acts < MaxActs
  /\ at' = "editor" /\ focus' = p
  /\ selected_browser' = IF p = "remote" /\ focus = "local" THEN Panels ELSE {p}
  /\ selected' = [selected EXCEPT ![p] = f]
  /\ selected_action' = IF open THEN (IF p = "local" THEN "LOCAL_EDIT" ELSE "REMOTE_EDIT")
                        ELSE selected_action
  /\ moved' = (editor_inprogress /\ (moved \/ p # focus \/ f # selected[p]))
  /\ UNCHANGED <<files, gui_mode, ime_dialog_running, saved_selected_browser, paused, popup,
                 editor_inprogress, text, line, acts, odd>>

\* ShowEditorDialog when there is nothing to edit.
NoEditor ==
  /\ at = "editor" /\ ~editor_inprogress
  /\ at' = "actions"
  /\ saved_selected_browser' = IF paused THEN saved_selected_browser ELSE selected_browser
  /\ UNCHANGED <<files, gui_mode, ime_dialog_running, choice, selected_action, paused, popup,
                 editor_inprogress, text, line, acts, moved, odd>>

\* The editor is drawn; once gui_mode is no longer IME the line it was on is focused.
Drawn(lines, n) == IF n \in DOMAIN lines THEN Nowhere ELSE n

\* Mutant: which panel is saved to is taken anew while the editor is up.
ShownAnew ==
  /\ at = "editor" /\ editor_inprogress
  /\ at' = "actions"
  /\ saved_selected_browser' = selected_browser
  /\ paused' = TRUE /\ popup' = TRUE

Shown ==
  /\ at = "editor" /\ editor_inprogress
  /\ at' = "actions"
  /\ saved_selected_browser' = IF paused THEN saved_selected_browser ELSE selected_browser
  /\ paused' = TRUE /\ popup' = TRUE

ShowEditor ==
  /\ Shown
  /\ edit_line_num' = Drawn(edit_buffer, edit_line_num)
  /\ UNCHANGED <<files, gui_mode, ime_dialog_running, choice, selected_action,
                 editor_inprogress, text, edit_line, copy_text, acts, moved, odd>>

Closed == editor_inprogress' = FALSE /\ paused' = FALSE /\ popup' = FALSE

\* The Close button.
Close ==
  /\ at = "editor" /\ editor_inprogress /\ popup
  /\ at' = "actions" /\ Closed
  /\ edit_line_num' = Drawn(edit_buffer, edit_line_num)
  /\ UNCHANGED <<files, gui_mode, ime_dialog_running, choice, saved_selected_browser,
                 selected_action, text, edit_line, copy_text, acts, moved, odd>>

\* Where the Save button writes: not edit_file.
Target == IF "local" \in saved_selected_browser THEN selected["local"] ELSE selected["remote"]

\* A save may go through, break off, or not begin.
Kept == {SaveText(edit_buffer), files[Target]} \cup Part(SaveText(edit_buffer))

\* The Save button: SaveText, and Put for a remote file; nothing tells that one failed.
Save(kept) ==
  /\ at = "editor" /\ editor_inprogress /\ popup
  /\ at' = "actions" /\ Closed
  /\ files' = [files EXCEPT ![Target] = kept]
  /\ odd' = IF kept = SaveText(edit_buffer) THEN odd ELSE odd \cup {"failed"}
  /\ selected_action' = "REFRESH"
  /\ edit_line_num' = Drawn(edit_buffer, edit_line_num)
  /\ UNCHANGED <<gui_mode, ime_dialog_running, choice, saved_selected_browser, text,
                 edit_line, copy_text, acts, moved>>

Editing ==
  /\ popup /\ Shown
  /\ acts < MaxActs /\ acts' = acts + 1
  /\ UNCHANGED <<files, choice, selected_action, editor_inprogress, edit_file, loaded, moved>>

\* snprintf into edit_line
Offered(l) == SubSeq(l, 1, IF Len(l) < Width THEN Len(l) ELSE Width)

\* Mutant: an off-by-one, the line behind.
PickBehind(j) ==
  /\ edit_line_num' = j + 1
  /\ edit_line' = Offered(edit_buffer[j])
  /\ gui_mode' = "IME" /\ ime_dialog_running' \in BOOLEAN

\* The keyboard is brought up with the line; that it may not come up is not looked at.
Pick(j) ==
  /\ edit_line_num' = j
  /\ edit_line' = Offered(edit_buffer[j])
  /\ gui_mode' = "IME" /\ ime_dialog_running' \in BOOLEAN

NoPick == /\ edit_line_num' = Drawn(edit_buffer, edit_line_num)
          /\ UNCHANGED <<gui_mode, ime_dialog_running, edit_line>>

\* R1, L1, Square and Triangle on the focused line.
InsertLine(j) ==
  /\ Len(edit_buffer) < MaxLines
  /\ edit_buffer' = InsertAt(edit_buffer, j + 1, <<>>)
  /\ editor_modified' = TRUE /\ UNCHANGED copy_text

EraseLine(j) ==
  /\ edit_buffer' = RemoveAt(edit_buffer, j)
  /\ editor_modified' = TRUE /\ UNCHANGED copy_text

CopyLine(j) ==
  /\ copy_text' = edit_buffer[j]
  /\ UNCHANGED <<edit_buffer, editor_modified>>

PasteLine(j) ==
  /\ edit_buffer' = [edit_buffer EXCEPT ![j] = copy_text]
  /\ UNCHANGED <<copy_text, editor_modified>>

\* A line is chosen with the X button, ...
PickLine(j) == Editing /\ Pick(j) /\ UNCHANGED <<edit_buffer, editor_modified, copy_text, odd>>

\* ... another button is pressed on it, ...
PressKey(j) ==
  /\ Editing /\ NoPick /\ UNCHANGED odd
  /\ InsertLine(j) \/ EraseLine(j) \/ CopyLine(j) \/ PasteLine(j)

\* ... or both in one frame.
Chord(j) ==
  /\ Editing /\ Pick(j) /\ odd' = odd \cup {"chord"}
  /\ EraseLine(j) \/ PasteLine(j)

-----------------------------------------------------------------------------
(* ExecuteActions.                                                         *)

NextFrame == IF gui_mode = "IME" THEN "keyboard" ELSE "panels"

Idle ==
  /\ at = "actions" /\ selected_action \in {"NONE", "REFRESH"}
  /\ at' = NextFrame /\ selected_action' = "NONE"
  /\ UNCHANGED <<files, gui_mode, ime_dialog_running, choice, saved_selected_browser, paused,
                 popup, editor_inprogress, text, line, acts, moved, odd>>

Opening(p) ==
  /\ at = "actions"
  /\ selected_action = IF p = "local" THEN "LOCAL_EDIT" ELSE "REMOTE_EDIT"
  /\ at' = NextFrame /\ selected_action' = "NONE"
  /\ editor_modified' = FALSE /\ acts' = acts + 1
  /\ UNCHANGED <<files, gui_mode, ime_dialog_running, choice, saved_selected_browser, paused,
                 popup, line>>

\* The file is larger than max_edit_file_size, or Get failed.
OpenRefused(p) ==
  /\ Opening(p)
  /\ UNCHANGED <<editor_inprogress, edit_file, edit_buffer, loaded, moved, odd>>

\* For a remote file, Get may have brought less than all of it and returned 1.
Open(p, bytes) ==
  /\ Opening(p)
  /\ bytes = files[selected[p]] \/ p = "remote"
  /\ edit_file' = selected[p] /\ editor_inprogress' = TRUE
  /\ edit_buffer' = LoadText(bytes)
  /\ loaded' = [file |-> selected[p], bytes |-> bytes, lines |-> LoadText(bytes)]
  /\ moved' = FALSE /\ odd' = {}

\* LoadText could not open it: the editor comes up with what was there before.
OpenUnread ==
  /\ Opening("local")
  /\ edit_file' = selected["local"] /\ editor_inprogress' = TRUE
  /\ moved' = FALSE /\ odd' = {"unread"}
  /\ UNCHANGED <<edit_buffer, loaded>>

-----------------------------------------------------------------------------
(* HandleImeInput.                                                         *)

KeyboardDone ==
  /\ at = "keyboard" /\ ime_dialog_running
  /\ ime_dialog_running' = FALSE /\ gui_mode' = "BROWSER"
  /\ UNCHANGED <<files, choice, saved_selected_browser, selected_action, paused, popup,
                 editor_inprogress, edit_file, loaded, edit_line_num, copy_text, acts,
                 moved, odd>>

\* AfterEditorCallback; a line that is no longer there is undefined behaviour.
Entered(l) ==
  /\ KeyboardDone /\ edit_line' = l
  /\ IF edit_line_num \in DOMAIN edit_buffer
       THEN /\ edit_buffer' = [edit_buffer EXCEPT ![edit_line_num] = l]
            /\ editor_modified' = TRUE /\ at' = "panels"
       ELSE /\ UNCHANGED edit_buffer
            /\ editor_modified' = TRUE /\ at' \in {"panels", "crashed"}

\* Mutant: the frame loop is not told of a keyboard that was cancelled.
NotEnteredStays ==
  /\ at = "keyboard" /\ ime_dialog_running /\ ime_dialog_running' = FALSE
  /\ UNCHANGED <<files, choice, saved_selected_browser, selected_action, paused, popup,
                 editor_inprogress, text, line, acts, moved, odd, at, gui_mode>>

\* Cancelled, or OSK_NO_TEXT: an empty line cannot be entered.
NotEntered ==
  /\ KeyboardDone /\ at' = "panels" /\ UNCHANGED <<edit_buffer, editor_modified, edit_line>>

-----------------------------------------------------------------------------
Frame ==
  \/ PanelsCovered
  \/ \E p \in Panels : \E f \in FilesOf(p), open \in BOOLEAN : PanelsDrawn(p, f, open)
  \/ NoEditor \/ ShowEditor \/ Close
  \/ \E kept \in Kept : Save(kept)
  \/ \E j \in DOMAIN edit_buffer : PickLine(j) \/ PressKey(j) \/ Chord(j)
  \/ Idle
  \/ \E p \in Panels :
       \/ OpenRefused(p)
       \/ \E bytes \in Part(files[selected[p]]) \cup {files[selected[p]]} : Open(p, bytes)
  \/ OpenUnread

Keyboard == (\E l \in Typed : Entered(l)) \/ NotEntered

Next == Frame \/ Keyboard

\* The frame loop runs, and the user closes the keyboard at last.
Spec == Init /\ [][Next]_vars /\ WF_vars(Frame) /\ WF_vars(Keyboard)
-----------------------------------------------------------------------------
\* Save, ExecuteActions, BrowserPanel: a save changes no file but the one the text was read
\* from, if that file could be read and the user did nothing in the frame between opening
\* it and the editor's coming up.  (Save does not use edit_file.)
SavedToSource ==
  [][\A f \in Files : files'[f] # files[f] => f = loaded.file \/ moved \/ "unread" \in odd]_vars

\* SaveText, LoadText: what a save writes reads back as the lines that were on the screen,
\* unless a call failed or every line had been deleted.
SavedText ==
  [][\A f \in Files : files'[f] # files[f] =>
       LoadText(files'[f]) = edit_buffer \/ "failed" \in odd' \/ edit_buffer = <<>>]_vars

\* ShowEditorDialog, AfterEditorCallback: while the keyboard is up, the line its text will
\* replace is the one it was offered with, unless two buttons were pressed in one frame.
OfferedLine ==
  gui_mode = "IME" =>
    \/ edit_line_num \in DOMAIN edit_buffer
       /\ edit_line = Offered(edit_buffer[edit_line_num])
    \/ "chord" \in odd

\* The places where LoadText should end a line, and those where a CR and its LF are in two
\* chunks.
Ends(bytes) == {i \in DOMAIN bytes : bytes[i] = "LF"
                  \/ (bytes[i] = "CR" /\ (i = Len(bytes) \/ bytes[i + 1] # "LF"))}
Split(bytes) == {i \in DOMAIN bytes : i < Len(bytes) /\ i % Chunk = 0
                   /\ bytes[i] = "CR" /\ bytes[i + 1] = "LF"}


Broken(bytes) == Ends(bytes) \cup Split(bytes)
BrokenUpTo(bytes, n) == {e \in Broken(bytes) : e <= n}

\* What the first n bytes have but line ends.
Letters(bytes, n) ==
  FlattenSeq([i \in 1 .. n |-> IF bytes[i] \in Breaks THEN <<>> ELSE <<bytes[i]>>])

LinesOf(bytes, lines) ==
  /\ Len(lines) = Cardinality(Broken(bytes)) + (IF Last(bytes) \in Breaks THEN 0 ELSE 1)
  /\ FlattenSeq(lines) = Letters(bytes, Len(bytes))
  /\ \A n \in Broken(bytes) :
       FlattenSeq(SubSeq(lines, 1, Cardinality(BrokenUpTo(bytes, n)))) = Letters(bytes, n)

\* LoadText: no byte of a line is lost or invented, a line ends at each end of line, CR, LF
\* or both, and nowhere else but between a CR and LF read in two chunks, and the text
\* behind the last is a line more.
LoadExact == loaded.bytes # <<>> => LinesOf(loaded.bytes, loaded.lines)

\* RenderLoop, updateImeDialog: once the keyboard is up, frames are drawn again.  (When it
\* did not come up they never are: gui_mode stays IME and HandleImeInput does nothing.)
KeyboardReturns == (gui_mode = "IME" /\ ime_dialog_running) ~> gui_mode = "BROWSER"
=============================================================================
