------------------------------ MODULE EditorInv ------------------------------
(***************************************************************************)
(* The inductive invariants behind the properties of Editor: what can be    *)
(* chosen at each place of the frame, which file the panels select while a  *)
(* text is being opened and while it is on the screen, and what a text is.  *)
(***************************************************************************)
EXTENDS Editor

Modes ==
  /\ at \in {"panels", "editor", "actions", "keyboard", "crashed"}
  /\ gui_mode \in {"BROWSER", "IME"}
  /\ focus \in Panels
  /\ selected_action \in {"NONE", "LOCAL_EDIT", "REMOTE_EDIT", "REFRESH"}

Flags ==
  /\ ime_dialog_running \in BOOLEAN /\ paused \in BOOLEAN /\ popup \in BOOLEAN
  /\ editor_inprogress \in BOOLEAN /\ editor_modified \in BOOLEAN /\ moved \in BOOLEAN

Selections ==
  /\ selected_browser \subseteq Panels /\ saved_selected_browser \subseteq Panels
  /\ DOMAIN files = Files /\ DOMAIN selected = Panels
     /\ \A p \in Panels : selected[p] \in FilesOf(p)

\* The editor is on the screen only while there is something to edit, and its popup is what
\* holds the activities; the keyboard is up only with it.
Up ==
  /\ paused = popup
  /\ popup => editor_inprogress
  /\ editor_inprogress /\ at = "actions" => popup
  /\ gui_mode = "IME" => popup /\ at \in {"actions", "keyboard"}
  /\ at = "keyboard" => gui_mode = "IME"

\* An action is chosen while the panels are drawn, and executed in the same frame.
Chosen ==
  /\ at \in {"panels", "keyboard", "crashed"} => selected_action = "NONE"
  /\ at = "editor" => selected_action # "REFRESH"
  /\ at = "editor" /\ popup => selected_action = "NONE"
  /\ gui_mode = "IME" => selected_action = "NONE"

Action(p) == IF p = "local" THEN "LOCAL_EDIT" ELSE "REMOTE_EDIT"

\* A file is opened in the panel that has the focus, which alone is saved to.
OpenedHere ==
  \A p \in Panels : selected_action = Action(p) =>
    /\ focus = p /\ selected_browser = {p}
    /\ at = "actions" => saved_selected_browser = {p}

\* As long as the user has not moved, what is saved to is the file that was read.
Consistent ==
  editor_inprogress /\ ~moved /\ "unread" \notin odd =>
    /\ popup => Target = loaded.file
    /\ ~popup /\ at \in {"panels", "editor"} => selected[focus] = loaded.file
    /\ ~popup /\ at = "editor" => selected_browser = {focus}

\* The bytes of a line.
LineBytes == Bytes \ Breaks

\* No line of the buffer has a line end in it, and what was read is what LoadText makes of
\* the bytes there were.
Lined ==
  /\ files \in [Files -> Seq(Bytes)]
  /\ edit_buffer \in Seq(Seq(LineBytes)) /\ copy_text \in Seq(LineBytes)
  /\ loaded.bytes \in Seq(Bytes)
  /\ loaded.bytes # <<>> => loaded.lines = LoadText(loaded.bytes)

TypeOK == Modes /\ Flags /\ Selections

Inv == TypeOK /\ Up /\ Chosen /\ OpenedHere

IInv == Inv /\ Consistent /\ OfferedLine /\ Lined
=============================================================================
