------------------------------- MODULE Config -------------------------------
(***************************************************************************)
(* config.cpp: the settings in memory, config.ini, and what a start of the   *)
(* program makes of it.  All of it runs on the GUI's thread, so a save is one *)
(* step, but the write may break off anywhere, with the program (the disk is  *)
(* full) or with the console (the power is lost).  Two keys of [Global] and   *)
(* three of a site stand for the rest, which are read and written alike.      *)
(***************************************************************************)
EXTENDS IniFile

CONSTANTS
  Sites,
  Servers,         \* addresses the user types: "http" (a web page) or "dav"
  Folders,         \* default folders of a site
  LocalFolders,    \* default folders of the console
  Passwords,
  MaxStarts, MaxEdits, MaxBroken   \* bounds: starts, edits and saves, broken writes

ASSUME ConfigAssumption ==
  /\ Servers \subseteq {Plain("http"), Plain("dav")}
  /\ \A v \in Folders \cup LocalFolders \cup Passwords :
       v = [Plain(v.text) EXCEPT !.mark = v.mark] /\ v.mark \in {"whole", "semi", "brackets"}
  \* LoadConfig names them "Site 1", "Site 2" and so on.
  /\ IsFiniteSet(Sites) /\ Sites # {} /\ Sites \cap {"none", "Global", "unknown", "stray"} = {}
  /\ {MaxStarts, MaxEdits, MaxBroken} \subseteq Nat

\* site_settings[last_site] when last_site is none of sites: a fresh entry.
Other == "unknown"

VARIABLES
  disk,             \* config.ini, <<>> when there is none
  running,
  local_directory,
  last_site,        \* the name of a site, or Other
  site_settings,
  starts, edits, broken,   \* bounded counts
  asked,            \* ghost: what was last written for a setting, where that is on disk
                    \* whole and its section never tricky
  tricky,           \* ghost: the sections that were ever given a ';' or brackets
  ever,             \* ghost: the addresses ever entered for a site, and none
  old,              \* ghost: no write since a release without config_version
  unsure            \* ghost: a write broke off right behind [Global], or the program went on

store  == <<disk, broken>>
memory == <<running, local_directory, last_site, site_settings>>
counts == <<starts, edits>>
ghosts == <<asked, tricky, ever, old, unsure>>
configVars == <<store, memory, counts, ghosts>>

SiteOrder == SetToSeq(Sites)

SiteKeys == {"server", "password", "directory"}
Settings == (Sites \X SiteKeys) \cup {<<"Global", "local_directory">>}

\* A release before config_version called WebDAV servers http.
OldFile ==
  <<Header("Global"), KeyLine("local_directory", Plain("/"), FALSE)>>
    \o FlattenSeq([i \in DOMAIN SiteOrder |->
         <<Header(SiteOrder[i]), KeyLine("server", Plain("http"), FALSE)>>])

NoneAsked == [x \in {} |-> Empty]

NoSettings == [k \in SiteKeys |-> Empty]

ConfigInit ==
  /\ disk \in {<<>>, OldFile}
  /\ running = FALSE
  /\ local_directory = Empty /\ last_site = Other
  /\ site_settings = [s \in Sites \cup {Other} |-> NoSettings]
  /\ starts = 0 /\ edits = 0 /\ broken = 0
  /\ asked = NoneAsked /\ tricky = {}
  /\ ever = [s \in Sites |-> IF disk = <<>> THEN {"none"} ELSE {"none", "dav"}]
  /\ old = (disk # <<>>) /\ unsure = FALSE

\* Memory goes with the program.
Forgotten ==
  /\ local_directory' = Empty /\ last_site' = Other
  /\ site_settings' = [s \in Sites \cup {Other} |-> NoSettings]

Put(s, k, v) == [section |-> s, key |-> k, val |-> v]

\* An empty password is not encrypted.
Encrypt(v) == [v EXCEPT !.enc = (v.text # "none")]

\* Mutant: an encrypted password is taken for the password.
DecryptNever(v) == v

\* Decrypt fails for what is not its own output, and the text itself is taken.
Decrypt(v) == [v EXCEPT !.enc = FALSE]

\* ReadInt(CONFIG_VERSION) >= CONFIG_VERSION_NUM
VersionRead(list) ==
  LET v == ReadString(list, "Global", "config_version", Empty)
  IN  v.text = "1" /\ v.mark # "half"

Converted(v) == IF v.text = "http" THEN [v EXCEPT !.text = "dav"] ELSE v

\* A setting as LoadConfig reads it, and as it writes it back.
Loaded(list, s, k) ==
  LET v == ReadString(list, s, k, IF k = "directory" THEN Plain("/") ELSE Empty)
  IN  CASE k = "server" /\ ~VersionRead(list) -> Converted(v)
        [] k = "password" -> Decrypt(v)
        [] OTHER -> v

LoadedSite(list) == ReadString(list, "Global", "last_site", Plain(SiteOrder[1]))

SiteOf(v) == IF v.mark = "whole" /\ v.text \in Sites THEN v.text ELSE Other

\* LoadConfig's loop over the sites.
SiteWrites(list) ==
  FlattenSeq([i \in DOMAIN SiteOrder |->
    LET s == SiteOrder[i]
    IN  <<Put(s, "server", Loaded(list, s, "server")),
          Put(s, "password", Encrypt(Loaded(list, s, "password"))),
          Put(s, "directory", Loaded(list, s, "directory"))>>])

FolderWrite(list) ==
  Put("Global", "local_directory", ReadString(list, "Global", "local_directory", Plain("/")))

\* Mutant: the version is read and not written.
LoadWritesUnversioned(list) ==
  <<FolderWrite(list)>> \o SiteWrites(list)
    \o <<Put("Global", "last_site", LoadedSite(list))>>

\* LoadConfig's writes, in its order.
LoadWrites(list) ==
  <<Put("Global", "config_version", Plain("1")), FolderWrite(list)>> \o SiteWrites(list)
    \o <<Put("Global", "last_site", LoadedSite(list))>>

\* A write that broke off right behind [Global].
EndsInGlobal(file) == file # <<>> /\ Last(file) = Header("Global")

EndsAtHeader(list, s) == list.cur > 0 /\ list.entries[list.cur].section = s

IsOdd(v) == Shows(v, "semi") \/ Shows(v, "brackets")

\* The settings among the writes, as the program would have them back.
AskedBy(writes) ==
  [x \in {<<writes[i].section, writes[i].key>> : i \in DOMAIN writes} \cap Settings |->
     [(CHOOSE w \in Range(writes) : <<w.section, w.key>> = x).val EXCEPT !.enc = FALSE]]

\* WriteIniFile: fopen fails, all of it is written, or the write breaks off and the
\* program goes on (its result is ignored) or is gone with the power.
WriteIniFile(list, writes) ==
  LET lines == WriteStrings(list, writes).entries
      mine  == AskedBy(writes)
  IN  /\ tricky' = tricky \cup {w.section : w \in {u \in Range(writes) : IsOdd(u.val)}}
      /\ \/ disk' = lines /\ broken' = broken
            \* What is added behind a header at the file's end may be dropped (AddItem).
            /\ LET kept == {x \in DOMAIN mine : ~EndsAtHeader(list, x[1])}
               IN  asked' = [x \in {y \in kept \cup DOMAIN asked : y[1] \notin tricky'} |->
                               IF x \in kept THEN mine[x] ELSE asked[x]]
            /\ running' = TRUE /\ unsure' = unsure
         \/ broken < MaxBroken /\ broken' = broken + 1
            /\ disk' \in {disk} \cup BrokenOff(lines)
            /\ asked' = NoneAsked
            /\ running' \in BOOLEAN
            /\ unsure' = (unsure \/ running' \/ EndsInGlobal(disk'))
      /\ old' = (old /\ disk' = disk)

\* LoadConfig's variables.
Remembered(list) ==
  /\ local_directory' = ReadString(list, "Global", "local_directory", Plain("/"))
  /\ site_settings' = [s \in Sites \cup {Other} |->
       IF s = Other THEN NoSettings ELSE [k \in SiteKeys |-> Loaded(list, s, k)]]
  /\ last_site' = SiteOf(LoadedSite(list))

LoadConfig ==
  LET list == OpenIniFile(disk)
  IN  /\ ~running /\ starts < MaxStarts /\ starts' = starts + 1
      /\ WriteIniFile(list, LoadWrites(list))
      /\ \/ running' /\ Remembered(list)
         \/ ~running' /\ Forgotten
      /\ UNCHANGED <<edits, ever>>

\* The last start the bound allows is only looked at.
InUse == running /\ starts < MaxStarts

\* The site combo of the connection panel.
SelectSite(s) ==
  /\ InUse /\ s # last_site
  /\ last_site' = s
  /\ UNCHANGED <<store, running, local_directory, site_settings, counts, ghosts>>

\* The panel's fields, and the folder a default is taken from.
Edit(k, v) ==
  /\ InUse /\ edits < MaxEdits /\ edits' = edits + 1
  /\ v # site_settings[last_site][k]
  /\ site_settings' = [site_settings EXCEPT ![last_site][k] = v]
  /\ ever' = [s \in Sites |-> IF k = "server" /\ s = last_site THEN ever[s] \cup {v.text}
                              ELSE ever[s]]
  /\ UNCHANGED <<store, running, local_directory, last_site, starts,
                 asked, tricky, old, unsure>>

\* One of the saves of the running program; the power may go with the write.
Saving(writes) ==
  /\ InUse /\ edits < MaxEdits /\ edits' = edits + 1
  /\ WriteIniFile(OpenIniFile(disk), writes)
  /\ UNCHANGED starts

\* Connect, the background download box, a default remote folder: the password is
\* encrypted and then written plain.
SaveConfig ==
  /\ Saving(<<Put(last_site, "server", site_settings[last_site].server),
            Put(last_site, "password", site_settings[last_site].password),
            Put(last_site, "directory", site_settings[last_site].directory),
            Put("Global", "last_site", Plain(last_site))>>)
  /\ \/ running' /\ UNCHANGED <<local_directory, last_site, site_settings>>
     \/ ~running' /\ Forgotten
  /\ UNCHANGED ever

\* SaveLocalDirecotry; SaveGlobalConfig writes other keys of [Global] the same way.
SaveLocalDirectory(v) ==
  /\ v # local_directory
  /\ Saving(<<Put("Global", "local_directory", v)>>)
  /\ \/ running' /\ local_directory' = v /\ UNCHANGED <<last_site, site_settings>>
     \/ ~running' /\ Forgotten
  /\ UNCHANGED ever

Quit == InUse /\ running' = FALSE /\ Forgotten /\ UNCHANGED <<store, counts, ghosts>>

ConfigNext ==
  \/ LoadConfig
  \/ \E s \in Sites : SelectSite(s)
  \/ \E v \in Servers : Edit("server", v)
  \/ \E v \in Passwords : Edit("password", v)
  \/ \E v \in Folders : Edit("directory", v)
  \/ SaveConfig
  \/ \E v \in LocalFolders : SaveLocalDirectory(v)
  \/ Quit

ConfigSpec == ConfigInit /\ [][ConfigNext]_configVars
-----------------------------------------------------------------------------
Address(s) == ReadString(OpenIniFile(disk), s, "server", Empty)

\* LoadConfig, WriteIniFile: a start finds every setting as it was last saved, when the
\* write went through and its section was never given a ';' or brackets.  An address is
\* as it was saved unless the version is lost (VersionKept says when).
ReadBack ==
  [][LoadConfig /\ running' => \A x \in DOMAIN asked :
       LET v == IF x[1] = "Global" THEN local_directory' ELSE site_settings'[x[1]][x[2]]
       IN  v = asked[x] \/ (x[2] = "server" /\ ~VersionRead(OpenIniFile(disk))
                                            /\ v = Converted(asked[x]))]_configVars

\* LoadConfig, the step from http to WebDAV: no address stands in the file without the
\* version that says how to read it, but before the first save of this release, after
\* brackets in [Global], or after a write that broke off right behind that header or
\* under a program that went on.  Losing power anywhere else leaves the addresses that
\* are still there, the last of them perhaps cut, under the version.
VersionKept ==
  (\E s \in Sites : Address(s).text # "none") =>
     VersionRead(OpenIniFile(disk)) \/ old \/ unsure \/ "Global" \in tricky

\* FindpKey, AddItem, AddItemAt: whatever was damaged, the address that comes up for a
\* site was once entered for that site, or is the conversion of one that was.  It is the
\* whole of it, unless a write has broken off, which may cut it, or a value of that very
\* site has had a ';' or brackets, which may have run another line into it.
Contained ==
  running => \A s \in Sites :
    LET v == site_settings[s].server
    IN  /\ v.text \in ever[s] \/ (v.text = "dav" /\ "http" \in ever[s])
        /\ \/ v.mark = "whole"
           \/ v.mark = "half" /\ broken > 0
           \/ v.mark = "garbled" /\ s \in tricky
=============================================================================
