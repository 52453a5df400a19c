----------------------------- MODULE ConfigInv -----------------------------
(***************************************************************************)
(* What holds of the settings and of config.ini in every state, by           *)
(* induction.                                                                *)
(***************************************************************************)
EXTENDS Config

Words ==
  Sites \cup {Other, "none", "/", "1", "http", "dav"}
    \cup {v.text : v \in Folders \cup LocalFolders \cup Passwords}

Marks == {"whole", "semi", "brackets", "part", "half", "garbled"}

Values == [text : Words, mark : Marks, enc : BOOLEAN]

Sections == Sites \cup {Other, "Global"}
Keys     == SiteKeys \cup {"config_version", "local_directory", "last_site"}

Lines ==
  {Header(s) : s \in Sections \cup {"stray"}}
    \cup [section : {"none"}, key : Keys \cup {"none"}, val : Values, tail : BOOLEAN]

ConfigTypes ==
  /\ disk \in Seq(Lines)
  /\ running \in BOOLEAN /\ old \in BOOLEAN /\ unsure \in BOOLEAN
  /\ {starts, edits, broken} \subseteq Nat
  /\ local_directory \in Values
  /\ last_site \in Sites \cup {Other}
  /\ site_settings \in [Sites \cup {Other} -> [SiteKeys -> Values]]
  /\ ever \in [Sites -> SUBSET Words] /\ \A s \in Sites : "none" \in ever[s]
  /\ tricky \subseteq Sections

\* The line at i stands in the section whose header is at h.
InSection(es, h, i) ==
  h < i /\ IsHeader(es[h]) /\ \A j \in h + 1 .. i : ~IsHeader(es[j])

WasEntered(entered, s, t) == t \in entered[s] \/ (t = "dav" /\ "http" \in entered[s])

\* What ReadString finds for its section and its key.
Found(es, h, i) ==
  /\ \A j \in 1 .. h - 1 : es[j].section # es[h].section
  /\ \A j \in h + 1 .. i - 1 : es[j].key # es[i].key

\* Every address stands in the section of a site it was entered for, but for addresses of
\* the release before, which are still to be converted, of the sites in open.
Own(es, entered, open) ==
  \A h, i \in DOMAIN es :
     InSection(es, h, i) /\ es[h].section \in Sites /\ es[i].key = "server"
       => \/ WasEntered(entered, es[h].section, es[i].val.text)
          \/ /\ es[h].section \in open /\ Found(es, h, i)
             /\ es[i].val.text = "http" /\ "dav" \in entered[es[h].section]

\* What ReadInt finds for config_version stands at q, in [Global], at p.
DatedAt(es, p, q) ==
  /\ InSection(es, p, q) /\ Found(es, p, q)
  /\ es[p].section = "Global" /\ es[q].key = "config_version"
  /\ es[q].val.text = "1" /\ es[q].val.mark # "half"

\* It will not be read as something else, and no site comes before.
VersionAt(es, p, q) ==
  /\ DatedAt(es, p, q)
  /\ \A j \in 1 .. p - 1 : es[j].section \notin Sites
  /\ \A j \in p + 1 .. q : ~Shows(es[j].val, "brackets")

Versioned(es, n) == \E p, q \in 1 .. n : VersionAt(es, p, q)

\* No site's section.
Bare(es) == \A i \in DOMAIN es : es[i].section \notin Sites

\* The version can be lost only where VersionKept says.  While the program runs the file has
\* it; before that, a file without it has no sites, or is as the release before left it.
Dated ==
  \/ unsure \/ "Global" \in tricky
  \/ Versioned(disk, Len(disk))
  \/ ~running /\ ~EndsInGlobal(disk) /\ (Bare(disk) \/ (old /\ disk = OldFile))

Unconverted == IF VersionRead(OpenIniFile(disk)) THEN {} ELSE Sites

\* The addresses in memory.
AddressesEntered ==
  running => \A s \in Sites : WasEntered(ever, s, site_settings[s].server.text)

ConfigInvariant ==
  /\ ConfigTypes
  /\ Own(disk, ever, Unconverted)
  /\ AddressesEntered
  /\ Dated

-----------------------------------------------------------------------------
\* A section's header stands once.
Distinct(es) ==
  \A g, h \in DOMAIN es : es[g].section = es[h].section /\ es[g].section \in Sections => g = h

\* Nothing stands behind the value, and nothing has run into it.
Spotless(l) == ~l.tail /\ ~Shows(l.val, "brackets") /\ l.val.mark # "garbled"

\* The lines of a section that was never given a ';' or brackets.
Clean(es, risky) ==
  \A h, i \in DOMAIN es :
     InSection(es, h, i) /\ es[h].section \in Sections \ risky
       => Spotless(es[i])

\* Only passwords are encrypted, an address has no ';' or brackets of its own, and it takes
\* a write that broke off (one of cuts) to make a text half.
Natural(k, v, cuts) ==
  /\ v.enc => k = "password"
  /\ k = "server" => v.mark \in {"whole", "half", "garbled"}
  /\ v.mark = "half" => cuts > 0

Each(es, cuts) == \A i \in DOMAIN es : Natural(es[i].key, es[i].val, cuts)

Whole(es, risky, cuts) == Distinct(es) /\ Clean(es, risky) /\ Each(es, cuts)

\* What is found for the setting x stands among the first n lines, and is v.
Stands(es, n, x, v) ==
  \E h, i \in 1 .. n :
     /\ InSection(es, h, i) /\ Found(es, h, i)
     /\ es[h].section = x[1] /\ es[i].key = x[2]
     /\ [es[i].val EXCEPT !.enc = FALSE] = v

\* A setting of section s in memory.
Familiar(s, k, v, risky, cuts) ==
  ~v.enc /\ Natural(k, v, cuts) /\ (v.mark = "garbled" => s \in risky)

\* Nothing in memory is encrypted, or damaged by more than the file can be.
Deciphered ==
  /\ ~local_directory.enc
  /\ \A s \in Sites \cup {Other}, k \in SiteKeys :
       Familiar(s, k, site_settings[s][k], tricky, broken)

SettingsInvariant ==
  /\ Whole(disk, tricky, broken) /\ Deciphered
  /\ \A x \in DOMAIN asked :
       x \in Settings /\ x[1] \notin tricky /\ Stands(disk, Len(disk), x, asked[x])
=============================================================================
