------------------------------ MODULE IniFile -------------------------------
(***************************************************************************)
(* inifile.c: an ini file as the list of its lines, from OpenIniFile to      *)
(* WriteIniFile.  A text is abstract; beside it stands what the functions    *)
(* look for in a line (mark): "semi" a text with ';' in it, "brackets" one    *)
(* with '[' and ']', "part" the text before a ';', "half" a text cut by a     *)
(* write that broke off, "garbled" a text with another line run into it.      *)
(***************************************************************************)
EXTENDS Integers, SequencesExt

Plain(t) == [text |-> t, mark |-> "whole", enc |-> FALSE]

\* "none" is the empty string.
Empty == Plain("none")

\* A line: a section's header (no key), a key with the value before ';' and whether
\* anything stands behind one (tail), or what is neither (no section, no key).
Header(s)          == [section |-> s, key |-> "none", val |-> Empty, tail |-> FALSE]
KeyLine(k, v, t)   == [section |-> "none", key |-> k, val |-> v, tail |-> t]
Comment            == KeyLine("none", Empty, FALSE)

IsHeader(l) == l.section # "none"

\* Base64 has neither ';' nor brackets.
Shows(v, mark) == v.mark = mark /\ ~v.enc

\* A key whose value has brackets is read as a section nobody asks for.
AsRead(l) == IF Shows(l.val, "brackets") THEN Header("stray") ELSE l

\* entries: Entry and what follows it; cur: the position of CurEntry, 0 for NULL.
OpenIniFile(file) ==
  [entries |-> [i \in DOMAIN file |-> AsRead(file[i])], cur |-> Len(file)]

FindSection(es, s) == SelectInSeq(es, LAMBDA l : IsHeader(l) /\ l.section = s)

\* Mutant: a section does not end where the next one begins.
SectionEndless(es, h) == Len(es)

\* The position of the last line of the section whose header is at h.
SectionEnd(es, h) ==
  LET next == SelectInSubSeq(es, h + 1, Len(es), IsHeader)
  IN  IF next = 0 THEN Len(es) ELSE next - 1

FindKey(es, s, k) ==
  LET h == FindSection(es, s)
  IN  IF h = 0 THEN 0
      ELSE SelectInSubSeq(es, h + 1, SectionEnd(es, h), LAMBDA l : l.key = k)

ReadString(list, s, k, default) ==
  LET i == FindKey(list.entries, s, k)
  IN  IF i = 0 THEN default ELSE list.entries[i].val

\* List.Comment: the text of the last line with a ';' from the header to the key.
HasComment(es, s, i) == \E j \in FindSection(es, s) + 1 .. i : es[j].tail

Replaced(v, comment) ==
  CASE Shows(v, "semi") -> [v EXCEPT !.mark = "part"]
    [] comment /\ ~Shows(v, "brackets") -> [v EXCEPT !.mark = "garbled"]
    [] OTHER -> v

\* AddItemAt: right behind the header; CurEntry stays where it is.
AddItemAt(list, h, l) ==
  [entries |-> InsertAt(list.entries, h + 1, l),
   cur     |-> IF list.cur > h THEN list.cur + 1 ELSE list.cur]

\* AddItem: behind CurEntry, whose pNext is overwritten.
AddItem(list, l) ==
  [entries |-> Append(SubSeq(list.entries, 1, list.cur), l), cur |-> list.cur + 1]

\* What stands on a line that is written anew for key k.
NewLine(k, v, comment) == KeyLine(k, Replaced(v, comment), Shows(v, "semi") \/ comment)

WriteString(list, s, k, v) ==
  LET h == FindSection(list.entries, s)
      i == FindKey(list.entries, s, k)
  IN  IF i # 0 THEN [list EXCEPT !.entries[i] = NewLine(k, v, HasComment(list.entries, s, i))]
      ELSE IF h # 0 THEN AddItemAt(list, h, NewLine(k, v, FALSE))
      ELSE AddItem(AddItem(list, Header(s)), NewLine(k, v, FALSE))

\* One after the other.
WriteStrings(list, writes) ==
  LET after[n \in 0 .. Len(writes)] ==
        IF n = 0 THEN list
        ELSE WriteString(after[n - 1], writes[n].section, writes[n].key, writes[n].val)
  IN  after[Len(writes)]

\* The last line of a write that broke off inside it.
Half(l) ==
  IF l.key # "none" /\ l.val.text # "none" THEN KeyLine(l.key, [l.val EXCEPT !.mark = "half"], FALSE)
  ELSE Comment

\* What a write that breaks off leaves of the lines.
BrokenOff(ls) == {SubSeq(ls, 1, n) : n \in 0 .. Len(ls) - 1}
              \cup {Append(SubSeq(ls, 1, n - 1), Half(ls[n])) : n \in 1 .. Len(ls)}
=============================================================================
