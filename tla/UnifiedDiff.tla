----------------------------- MODULE UnifiedDiff -----------------------------
(***************************************************************************)
(* parse_unified_diff (review/diff.py) reading the diff git writes, line   *)
(* by line: one action per kind of line, with what git means by it and     *)
(* what the parser does.  The parser stops after max_lines lines, so every *)
(* state is the result for some diff.  Not modelled, as no component reads *)
(* them: the count of removed lines and the new-file flag.                 *)
(*                                                                         *)
(* A line of content that starts with "++ " is written as "+++ ...", which *)
(* the parser takes for the name of a file, here Stray.                    *)
(***************************************************************************)
EXTENDS Integers, Sequences

CONSTANTS
  Path,      \* files of the repository
  Stray,     \* what a line of content is mistaken to name
  Text,      \* lines of content
  PlusText,  \* those that start with "++ "
  MaxLine    \* bound: lines of a file

ASSUME DiffAssumption == Stray \notin Path /\ PlusText \subseteq Text /\ MaxLine \in Nat

VARIABLES
  files,     \* paths of NormalizedDiff.files, in order
  added,     \* their AddedLines: index of the file, new_line, text
  current,   \* index of the file read at present, 0 for None
  newLine,   \* new_lineno
  phase,     \* git: kind of the last line written, as far as it matters
  path,      \* git: the file
  line,      \* git: number of the next line of the new file
  markers,   \* git: "no newline" markers written in this hunk
  strayed,   \* git: a PlusText was written in this file
  written    \* git: the lines added so far

parserVars == <<files, added, current, newLine>>
gitVars == <<phase, path, line, markers, strayed, written>>
diffVars == <<parserVars, gitVars>>

Body == {"names", "hunk", "removed", "new", "old_ended"}
Phase == Body \cup {"none", "header", "ended"}

DiffTypeOK ==
  /\ files \in Seq(Path \cup {Stray})
  /\ added \subseteq [file : Nat, line : Nat, text : Text]
  /\ current \in Nat /\ newLine \in Nat
  /\ phase \in Phase /\ path \in Path \cup {Stray}
  /\ line \in Nat /\ markers \in Nat /\ strayed \in BOOLEAN
  /\ written \subseteq [path : Path, line : Nat, text : Text, markers : Nat, strayed : BOOLEAN]

DiffInit ==
  /\ files = <<>> /\ added = {} /\ current = 0 /\ newLine = 0
  /\ phase = "none" /\ path = Stray /\ line = 0 /\ markers = 0 /\ strayed = FALSE
  /\ written = {}

-----------------------------------------------------------------------------
(* The parser meets "+++ p".                                               *)
OpenFile(p) ==
  /\ files' = Append(files, p)
  /\ current' = Len(files) + 1
  /\ UNCHANGED <<added, newLine>>

(* The parser counts a line of the new file, if it is in one.              *)
CountLine == newLine' = IF current = 0 THEN newLine ELSE newLine + 1

(* "diff --git": git lists every file once.                                *)
FileHeader(p) ==
  /\ phase \notin {"names", "hunk"} /\ p \notin {files[i] : i \in DOMAIN files}
  /\ phase' = "header" /\ path' = p
  /\ current' = 0
  /\ UNCHANGED <<files, added, newLine, line, markers, strayed, written>>

(* "--- a/p" and "+++ b/p".                                                *)
FileNames ==
  /\ phase = "header"
  /\ phase' = "names" /\ line' = 0 /\ markers' = 0 /\ strayed' = FALSE
  /\ OpenFile(path)
  /\ UNCHANGED <<path, written>>

(* "+++ /dev/null": the rest of a deleted file are removed lines.          *)
Deleted ==
  /\ phase = "header"
  /\ phase' = "ended"
  /\ current' = 0
  /\ UNCHANGED <<files, added, newLine, path, line, markers, strayed, written>>

(* "@@ -a,b +n,c @@"; n = 0, for a file left empty, adds no line and is    *)
(* left out.                                                               *)
Hunk(n) ==
  /\ phase \in {"names", "removed", "new"} /\ n >= line
  /\ phase' = "hunk" /\ line' = n /\ markers' = 0
  /\ newLine' = n
  /\ UNCHANGED <<files, added, current, path, strayed, written>>

(* Mutant of Context: context lines are not counted.                       *)
ContextUncounted ==
  /\ phase \in {"hunk", "removed", "new"} /\ line <= MaxLine
  /\ phase' = "new" /\ line' = line + 1
  /\ UNCHANGED <<parserVars, path, markers, strayed, written>>

Context ==
  /\ phase \in {"hunk", "removed", "new"} /\ line <= MaxLine
  /\ phase' = "new" /\ line' = line + 1
  /\ CountLine
  /\ UNCHANGED <<files, added, current, path, markers, strayed, written>>

Remove ==
  /\ phase \in {"hunk", "removed", "new"}
  /\ phase' = "removed"
  /\ UNCHANGED <<parserVars, path, line, markers, strayed, written>>

(* What git writes with an added line.                                     *)
WriteLine(text) ==
  /\ phase \in {"hunk", "removed", "new", "old_ended"} /\ line <= MaxLine
  /\ phase' = IF phase = "old_ended" THEN phase ELSE "new"
  /\ line' = line + 1
  /\ strayed' = (strayed \/ text \in PlusText)
  /\ written' = written \cup
       {[path |-> path, line |-> line, text |-> text, markers |-> markers, strayed |-> strayed']}
  /\ UNCHANGED <<path, markers>>

AddLine(text) ==
  /\ WriteLine(text)
  /\ text \notin PlusText
  /\ added' = IF current = 0 THEN added
              ELSE added \cup {[file |-> current, line |-> newLine, text |-> text]}
  /\ CountLine
  /\ UNCHANGED <<files, current>>

AddPlusLine(text) ==
  /\ WriteLine(text)
  /\ text \in PlusText
  /\ OpenFile(Stray)

(* "\ No newline at end of file", after the last line of the old file or   *)
(* of the new one: to the parser a line of context.  The second of two is  *)
(* left out, nothing of the file follows it.                               *)
NoNewline ==
  /\ phase \in {"removed", "new"}
  /\ phase' = IF phase = "removed" THEN "old_ended" ELSE "ended"
  /\ markers' = markers + 1
  /\ CountLine
  /\ UNCHANGED <<files, added, current, path, line, strayed, written>>

DiffNext ==
  \/ \E p \in Path : FileHeader(p)
  \/ FileNames \/ Deleted
  \/ \E n \in 1..MaxLine : Hunk(n)
  \/ Context \/ Remove \/ NoNewline
  \/ \E text \in Text : AddLine(text) \/ AddPlusLine(text)

DiffSpec == DiffInit /\ [][DiffNext]_diffVars

-----------------------------------------------------------------------------
Parsed ==
  {[path |-> files[a.file], line |-> a.line, text |-> a.text] : a \in {b \in added : files[b.file] # Stray}}

(* The lines git added, each moved down by the markers before it.          *)
Moved ==
  {[path |-> t.path, line |-> t.line + t.markers, text |-> t.text] : t \in {u \in written : ~u.strayed}}

(* The parser finds exactly the added lines, in their files and at their   *)
(* numbers, except that a marker before a line moves it down by one and    *)
(* that a line that looks like a header hides the rest of its file         *)
(* (diff.py:89-113).                                                       *)
LinesAreFound == Parsed = Moved
=============================================================================
