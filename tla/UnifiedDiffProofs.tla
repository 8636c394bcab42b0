-------------------------- MODULE UnifiedDiffProofs --------------------------
(***************************************************************************)
(* The parser finds the added lines of every diff, of any length: proved   *)
(* by comparing its file and its line number with git's at every line.     *)
(* From it: what the suggestions made from the parsed diff stand on.       *)
(***************************************************************************)
EXTENDS SuggestedFixes, SequenceTheorems, TLAPS

(* What holds between two lines: the parser reads the last file it opened, *)
(* and in a hunk it is git's file and, but for the markers, git's line,    *)
(* until a line strays; from then on it reads into Stray.                  *)
InStep ==
  phase \in Body =>
    /\ current # 0 /\ path \in Path
    /\ strayed => files[current] = Stray
    /\ ~strayed => files[current] = path /\ (phase # "names" => newLine = line + markers)

DiffInv ==
  /\ DiffTypeOK
  /\ current \in {0, Len(files)}
  /\ \A a \in added : a.file \in 1..Len(files)
  /\ phase = "header" => path \in Path
  /\ InStep
  /\ LinesAreFound

ParsedLine(a) == [path |-> files[a.file], line |-> a.line, text |-> a.text]
MovedLine(t) == [path |-> t.path, line |-> t.line + t.markers, text |-> t.text]

-----------------------------------------------------------------------------
(* A new file at the end of the list changes no line already found.        *)
LEMMA OpenFileKeeps ==
  ASSUME DiffInv, NEW p \in Path \cup {Stray}, OpenFile(p)
  PROVE  /\ files' \in Seq(Path \cup {Stray}) /\ Len(files') = Len(files) + 1
         /\ current' = Len(files') /\ current' \in Nat /\ files'[current'] = p
         /\ \A a \in added' : a.file \in 1..Len(files')
         /\ Parsed' = Parsed
<1>1. files \in Seq(Path \cup {Stray})
  BY DEF DiffInv, DiffTypeOK
<1>2. /\ files' \in Seq(Path \cup {Stray}) /\ Len(files') = Len(files) + 1
      /\ files'[Len(files) + 1] = p
      /\ \A i \in 1..Len(files) : files'[i] = files[i]
  BY <1>1, AppendProperties DEF OpenFile
<1>3. Len(files) \in Nat
  BY <1>1
<1>4. \A a \in added : a.file \in 1..Len(files) /\ files'[a.file] = files[a.file]
  BY <1>2 DEF DiffInv
<1>5. added' = added /\ current' = Len(files) + 1
  BY DEF OpenFile
<1>6. Parsed' = Parsed
  BY <1>4, <1>5 DEF Parsed
<1> QED
  BY <1>2, <1>3, <1>4, <1>5, <1>6

(* Steps that open no file and add no line change neither side.            *)
LEMMA QuietKeeps ==
  ASSUME DiffInv, UNCHANGED <<files, added, written>>
  PROVE  LinesAreFound' /\ (\A a \in added' : a.file \in 1..Len(files'))
BY DEF DiffInv, LinesAreFound, Parsed, Moved

LEMMA DiffInitInv == DiffInit => DiffInv
<1> SUFFICES ASSUME DiffInit PROVE DiffInv
  OBVIOUS
<1>1. DiffTypeOK
  <2>1. <<>> \in Seq(Path \cup {Stray})
    BY EmptySeq
  <2> QED
    BY <2>1 DEF DiffInit, DiffTypeOK, Phase, Body
<1>2. Len(files) = 0
  BY DEF DiffInit
<1>3. LinesAreFound
  BY DEF DiffInit, LinesAreFound, Parsed, Moved
<1> QED
  BY <1>1, <1>2, <1>3 DEF DiffInit, DiffInv, InStep, Body

-----------------------------------------------------------------------------
LEMMA DiffStep == DiffInv /\ [DiffNext]_diffVars => DiffInv'
<1> SUFFICES ASSUME DiffInv, [DiffNext]_diffVars PROVE DiffInv'
  OBVIOUS
<1> USE DiffAssumption
<1>0. DiffTypeOK /\ Len(files) \in Nat
  BY DEF DiffInv, DiffTypeOK
<1>1. ASSUME NEW p \in Path, FileHeader(p) PROVE DiffInv'
  <2>1. DiffTypeOK'
    BY <1>0, <1>1 DEF FileHeader, DiffTypeOK, Phase, Body
  <2>2. LinesAreFound' /\ (\A a \in added' : a.file \in 1..Len(files'))
    BY <1>1, QuietKeeps DEF FileHeader
  <2> QED
    BY <1>1, <2>1, <2>2 DEF FileHeader, DiffInv, InStep, Body
<1>2. CASE FileNames
  <2>1. OpenFile(path) /\ path \in Path /\ written' = written
    BY <1>2 DEF FileNames, DiffInv
  <2>2. /\ files' \in Seq(Path \cup {Stray}) /\ Len(files') = Len(files) + 1
        /\ current' = Len(files') /\ current' \in Nat /\ files'[current'] = path
        /\ \A a \in added' : a.file \in 1..Len(files')
        /\ Parsed' = Parsed
    BY <2>1, OpenFileKeeps
  <2>3. DiffTypeOK'
    BY <1>0, <1>2, <2>2 DEF FileNames, OpenFile, DiffTypeOK, Phase, Body
  <2>4. LinesAreFound'
    BY <2>1, <2>2 DEF DiffInv, LinesAreFound, Moved
  <2>5. InStep'
    BY <1>0, <1>2, <2>1, <2>2 DEF FileNames, InStep, Body
  <2> QED
    BY <1>2, <2>2, <2>3, <2>4, <2>5 DEF FileNames, DiffInv
<1>3. CASE Deleted
  <2>1. DiffTypeOK'
    BY <1>0, <1>3 DEF Deleted, DiffTypeOK, Phase, Body
  <2>2. LinesAreFound' /\ (\A a \in added' : a.file \in 1..Len(files'))
    BY <1>3, QuietKeeps DEF Deleted
  <2> QED
    BY <1>3, <2>1, <2>2 DEF Deleted, DiffInv, InStep, Body
<1>4. ASSUME NEW n \in 1..MaxLine, Hunk(n) PROVE DiffInv'
  <2>1. DiffTypeOK'
    BY <1>0, <1>4 DEF Hunk, DiffTypeOK, Phase, Body
  <2>2. LinesAreFound' /\ (\A a \in added' : a.file \in 1..Len(files'))
    BY <1>4, QuietKeeps DEF Hunk
  <2>3. InStep'
    BY <1>4 DEF Hunk, DiffInv, InStep, Body
  <2> QED
    BY <1>4, <2>1, <2>2, <2>3 DEF Hunk, DiffInv
<1>5. CASE Context
  <2>1. DiffTypeOK'
    BY <1>0, <1>5 DEF Context, CountLine, DiffTypeOK, Phase, Body
  <2>2. LinesAreFound' /\ (\A a \in added' : a.file \in 1..Len(files'))
    BY <1>5, QuietKeeps DEF Context
  <2>3. InStep'
    BY <1>0, <1>5 DEF Context, CountLine, DiffInv, DiffTypeOK, InStep, Body
  <2> QED
    BY <1>5, <2>1, <2>2, <2>3 DEF Context, DiffInv
<1>6. CASE Remove
  <2>1. DiffTypeOK'
    BY <1>0, <1>6 DEF Remove, parserVars, DiffTypeOK, Phase, Body
  <2>2. LinesAreFound' /\ (\A a \in added' : a.file \in 1..Len(files'))
    BY <1>6, QuietKeeps DEF Remove, parserVars
  <2>3. InStep'
    BY <1>6 DEF Remove, parserVars, DiffInv, InStep, Body
  <2> QED
    BY <1>6, <2>1, <2>2, <2>3 DEF Remove, parserVars, DiffInv
<1>7. CASE NoNewline
  <2>1. DiffTypeOK'
    BY <1>0, <1>7 DEF NoNewline, CountLine, DiffTypeOK, Phase, Body
  <2>2. LinesAreFound' /\ (\A a \in added' : a.file \in 1..Len(files'))
    BY <1>7, QuietKeeps DEF NoNewline
  <2>3. InStep'
    BY <1>0, <1>7 DEF NoNewline, CountLine, DiffInv, DiffTypeOK, InStep, Body
  <2> QED
    BY <1>7, <2>1, <2>2, <2>3 DEF NoNewline, DiffInv
<1>8. ASSUME NEW text \in Text, AddLine(text) PROVE DiffInv'
  <2> DEFINE a == [file |-> current, line |-> newLine, text |-> text]
             t == [path |-> path, line |-> line, text |-> text, markers |-> markers, strayed |-> strayed]
  <2>1. /\ phase \in Body /\ phase' \in Body /\ phase # "names" /\ phase' # "names"
        /\ line' = line + 1 /\ newLine' = newLine + 1 /\ strayed' = strayed
        /\ current # 0 /\ current = Len(files) /\ path \in Path
        /\ added' = added \cup {a} /\ written' = written \cup {t}
        /\ UNCHANGED <<files, current, path, markers>>
    BY <1>0, <1>8 DEF AddLine, WriteLine, CountLine, Body, DiffInv, DiffTypeOK, InStep
  <2>2. a \in [file : Nat, line : Nat, text : Text]
    BY <1>0 DEF DiffTypeOK
  <2>3. t \in [path : Path, line : Nat, text : Text, markers : Nat, strayed : BOOLEAN]
    BY <1>0, <2>1 DEF DiffTypeOK
  <2>4. DiffTypeOK'
    BY <1>0, <2>1, <2>2, <2>3 DEF DiffTypeOK, Phase
  <2>5. \A b \in added' : b.file \in 1..Len(files')
    BY <1>0, <2>1 DEF DiffInv
  <2>6. InStep'
    BY <1>0, <2>1 DEF DiffInv, DiffTypeOK, InStep
  <2>7. LinesAreFound'
    <3>1. CASE strayed
      <4>1. files[a.file] = Stray /\ t.strayed
        BY <2>1, <3>1 DEF DiffInv, InStep
      <4>2. Parsed' = Parsed
        BY <2>1, <4>1 DEF Parsed
      <4>3. Moved' = Moved
        BY <2>1, <4>1 DEF Moved
      <4> QED
        BY <4>2, <4>3 DEF DiffInv, LinesAreFound
    <3>2. CASE ~strayed
      <4>1. files[a.file] = path /\ path # Stray /\ a.line = t.line + t.markers /\ ~t.strayed
        BY <2>1, <3>2 DEF DiffInv, InStep
      <4>2. Parsed' = Parsed \cup {ParsedLine(a)}
        BY <2>1, <4>1 DEF Parsed, ParsedLine
      <4>3. Moved' = Moved \cup {MovedLine(t)}
        BY <2>1, <4>1 DEF Moved, MovedLine
      <4>4. ParsedLine(a) = MovedLine(t)
        BY <4>1 DEF ParsedLine, MovedLine
      <4> QED
        BY <4>2, <4>3, <4>4 DEF DiffInv, LinesAreFound
    <3> QED
      BY <1>0, <3>1, <3>2 DEF DiffTypeOK
  <2> QED
    BY <2>1, <2>4, <2>5, <2>6, <2>7 DEF DiffInv, Body
<1>9. ASSUME NEW text \in Text, AddPlusLine(text) PROVE DiffInv'
  <2> DEFINE t == [path |-> path, line |-> line, text |-> text, markers |-> markers, strayed |-> strayed']
  <2>1. /\ phase \in Body /\ phase' \in Body
        /\ line' = line + 1 /\ strayed' = TRUE /\ path \in Path
        /\ written' = written \cup {t} /\ t.strayed
        /\ UNCHANGED <<added, newLine, path, markers>>
    BY <1>0, <1>9 DEF AddPlusLine, WriteLine, OpenFile, Body, DiffInv, DiffTypeOK, InStep
  <2>2. /\ files' \in Seq(Path \cup {Stray}) /\ Len(files') = Len(files) + 1
        /\ current' = Len(files') /\ current' \in Nat /\ files'[current'] = Stray
        /\ \A a \in added' : a.file \in 1..Len(files')
        /\ Parsed' = Parsed
    BY <1>9, OpenFileKeeps DEF AddPlusLine
  <2>3. t \in [path : Path, line : Nat, text : Text, markers : Nat, strayed : BOOLEAN]
    BY <1>0, <2>1 DEF DiffTypeOK
  <2>4. DiffTypeOK'
    <3>1. written' \subseteq [path : Path, line : Nat, text : Text, markers : Nat, strayed : BOOLEAN]
      BY <1>0, <2>1, <2>3 DEF DiffTypeOK
    <3>2. added' \subseteq [file : Nat, line : Nat, text : Text]
      BY <1>0, <2>1 DEF DiffTypeOK
    <3>3. newLine' \in Nat /\ line' \in Nat /\ markers' \in Nat
      BY <1>0, <2>1 DEF DiffTypeOK
    <3>4. phase' \in Phase /\ path' \in Path \cup {Stray} /\ strayed' \in BOOLEAN
      BY <2>1 DEF Phase
    <3> QED
      BY <2>2, <3>1, <3>2, <3>3, <3>4 DEF DiffTypeOK
  <2>5. Moved' = Moved
    BY <2>1 DEF Moved
  <2>6. InStep'
    BY <1>0, <2>1, <2>2 DEF InStep
  <2> QED
    BY <2>1, <2>2, <2>4, <2>5, <2>6 DEF DiffInv, LinesAreFound, Body
<1>10. CASE UNCHANGED diffVars
  BY <1>10 DEF diffVars, parserVars, gitVars, DiffInv, DiffTypeOK, InStep, LinesAreFound, Parsed, Moved
<1> QED
  BY <1>1, <1>2, <1>3, <1>4, <1>5, <1>6, <1>7, <1>8, <1>9, <1>10 DEF DiffNext

-----------------------------------------------------------------------------
(* The comparison of parser and git holds at every line of every diff.     *)
THEOREM DiffInvHolds == DiffSpec => []DiffInv
BY DiffInitInv, DiffStep, PTL DEF DiffSpec

(* The parser finds exactly the added lines, up to the markers and the     *)
(* lines that stray (diff.py:89-113).                                      *)
THEOREM LinesAreFoundHolds == DiffSpec => []LinesAreFound
<1>1. DiffInv => LinesAreFound
  BY DEF DiffInv
<1> QED
  BY <1>1, DiffInvHolds, PTL

(* The parser's result and position are well typed.                        *)
THEOREM DiffTypes == DiffSpec => []DiffTypeOK
<1>1. DiffInv => DiffTypeOK
  BY DEF DiffInv
<1> QED
  BY <1>1, DiffInvHolds, PTL
-----------------------------------------------------------------------------
(* A review is published once, and the diff is not read after it.          *)
FixInv ==
  /\ DiffInv
  /\ published \in BOOLEAN
  /\ ~published => comments = {}
  /\ SuggestionFitsLine
  /\ SuggestionsAgree

(* The fix shown with a finding was made from a line the parser found, in  *)
(* the file and at the line of the finding.                                *)
LEMMA SuggestionIsParsed ==
  ASSUME DiffInv, NEW n \in Nat, NEW fs \in [1..n -> Finding], NEW f \in Finding,
         NEW fix \in Suggestion(fs, f)
  PROVE  /\ <<fix.original, fix.cat>> \in Fixable
         /\ f.path # Stray => [path |-> f.path, line |-> f.line, text |-> fix.original] \in Parsed
<1>1. PICK i \in 1..n : fs[i].path = f.path /\ fs[i].line = f.line /\ fix \in Patch(fs[i])
  BY DEF Suggestion
<1>2. PICK a \in added : /\ a.file \in FileOf(f.path) /\ a.line = f.line
                          /\ <<a.text, fs[i].cat>> \in Fixable
                          /\ fix = [original |-> a.text, cat |-> fs[i].cat]
  BY <1>1 DEF Patch
<1>3. files[a.file] = f.path
  BY <1>2 DEF FileOf
<1>4. <<fix.original, fix.cat>> \in Fixable /\ fix.original = a.text
  BY <1>2
<1>5. ASSUME f.path # Stray
      PROVE  [path |-> f.path, line |-> f.line, text |-> fix.original] \in Parsed
  BY <1>2, <1>3, <1>4, <1>5 DEF Parsed
<1> QED
  BY <1>4, <1>5

LEMMA PublishKeeps ==
  ASSUME FixInv, NEW n \in Nat, NEW fs \in [1..n -> Finding], NEW shown \in SUBSET (1..n),
         Publish(fs, shown)
  PROVE  FixInv'
<1>1. /\ published' = TRUE /\ comments' = {Comment(fs, fs[i]) : i \in shown} /\ written' = written
  BY DEF Publish, diffVars, gitVars
<1>2. DiffInv'
  BY DiffStep DEF FixInv, Publish
<1>3. ASSUME NEW c \in comments', NEW fix \in c.fix
      PROVE  /\ <<fix.original, fix.cat>> \in Fixable
             /\ c.path # Stray =>
                  \E t \in written' :
                    t.path = c.path /\ t.line + t.markers = c.line /\ t.text = fix.original /\ ~t.strayed
  <2>1. PICK i \in shown : c = Comment(fs, fs[i])
    BY <1>1, <1>3
  <2>2. fs[i] \in Finding /\ fix \in Suggestion(fs, fs[i]) /\ c.path = fs[i].path /\ c.line = fs[i].line
    BY <1>3, <2>1 DEF Comment
  <2>3. /\ <<fix.original, fix.cat>> \in Fixable
        /\ c.path # Stray => [path |-> c.path, line |-> c.line, text |-> fix.original] \in Parsed
    BY <2>2, SuggestionIsParsed DEF FixInv
  <2>4. [path |-> c.path, line |-> c.line, text |-> fix.original] \in Moved =>
          \E t \in written :
            t.path = c.path /\ t.line + t.markers = c.line /\ t.text = fix.original /\ ~t.strayed
    BY DEF Moved
  <2> QED
    BY <1>1, <2>3, <2>4 DEF FixInv, DiffInv, LinesAreFound
<1>4. ASSUME NEW c \in comments', NEW d \in comments', c.path = d.path, c.line = d.line
      PROVE  c.fix = d.fix
  <2>1. PICK i \in shown : c = Comment(fs, fs[i])
    BY <1>1, <1>4
  <2>2. PICK j \in shown : d = Comment(fs, fs[j])
    BY <1>1, <1>4
  <2>3. fs[i].path = fs[j].path /\ fs[i].line = fs[j].line
    BY <1>4, <2>1, <2>2 DEF Comment
  <2>4. Suggestion(fs, fs[i]) = Suggestion(fs, fs[j])
    BY <2>3 DEF Suggestion
  <2> QED
    BY <2>1, <2>2, <2>4 DEF Comment
<1> QED
  BY <1>1, <1>2, <1>3, <1>4 DEF FixInv, SuggestionFitsLine, SuggestionsAgree

LEMMA FixStep == FixInv /\ [FixNext]_fixVars => FixInv'
<1> SUFFICES ASSUME FixInv, [FixNext]_fixVars PROVE FixInv'
  OBVIOUS
<1> USE FixAssumption
<1>1. CASE ReadLine
  <2>1. comments = {} /\ comments' = comments /\ published' = published
    BY <1>1 DEF ReadLine, FixInv
  <2>2. DiffInv'
    BY <1>1, DiffStep DEF ReadLine, FixInv
  <2> QED
    BY <2>1, <2>2 DEF FixInv, SuggestionFitsLine, SuggestionsAgree
<1>2. ASSUME NEW n \in 1..MaxFindings, NEW fs \in [1..n -> Finding], NEW shown \in SUBSET (1..n),
             Publish(fs, shown)
      PROVE  FixInv'
  BY <1>2, PublishKeeps
<1>3. ASSUME NEW n \in 1..MaxFindings, NEW fs \in [1..n -> Finding], ShowOnPage(fs) PROVE FixInv'
  <2>1. DOMAIN fs = 1..n
    OBVIOUS
  <2> QED
    BY <1>2, <1>3, <2>1 DEF ShowOnPage
<1>4. CASE UNCHANGED fixVars
  <2>1. /\ UNCHANGED <<diffVars, comments, published>> /\ written' = written
    BY <1>4 DEF fixVars, diffVars, gitVars
  <2>2. DiffInv'
    BY <2>1, DiffStep DEF FixInv
  <2> QED
    BY <2>1, <2>2 DEF FixInv, SuggestionFitsLine, SuggestionsAgree
<1> QED
  BY <1>1, <1>2, <1>3, <1>4 DEF FixNext

LEMMA FixInvHolds == FixSpec => []FixInv
<1>1. FixInit => FixInv
  BY DiffInitInv DEF FixInit, FixInv, SuggestionFitsLine, SuggestionsAgree
<1> QED
  BY <1>1, FixStep, PTL DEF FixSpec

(* Every suggestion is a fix of a line git added, and stands on that line  *)
(* but for the "no newline" markers before it (generator.py:111-118,       *)
(* publisher.py:102), for every diff and every list of findings.           *)
THEOREM SuggestionsFit == FixSpec => []SuggestionFitsLine
<1>1. FixInv => SuggestionFitsLine
  BY DEF FixInv
<1> QED
  BY <1>1, FixInvHolds, PTL

(* Comments on one line never suggest different fixes (publisher.py:76).   *)
THEOREM OneFixPerLine == FixSpec => []SuggestionsAgree
<1>1. FixInv => SuggestionsAgree
  BY DEF FixInv
<1> QED
  BY <1>1, FixInvHolds, PTL
=============================================================================
