---------------------------- MODULE SuggestedFixes ---------------------------
(***************************************************************************)
(* From the findings of a review to the inline comments of the pull        *)
(* request: generate_patches (patch/generator.py) and                      *)
(* build_inline_comments (publish/publisher.py) on the diff the parser     *)
(* read.  A model may report any line of any file; consensus decides, here *)
(* freely, which findings are commented on.  A finding without a line has  *)
(* neither patch nor comment and is left out.                              *)
(***************************************************************************)
EXTENDS UnifiedDiff

CONSTANTS
  Category,    \* categories with rules in _PATCH_RULES
  Fixable,     \* <<text, category>>: a rule changes the text and the result validates
  MaxFindings  \* bound: findings of a review

ASSUME FixAssumption == Fixable \subseteq Text \X Category /\ MaxFindings \in Nat

VARIABLES
  comments,    \* comments of the review request
  published    \* whether it was built

fixVars == <<diffVars, comments, published>>

Finding == [path : Path \cup {Stray}, line : 1..(MaxLine + 1), cat : Category]

FixInit == DiffInit /\ comments = {} /\ published = FALSE

(* The diff has one more line.                                             *)
ReadLine == ~published /\ DiffNext /\ UNCHANGED <<comments, published>>

-----------------------------------------------------------------------------
(* The first file of that path.                                            *)
FileOf(p) == {i \in DOMAIN files : files[i] = p /\ \A j \in 1..(i - 1) : files[j] # p}

(* Mutant of Patch: any added line of the file will do.                    *)
PatchAnywhere(f) ==
  {[original |-> a.text, cat |-> f.cat] :
     a \in {b \in added : b.file \in FileOf(f.path) /\ <<b.text, f.cat>> \in Fixable}}

(* generate_patch: at most one patch.                                      *)
Patch(f) ==
  {[original |-> a.text, cat |-> f.cat] :
     a \in {b \in added : b.file \in FileOf(f.path) /\ b.line = f.line /\ <<b.text, f.cat>> \in Fixable}}

(* Mutant of Suggestion: every finding shows its own patch.                *)
SuggestionOwn(fs, f) == Patch(f)

(* by_loc: the last patch of a line, whichever finding it is for.          *)
Suggestion(fs, f) ==
  LET same == {i \in DOMAIN fs : fs[i].path = f.path /\ fs[i].line = f.line /\ Patch(fs[i]) # {}}
  IN  UNION {Patch(fs[i]) : i \in {j \in same : \A k \in same : k <= j}}

Comment(fs, f) == [path |-> f.path, line |-> f.line, cat |-> f.cat, fix |-> Suggestion(fs, f)]

(* generate_patches, then build_inline_comments on the findings shown.     *)
Publish(fs, shown) ==
  /\ ~published
  /\ published' = TRUE
  /\ comments' = {Comment(fs, fs[i]) : i \in shown}
  /\ UNCHANGED diffVars

(* The analyze page shows every finding with the patch of its line, which  *)
(* it looks up as the publisher does.                                      *)
ShowOnPage(fs) == Publish(fs, DOMAIN fs)

FixNext ==
  \/ ReadLine
  \/ \E n \in 1..MaxFindings : \E fs \in [1..n -> Finding] :
       ShowOnPage(fs) \/ \E shown \in SUBSET (1..n) : Publish(fs, shown)

FixSpec == FixInit /\ [][FixNext]_fixVars

-----------------------------------------------------------------------------
(* A suggestion replaces a line of its file that git added, by the fix of  *)
(* that very line, and stands on that line, or on the next if a "no        *)
(* newline" marker precedes it (generator.py:111-118, publisher.py:102).   *)
SuggestionFitsLine ==
  \A c \in comments : \A fix \in c.fix :
    /\ <<fix.original, fix.cat>> \in Fixable
    /\ c.path # Stray =>
         \E t \in written :
           t.path = c.path /\ t.line + t.markers = c.line /\ t.text = fix.original /\ ~t.strayed

(* "GitHub applies the fenced suggestion block to the commented line"      *)
(* (generator.py:52), which is the line the fix was made from: "we never   *)
(* post a patch that would break the file" (generator.py:6-7).             *)
SuggestionReplacesItsLine ==
  \A c \in comments : \A fix \in c.fix : \A t \in written :
    t.path = c.path /\ t.line = c.line => t.text = fix.original

(* Comments on one line suggest the same fix, if any: to accept one never  *)
(* undoes another (publisher.py:76).                                       *)
SuggestionsAgree ==
  \A c, d \in comments : c.path = d.path /\ c.line = d.line => c.fix = d.fix
=============================================================================
