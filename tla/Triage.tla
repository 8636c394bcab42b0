------------------------------- MODULE Triage --------------------------------
(***************************************************************************)
(* triage (review/triage.py): which agents review a diff, and whether the  *)
(* review may approve it.  A file is what the routing predicates tell      *)
(* apart, or more: a record with the fields of Kind.  The trivial flag is  *)
(* left out: only the dashboard shows it.                                  *)
(***************************************************************************)
EXTENDS FiniteSets

Frontend == {"javascript", "typescript", "html", "css"}
Backend == {"python", "javascript", "typescript", "go", "ruby", "java", "rust", "php",
            "csharp", "sql"}
Infra == {"yaml", "terraform"}
Language == Frontend \cup Backend \cup Infra \cup {"markdown", "other"}

(* What a file's path tells: lang, its language; name, a name of           *)
(* _LOCKFILES or one that starts with Dockerfile; suffix, docs for .md,    *)
(* .rst and .txt, component for .vue and .svelte, dockerfile for           *)
(* .Dockerfile; workflow, whether it contains .github/workflows.  The only *)
(* lock file with the extension of a language is pnpm-lock.yaml, and of    *)
(* these suffixes only .md is one (_LANG_BY_EXT of review/diff.py).        *)
Kind ==
  {k \in [lang : Language, name : {"lockfile", "dockerfile", "plain"},
           suffix : {"docs", "component", "dockerfile", "plain"}, workflow : BOOLEAN] :
     /\ k.name = "lockfile" => k.lang \in {"yaml", "other"}
     /\ k.suffix = "docs" => k.lang \in {"markdown", "other"}
     /\ k.suffix \in {"component", "dockerfile"} => k.lang = "other"}

IsFrontend(f) == f.lang \in Frontend \/ f.suffix = "component"

(* Mutant of IsInfra: a Dockerfile is known by its language.               *)
IsInfraByLanguage(f) == f.lang \in Infra \/ f.workflow

IsInfra(f) == f.lang \in Infra \/ f.workflow \/ f.name = "dockerfile"
IsDocs(f) == f.lang = "markdown" \/ f.suffix = "docs"
IsCode(f) == f.lang \in Backend /\ ~IsDocs(f)

OnlyDocs(files) == files # {} /\ \A f \in files : IsDocs(f)
OnlyLockfiles(files) == files # {} /\ \A f \in files : f.name = "lockfile"

Reviewers == {"security", "architecture", "performance", "testing", "devops",
              "accessibility", "documentation", "ai_reviewer"}

DimensionOf == [security |-> "security", architecture |-> "architecture",
  performance |-> "performance", testing |-> "testing", devops |-> "devops",
  accessibility |-> "accessibility", documentation |-> "documentation",
  ai_reviewer |-> "correctness"]

(* The agents worth running; agents_for knows all of them.                 *)
Selected(files) ==
  {"security", "documentation"}
    \cup (IF OnlyDocs(files) THEN {} ELSE {"ai_reviewer", "architecture", "testing"})
    \cup (IF ~OnlyDocs(files) /\ \E f \in files : IsCode(f) THEN {"performance"} ELSE {})
    \cup (IF \E f \in files : IsFrontend(f) THEN {"accessibility"} ELSE {})
    \cup (IF \E f \in files : IsInfra(f) THEN {"devops"} ELSE {})

(* Mutant of Eligible: one harmless file is enough.                        *)
EligibleByAny(files) ==
  (\E f \in files : IsDocs(f)) \/ (\E f \in files : f.name = "lockfile")

Eligible(files) == OnlyDocs(files) \/ OnlyLockfiles(files)
=============================================================================
