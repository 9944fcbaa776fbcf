----------------------------- MODULE Discovery -----------------------------
(***************************************************************************)
(* How the catalog of applications is found: discover_with_options and      *)
(* collect_desktop_files of crates/applications, one file a step.  The      *)
(* walk goes through the data directories in order of precedence, and       *)
(* through the sorted paths of each.                                        *)
(***************************************************************************)
EXTENDS DesktopFiles

VARIABLES
  tree,          \* the files there are
  looked,        \* the files that were looked at
  seen,          \* the desktop ids met so far
  applications,  \* report.applications
  diagnostics    \* report.diagnostics, by file

vars == <<tree, looked, seen, applications, diagnostics>>

Init ==
  /\ tree \in Trees
  /\ looked = {}
  /\ seen = {}
  /\ applications = {}
  /\ diagnostics = {}

IsNext(f) == f \in tree \ looked /\ \A g \in tree \ looked : f = g \/ Precedes(f, g)

\* Mutant: an id counts as met only when its file gives an application.
LookRemembersShown(f) ==
  /\ IsNext(f)
  /\ looked' = looked \cup {f}
  /\ seen' = IF f.kind = "application" THEN seen \cup {f.id} ELSE seen
  /\ applications' = IF f.kind = "application" /\ f.id \notin seen
                     THEN applications \cup {f} ELSE applications
  /\ diagnostics' = IF f.kind = "unreadable" \/ (f.kind = "broken" /\ f.id \notin seen)
                    THEN diagnostics \cup {f} ELSE diagnostics
  /\ UNCHANGED tree

\* The first file with an id decides about it, whatever it holds.
Look(f) ==
  /\ IsNext(f)
  /\ looked' = looked \cup {f}
  /\ seen' = IF f.kind = "unreadable" THEN seen ELSE seen \cup {f.id}
  /\ applications' = IF f.kind = "application" /\ f.id \notin seen
                     THEN applications \cup {f} ELSE applications
  /\ diagnostics' = IF f.kind = "unreadable" \/ (f.kind = "broken" /\ f.id \notin seen)
                    THEN diagnostics \cup {f} ELSE diagnostics
  /\ UNCHANGED tree

Step == \E f \in tree : Look(f)

Finished == looked = tree

Spec == Init /\ [][Step]_vars

----------------------------------------------------------------------------
\* The files, the part of them that was looked at, and what it gave.
TypeOK ==
  /\ tree \in Trees
  /\ looked \subseteq tree
  /\ seen \subseteq Ids
  /\ applications \subseteq looked
  /\ diagnostics \subseteq looked

\* The file that decides about its id: none with the same id comes before it.
Decides(f) ==
  /\ f \in tree
  /\ f.kind # "unreadable"
  /\ \A g \in tree : g.id = f.id /\ g.kind # "unreadable" => ~Precedes(g, f)

\* Of every desktop id the first file in order of precedence decides: it is in
\* the catalog when it is an application that is shown, it hides the files behind
\* it even when it is hidden or broken, and what is broken or cannot be read is
\* diagnosed and stops nothing.
FirstIdWins ==
  Finished =>
    /\ applications = {f \in tree : Decides(f) /\ f.kind = "application"}
    /\ diagnostics = {f \in tree : f.kind = "unreadable" \/ (Decides(f) /\ f.kind = "broken")}
=============================================================================
