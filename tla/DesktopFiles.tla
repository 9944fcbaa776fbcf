---------------------------- MODULE DesktopFiles ----------------------------
(***************************************************************************)
(* The desktop files that discover_with_options of crates/applications may  *)
(* find, and the order in which it goes through them.                       *)
(***************************************************************************)
EXTENDS Naturals

CONSTANTS Ids,    \* desktop ids, numbered in the order of their texts; the files
                  \* sub/a.desktop and sub-a.desktop have the same one
          Names,  \* names of applications
          Trees   \* the sets of files that may be found

\* A file is named by its root and its place among the sorted paths of that
\* root.  `kind` is what parse_entry makes of it, or a directory that cannot be read.
File ==
  [root : Nat, place : Nat, id : Ids, name : Names,
   kind : {"application", "not_shown", "broken", "unreadable"}]

ASSUME TreesAreFiles ==
  \A t \in Trees : /\ t \subseteq File
                   /\ \A f, g \in t : f.root = g.root /\ f.place = g.place => f = g

\* The order of the walk: the data directories, and the sorted paths of each.
Precedes(f, g) == f.root < g.root \/ (f.root = g.root /\ f.place < g.place)
=============================================================================
