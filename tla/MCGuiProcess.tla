---------------------------- MODULE MCGuiProcess ----------------------------
(* Two applications, a user who types and presses Enter, and a client. *)
EXTENDS GuiProcess

CONSTANTS fox, owl

Entry(root, place, id, name, kind) ==
  [root |-> root, place |-> place, id |-> id, name |-> name, kind |-> kind]

\* The user hides the system's fox.
HiddenAtHome ==
  {Entry(1, 1, 1, fox, "not_shown"), Entry(2, 1, 1, fox, "application"),
   Entry(2, 2, 2, owl, "application")}

\* sub/a.desktop and sub-a.desktop in one directory; a broken file.
Collision ==
  {Entry(2, 1, 1, owl, "application"), Entry(2, 2, 1, fox, "application"),
   Entry(2, 3, 2, fox, "application"), Entry(2, 4, 3, fox, "broken")}

\* A broken file at home hides the system's; a directory cannot be read.
BrokenAtHome ==
  {Entry(1, 1, 1, fox, "broken"), Entry(2, 0, 1, fox, "unreadable"),
   Entry(2, 1, 1, fox, "application"), Entry(2, 2, 2, owl, "application"),
   Entry(2, 3, 3, fox, "application")}

MCTrees    == {HiddenAtHome, Collision, BrokenAtHome}
PlainTrees == {Collision}

MCAlphabet == <<fox, owl>>
MCMatches  == [w \in Words |-> {w}]

ShowAll   == [kind |-> "show", text |-> NoText]
Hidden    == [kind |-> "hide"]
Second    == [kind |-> "select", index |-> 1]
Stop      == [kind |-> "shutdown"]

ClientRequests == {ShowAll, Hidden, Stop}
StopRequests   == {ShowAll, Stop}

TypeOwl == [kind |-> "query_changed", text |-> owl]
Enter   == [kind |-> "submit"]
Escape  == [kind |-> "dismiss"]
Down    == [kind |-> "move", delta |-> 1]
Tab     == [kind |-> "complete"]

UserKeys == {TypeOwl, Enter, Escape, Down, Tab}
NoKeys   == {}

AllFaults == {"config", "bind", "listener", "window", "closed"}
=============================================================================
