---------------------------- MODULE MCDaemonIpc ----------------------------
(* Small instances of DaemonIpc for TLC. *)
EXTENDS DaemonIpc

CONSTANTS alice, bob, carol, fox, owl

\* Every process counts its requests from 1, so ids collide between clients.
MCRequestId == [c \in Clients |-> 1]

\* Two applications; every text finds a part of them.
MCResults == [t \in Text |-> IF t = Blank THEN <<fox, owl>> ELSE <<t>>]

Headless == [visibility \in Visibility |-> IF visibility = "visible" THEN {"unavailable"} ELSE {"ok"}]
Window   == [visibility \in Visibility |-> {"ok", "rejected"}]
Reliable == [visibility \in Visibility |-> {"ok"}]

KeyPresses ==
  {[kind |-> "dismiss"], [kind |-> "query_changed", text |-> owl],
   [kind |-> "move", delta |-> 1], [kind |-> "move", delta |-> -1],
   [kind |-> "complete"], [kind |-> "submit"]}
NoEvents == {}

ShowFox   == [kind |-> "show", text |-> fox]
ShowBlank == [kind |-> "show", text |-> Blank]
ToggleOwl == [kind |-> "toggle", text |-> owl]
Clear     == [kind |-> "query", text |-> Blank]
Agent     == [kind |-> "open_agent", text |-> NoText]
Second    == [kind |-> "select", index |-> 1]
Far       == [kind |-> "select", index |-> 3]
AskStatus == [kind |-> "status"]
Stop      == [kind |-> "shutdown"]

ProtocolFrames == {ShowFox, AskStatus, Stop, Malformed, WrongVersion}
StateFrames    == {ShowBlank, ToggleOwl, Agent, Second, Far, Clear, Stop}
FarFrames      == {Second, Far}
StopFrames     == {ShowFox, Stop}
StopOrJunk     == {Malformed, Stop}
=============================================================================
