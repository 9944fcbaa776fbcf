-------------------------- MODULE SocketOwnership --------------------------
(***************************************************************************)
(* How daemon processes share one socket path: bind_listener,               *)
(* prepare_parent_directory, recover_stale_socket and SocketCleanup of      *)
(* crates/runtime/src/server.rs.  Each system call is a step of its own,    *)
(* because other daemons, and crashes, come between them.                   *)
(***************************************************************************)
EXTENDS Naturals

CONSTANTS Daemons,        \* daemon processes; each runs once
          Absent, Junk,   \* the path names nothing; a file that is no socket
          Relic,          \* a socket that a process of an earlier session left
          Uid,            \* the user the daemons run as
          Disciplines     \* which overlaps the ones who start daemons may allow

ASSUME DisciplinesAreOverlaps == Disciplines \subseteq SUBSET {"starts", "stops"}

ASSUME EntriesAreDistinct ==
  /\ Absent \notin Daemons /\ Junk \notin Daemons /\ Relic \notin Daemons
  /\ Absent # Junk /\ Absent # Relic /\ Junk # Relic

VARIABLES
  pc,         \* pc[d]: the next system call of daemon d
  listening,  \* the daemons whose listening socket is open
  path,       \* what the socket path names; a socket is named by its creator
  parent,     \* the directory of the socket: absent, or its kind and owner
  error,      \* error[d]: why d failed to start
  overlaps    \* what a start may overlap here: other "starts", "stops", or nothing

vars == <<pc, listening, path, parent, error, overlaps>>

Dir(kind, uid) == [kind |-> kind, uid |-> uid]
NoDir          == [kind |-> "absent"]

Starting ==
  {"parent", "mkdir", "revalidate", "lookup", "probe", "remove", "bind", "listen",
   "chmod", "owner", "unbind"}
Stopping == {"stopping"}
Over     == {"failed", "stopped", "crashed"}

\* A private directory passes whoever owns it; the owner is compared after bind.
ParentIsValid == parent.kind = "private"

Init ==
  /\ pc = [d \in Daemons |-> "idle"]
  /\ listening = {}
  /\ path \in {Absent, Junk, Relic}
  /\ parent \in {NoDir} \cup {Dir(k, u) : k \in {"private", "insecure", "no_directory"}, u \in {Uid, "other"}}
  /\ parent = NoDir => path = Absent
  /\ error = [d \in Daemons |-> "none"]
  /\ overlaps \in Disciplines

\* A service manager starts the daemons, one after the other.
Managed == overlaps = {}

----------------------------------------------------------------------------
Goto(d, l) == pc' = [pc EXCEPT ![d] = l]

Fail(d, reason) == Goto(d, "failed") /\ error' = [error EXCEPT ![d] = reason]

Others(d, labels) == \E e \in Daemons \ {d} : pc[e] \in labels

\* Someone starts the daemon.  A service manager waits for the previous start
\* or stop; a shell does not.
Begin(d) ==
  /\ pc[d] = "idle"
  /\ "starts" \in overlaps \/ ~Others(d, Starting)
  /\ "stops" \in overlaps \/ ~Others(d, Stopping)
  /\ Goto(d, "parent")
  /\ UNCHANGED <<listening, path, parent, error>>

\* symlink_metadata(parent)
InspectParent(d) ==
  /\ pc[d] = "parent"
  /\ IF parent = NoDir THEN Goto(d, "mkdir") /\ UNCHANGED error
     ELSE IF ParentIsValid THEN Goto(d, "lookup") /\ UNCHANGED error
     ELSE Fail(d, "directory")
  /\ UNCHANGED <<listening, path, parent>>

\* Mutant: the directory is created with the default mode.
MakeDefaultParent(d) ==
  /\ pc[d] = "mkdir"
  /\ IF parent = NoDir
     THEN Goto(d, "lookup") /\ parent' = Dir("default_mode", Uid)
     ELSE Goto(d, "revalidate") /\ UNCHANGED parent
  /\ UNCHANGED <<listening, path, error>>

\* DirBuilder::create, mode 0700
MakeParent(d) ==
  /\ pc[d] = "mkdir"
  /\ IF parent = NoDir
     THEN Goto(d, "lookup") /\ parent' = Dir("private", Uid)
     ELSE Goto(d, "revalidate") /\ UNCHANGED parent
  /\ UNCHANGED <<listening, path, error>>

Revalidate(d) ==
  /\ pc[d] = "revalidate"
  /\ IF ParentIsValid THEN Goto(d, "lookup") /\ UNCHANGED error ELSE Fail(d, "directory")
  /\ UNCHANGED <<listening, path, parent>>

\* Mutant: whatever socket is there is taken for stale.
LookupSkipsProbe(d) ==
  /\ pc[d] = "lookup"
  /\ \/ path = Absent /\ Goto(d, "bind") /\ UNCHANGED error
     \/ path = Junk /\ Fail(d, "unsafe_path")
     \/ path \notin {Absent, Junk} /\ Goto(d, "remove") /\ UNCHANGED error
  /\ UNCHANGED <<listening, path, parent>>

\* symlink_metadata(path)
Lookup(d) ==
  /\ pc[d] = "lookup"
  /\ \/ path = Absent /\ Goto(d, "bind") /\ UNCHANGED error
     \/ path = Junk /\ Fail(d, "unsafe_path")
     \/ path \notin {Absent, Junk} /\ Goto(d, "probe") /\ UNCHANGED error
  /\ UNCHANGED <<listening, path, parent>>

\* Mutant: a socket file is taken for a running daemon.
ProbeTrustsFile(d) ==
  pc[d] = "probe" /\ Fail(d, "already_running") /\ UNCHANGED <<listening, path, parent>>

\* Mutant: a start waits for the running daemon to go.
ProbeWaits(d) ==
  /\ pc[d] = "probe"
  /\ IF path \in listening THEN UNCHANGED pc ELSE Goto(d, "remove")
  /\ UNCHANGED <<listening, path, parent, error>>

\* UnixStream::connect(path) under its timeout.  A socket that listens answers, keeps
\* the probe waiting until it is taken for running too, or has its backlog full,
\* which is another error; one that is bound and does not listen yet refuses.
Probe(d) ==
  /\ pc[d] = "probe"
  /\ \/ path \in listening /\ \E r \in {"already_running", "probe"} : Fail(d, r)
     \/ path \notin listening /\ Goto(d, "remove") /\ UNCHANGED error
  /\ UNCHANGED <<listening, path, parent>>

\* Mutant: the stale file is not removed.
KeepStale(d) == pc[d] = "remove" /\ Goto(d, "bind") /\ UNCHANGED <<listening, path, parent, error>>

RemoveStale(d) ==
  /\ pc[d] = "remove"
  /\ IF path = Absent
     THEN Fail(d, "io") /\ UNCHANGED path
     ELSE Goto(d, "bind") /\ path' = Absent /\ UNCHANGED error
  /\ UNCHANGED <<listening, parent>>

\* UnixListener::bind is bind(2), which creates the file, then listen(2).
Bind(d) ==
  /\ pc[d] = "bind"
  /\ IF path = Absent
     THEN Goto(d, "listen") /\ path' = d /\ UNCHANGED error
     ELSE Fail(d, "already_running") /\ UNCHANGED path
  /\ UNCHANGED <<listening, parent>>

Listen(d) ==
  /\ pc[d] = "listen"
  /\ listening' = listening \cup {d}
  /\ Goto(d, "chmod")
  /\ UNCHANGED <<path, parent, error>>

\* A failure before SocketCleanup exists drops the listener and leaves the path.
DropListener(d) == listening' = listening \ {d}

\* set_permissions(path), by name
Restrict(d) ==
  /\ pc[d] = "chmod"
  /\ IF path = Absent
     THEN Fail(d, "io") /\ DropListener(d)
     ELSE Goto(d, "owner") /\ UNCHANGED <<listening, error>>
  /\ UNCHANGED <<path, parent>>

\* metadata(path), metadata(parent): the owners must agree
CompareOwners(d) ==
  /\ pc[d] = "owner"
  /\ \/ path = Absent /\ Fail(d, "io") /\ DropListener(d)
     \/ path # Absent /\ parent.uid # Uid /\ Goto(d, "unbind") /\ DropListener(d) /\ UNCHANGED error
     \/ path # Absent /\ parent.uid = Uid /\ Goto(d, "serving") /\ UNCHANGED <<listening, error>>
  /\ UNCHANGED <<path, parent>>

\* Mutant: an owner mismatch leaves the socket file behind.
UnbindKeepsFile(d) == pc[d] = "unbind" /\ Fail(d, "owner") /\ UNCHANGED <<listening, path, parent>>

Unbind(d) ==
  /\ pc[d] = "unbind"
  /\ Fail(d, IF path = Absent THEN "io" ELSE "owner")
  /\ path' = Absent
  /\ UNCHANGED <<listening, parent>>

\* The listener task ends and closes the socket; the path is still there.
CloseListener(d) ==
  /\ pc[d] = "serving"
  /\ "stops" \in overlaps \/ ~Others(d, Starting)
  /\ DropListener(d)
  /\ Goto(d, "stopping")
  /\ UNCHANGED <<path, parent, error>>

\* SocketCleanup::drop removes whatever the path names now.
Cleanup(d) ==
  /\ pc[d] = "stopping"
  /\ path' = Absent
  /\ Goto(d, "stopped")
  /\ UNCHANGED <<listening, parent, error>>

\* SIGKILL, a panic, a power cut: the kernel closes the socket, the file stays.
Crash(d) ==
  /\ pc[d] \notin {"idle"} \cup Over
  /\ DropListener(d)
  /\ Goto(d, "crashed")
  /\ UNCHANGED <<path, parent, error>>

StartStep(d) ==
  \/ InspectParent(d) \/ MakeParent(d) \/ Revalidate(d) \/ Lookup(d) \/ Probe(d)
  \/ RemoveStale(d) \/ Bind(d) \/ Listen(d) \/ Restrict(d) \/ CompareOwners(d) \/ Unbind(d)

DaemonStep(d) == Begin(d) \/ StartStep(d) \/ CloseListener(d) \/ Cleanup(d) \/ Crash(d)

\* Every daemon has run.
Rest == (\A d \in Daemons : pc[d] \in Over) /\ UNCHANGED vars

Next == ((\E d \in Daemons : DaemonStep(d)) /\ UNCHANGED overlaps) \/ Rest

Spec == Init /\ [][Next]_vars

\* A started daemon goes on starting; a stopping one goes on stopping.
Fairness ==
  \A d \in Daemons :
    /\ WF_vars(StartStep(d) /\ UNCHANGED overlaps)
    /\ WF_vars(Cleanup(d) /\ UNCHANGED overlaps)

FairSpec == Spec /\ Fairness

----------------------------------------------------------------------------
(* Properties                                                              *)

\* The program counters, directory kinds and path entries that can occur.
TypeOK ==
  /\ pc \in [Daemons -> {"idle", "serving"} \cup Starting \cup Stopping \cup Over]
  /\ listening \subseteq Daemons
  /\ path \in Daemons \cup {Absent, Junk, Relic}
  /\ parent \in {NoDir} \cup {Dir(k, u) : k \in {"private", "insecure", "no_directory"}, u \in {Uid, "other"}}
  /\ error \in [Daemons -> {"none", "directory", "unsafe_path", "already_running", "probe", "io", "owner"}]
  /\ overlaps \in Disciplines

\* A second daemon never comes to serve beside the first (bind_listener).
SingleInstance ==
  \A d, e \in Daemons : pc[d] = "serving" /\ pc[e] = "serving" => d = e

\* Under a service manager the daemon that serves is the one that clients reach
\* through the path.
ServingIsReachable ==
  Managed => \A d \in Daemons : pc[d] = "serving" => path = d /\ d \in listening

StealsPath == path \in listening /\ path \in listening' /\ path' # path

\* No step removes or replaces a path that leads to a listening socket, be it
\* stale recovery, owner mismatch or cleanup.
ActiveSocketNeverRemoved == [][~StealsPath]_vars

\* Under a service manager no step takes a listening socket from the path.
ManagedSocketStays == [][Managed => ~StealsPath]_vars

\* Under a service manager a start is refused as "already running", or fails in its
\* probe, only when a daemon does serve, and never because the path moved under it.
StartFailsForCause ==
  [][ Managed =>
      \A d \in Daemons :
        /\ error[d] = "none" /\ error'[d] \in {"already_running", "probe"}
           => \E e \in Daemons \ {d} : pc[e] = "serving"
        /\ error[d] = "none" => error'[d] # "io" ]_vars

\* Every way out of a start or of service takes the daemon's socket file with it
\* or left it to another daemon: only a crash leaves a file for stale recovery
\* (the owner check of bind_listener, SocketCleanup).
OnlyCrashesLeaveSockets == path \in Daemons => pc[path] \notin {"failed", "stopped"}

\* A crash leaves nothing that stops the next start a service manager makes: from
\* a private directory of its own and a path that names nothing or a dead socket,
\* a start comes to serve, or crashes itself (recover_stale_socket).
StaleIsRecovered ==
  \A d \in Daemons :
    Managed /\ pc[d] = "lookup" /\ path \notin listening \cup {Junk} /\ parent.uid = Uid
    ~> pc[d] \in {"serving", "stopping", "stopped", "crashed"}

\* Every start comes to an end, however starts and stops overlap.
StartEnds == \A d \in Daemons : pc[d] = "parent" ~> pc[d] \notin Starting
=============================================================================
