--------------------------- MODULE LocalEndpoint ----------------------------
(***************************************************************************)
(* The unix-socket server of http_plugin (local_endpoint.hpp): processes   *)
(* that are configured with the same socket path start, serve, stop and    *)
(* die beside each other.  The path is all they share.                     *)
(*                                                                         *)
(* The kernel is external: connect succeeds on a path whose socket is      *)
(* listening (it blocks while the backlog is full), is refused on any      *)
(* other file, and fails with ENOENT without a file; bind creates the file *)
(* and needs that there is none; unlink removes whatever file is there,    *)
(* and a socket goes on serving what it had queued.                        *)
(***************************************************************************)
EXTENDS Naturals, Sequences

CONSTANTS
    Procs,       \* processes with the same unix-socket-path
    Clients,     \* clients of whichever process answers there
    NoFile,      \* path: no file
    Dead,        \* path: a socket nobody holds open any more, or some other file
    Probe,       \* the connection that listen() makes to test the path
    MaxBacklog   \* bound: connections that wait to be accepted

ASSUME EndpointAssumption ==
    /\ Procs \cap {NoFile, Dead} = {}
    /\ NoFile # Dead
    /\ Probe \notin Clients
    /\ MaxBacklog \in Nat \ {0}

VARIABLES
    path,      \* NoFile, Dead, or the process that holds the socket bound there
    pc,        \* where each process is: down, refused, in startup (test, unlink,
               \* bind, listen), up, or in shutdown (quitting, closing)
    backlog,   \* connections made to each process's socket and not accepted
    con,       \* what each client has
    alone,     \* history: no other process has run since this one started
    begun,     \* history: the services that were reachable when it started
    dirty      \* history: a process ended without removing its socket

evars == <<path, pc, backlog, con, alone, begun, dirty>>

Running(p) == pc[p] \notin {"down", "refused"}

(* m_state is LISTENING, or the destructor is at work on it. *)
Listening(p) == pc[p] \in {"up", "quitting", "closing"}

Reachable(p) == path = p /\ Listening(p)

EInit ==
    /\ path \in {NoFile, Dead}
    /\ pc = [p \in Procs |-> "down"]
    /\ backlog = [p \in Procs |-> <<>>]
    /\ con = [c \in Clients |-> "idle"]
    /\ alone = [p \in Procs |-> FALSE]
    /\ begun = [p \in Procs |-> {}]
    /\ dirty = (path = Dead)

GoTo(p, step) == pc' = [pc EXCEPT ![p] = step]

(***************************************************************************)
(* The process ends: its socket is closed, what waited in the backlog is   *)
(* reset, and its file, if it is still there, is nobody's.  The end is     *)
(* orderly after the destructor, and not after a crash or an error.        *)
(***************************************************************************)
End(p, step, orderly) ==
    /\ GoTo(p, step)
    /\ path' = IF path = p THEN Dead ELSE path
    /\ dirty' = (dirty \/ (path = p /\ ~ orderly))
    /\ con' = [c \in Clients |->
                  IF \E i \in DOMAIN backlog[p] : backlog[p][i] = c
                  THEN "reset" ELSE con[c]]
    /\ backlog' = [backlog EXCEPT ![p] = <<>>]
    /\ begun' = [q \in Procs |-> IF q = p THEN {} ELSE begun[q] \ {p}]
    /\ UNCHANGED alone

-----------------------------------------------------------------------------
(***************************************************************************)
(* plugin_startup: init_asio, then listen.                                 *)
(***************************************************************************)
Start(p) ==
    /\ ~ Running(p)
    /\ GoTo(p, "test")
    /\ alone' = [q \in Procs |-> IF q = p THEN \A o \in Procs : ~ Running(o)
                                 ELSE alone[q] /\ ~ Running(q)]
    /\ begun' = [begun EXCEPT ![p] = {q \in Procs : Reachable(q)}]
    /\ UNCHANGED <<path, backlog, con, dirty>>

(* Somebody answers on the path: address_in_use. *)
TestAnswered(p) ==
    /\ pc[p] = "test"
    /\ \E q \in Procs :
        /\ Reachable(q)
        /\ Len(backlog[q]) < MaxBacklog
        /\ backlog' = [backlog EXCEPT ![q] = Append(@, Probe)]
    /\ GoTo(p, "refused")
    /\ begun' = [begun EXCEPT ![p] = {}]
    /\ UNCHANGED <<path, con, alone, dirty>>

(* Variant: whatever the test says, the path is cleared. *)
TestRefused_Always(p) ==
    /\ pc[p] = "test"
    /\ path # NoFile
    /\ GoTo(p, "unlink")
    /\ UNCHANGED <<path, backlog, con, alone, begun, dirty>>

(* Variant: the stale socket is not removed. *)
TestRefused_KeepsFile(p) ==
    /\ pc[p] = "test"
    /\ path # NoFile
    /\ ~ \E q \in Procs : Reachable(q)
    /\ GoTo(p, "bind")
    /\ UNCHANGED <<path, backlog, con, alone, begun, dirty>>

(* A file and nobody listening: also the socket of a process before listen(). *)
TestRefused(p) ==
    /\ pc[p] = "test"
    /\ path # NoFile
    /\ ~ \E q \in Procs : Reachable(q)
    /\ GoTo(p, "unlink")
    /\ UNCHANGED <<path, backlog, con, alone, begun, dirty>>

TestNoFile(p) ==
    /\ pc[p] = "test"
    /\ path = NoFile
    /\ GoTo(p, "bind")
    /\ UNCHANGED <<path, backlog, con, alone, begun, dirty>>

Unlink(p) ==
    /\ pc[p] = "unlink"
    /\ path' = NoFile
    /\ GoTo(p, "bind")
    /\ UNCHANGED <<backlog, con, alone, begun, dirty>>

(* open and bind *)
Bind(p) ==
    /\ pc[p] = "bind"
    /\ path = NoFile
    /\ path' = p
    /\ GoTo(p, "listen")
    /\ UNCHANGED <<backlog, con, alone, begun, dirty>>

BindTaken(p) ==
    /\ pc[p] = "bind"
    /\ path # NoFile
    /\ End(p, "refused", FALSE)

Listen(p) ==
    /\ pc[p] = "listen"
    /\ GoTo(p, "up")
    /\ UNCHANGED <<path, backlog, con, alone, begun, dirty>>

(***************************************************************************)
(* Any other error (no permission, no descriptor, a path too long): the    *)
(* acceptor is closed and the exception ends startup; m_state is READY, so *)
(* that the destructor leaves the path alone.                              *)
(***************************************************************************)
StartFails(p) ==
    /\ pc[p] \in {"test", "bind", "listen"}
    /\ End(p, "down", FALSE)

-----------------------------------------------------------------------------
(* Variant: a connection that is closed when it is accepted ends accepting. *)
Accept_NotProbe(p) ==
    /\ pc[p] = "up"
    /\ backlog[p] # <<>>
    /\ Head(backlog[p]) # Probe
    /\ backlog' = [backlog EXCEPT ![p] = Tail(@)]
    /\ con' = [c \in Clients |-> IF c = Head(backlog[p]) THEN "accepted" ELSE con[c]]
    /\ UNCHANGED <<path, pc, alone, begun, dirty>>

(***************************************************************************)
(* start_accept and async_accept, while the io_service runs.  The accepted *)
(* connection goes from READY to READING; the next accept follows at once. *)
(***************************************************************************)
Accept(p) ==
    /\ pc[p] = "up"
    /\ backlog[p] # <<>>
    /\ backlog' = [backlog EXCEPT ![p] = Tail(@)]
    /\ con' = [c \in Clients |-> IF c = Head(backlog[p]) THEN "accepted" ELSE con[c]]
    /\ UNCHANGED <<path, pc, alone, begun, dirty>>

(* The io_service is stopped; plugin_shutdown does not look at the unix server. *)
Quit(p) ==
    /\ pc[p] = "up"
    /\ GoTo(p, "quitting")
    /\ UNCHANGED <<path, backlog, con, alone, begun, dirty>>

(* Variant: the destructor leaves the socket behind. *)
DestroyUnlink_Keeps(p) ==
    /\ pc[p] = "quitting"
    /\ GoTo(p, "closing")
    /\ UNCHANGED <<path, backlog, con, alone, begun, dirty>>

(***************************************************************************)
(* ~local_endpoint, with the plugins, at the end of application::shutdown: *)
(* the path is removed without a look at whose socket is there.            *)
(***************************************************************************)
DestroyUnlink(p) ==
    /\ pc[p] = "quitting"
    /\ path' = NoFile
    /\ GoTo(p, "closing")
    /\ UNCHANGED <<backlog, con, alone, begun, dirty>>

DestroyClose(p) ==
    /\ pc[p] = "closing"
    /\ End(p, "down", TRUE)

Crash(p) ==
    /\ Running(p)
    /\ End(p, "down", FALSE)

-----------------------------------------------------------------------------
(* External: a client connects to the path, and later comes again. *)
Connect(c) ==
    /\ con[c] = "idle"
    /\ \E q \in Procs :
        /\ Reachable(q)
        /\ Len(backlog[q]) < MaxBacklog
        /\ backlog' = [backlog EXCEPT ![q] = Append(@, c)]
    /\ con' = [con EXCEPT ![c] = "queued"]
    /\ UNCHANGED <<path, pc, alone, begun, dirty>>

Disconnect(c) ==
    /\ con[c] \in {"accepted", "reset"}
    /\ con' = [con EXCEPT ![c] = "idle"]
    /\ UNCHANGED <<path, pc, backlog, alone, begun, dirty>>

StartStep(p) ==
    \/ TestAnswered(p) \/ TestRefused(p) \/ TestNoFile(p) \/ Unlink(p)
    \/ Bind(p) \/ BindTaken(p) \/ Listen(p) \/ StartFails(p)

StopStep(p) == DestroyUnlink(p) \/ DestroyClose(p)

ENext ==
    \/ \E p \in Procs : \/ Start(p) \/ StartStep(p)
                        \/ Accept(p) \/ Quit(p) \/ StopStep(p) \/ Crash(p)
    \/ \E c \in Clients : Connect(c) \/ Disconnect(c)

(* A process that is in startup, in shutdown or serving goes on. *)
ESpec ==
    /\ EInit
    /\ [][ENext]_evars
    /\ \A p \in Procs : WF_evars(StartStep(p)) /\ WF_evars(StopStep(p)) /\ WF_evars(Accept(p))

-----------------------------------------------------------------------------
(***************************************************************************)
(* A process that shares its time with no other finds the path free or     *)
(* frees it, whatever an earlier crash left there: listen() refuses it     *)
(* only if another process ran beside it.  And while it is alone, its      *)
(* service keeps its path.                                                 *)
(***************************************************************************)
AloneServes ==
    \A p \in Procs :
        alone[p] => /\ pc[p] # "refused"
                    /\ pc[p] \in {"up", "quitting"} => path = p

(***************************************************************************)
(* "Probably another keosd, don't touch it": a process never removes the   *)
(* socket of a service that clients could already reach when it started,   *)
(* neither by the unlink of listen() nor by the one of its destructor.     *)
(* (It may remove one that became reachable after its test.)               *)
(***************************************************************************)
EarlierServiceKept ==
    [][\A p, q \in Procs :
          Reachable(p) /\ p \in begun[q] /\ p # q /\ pc'[q] # pc[q] =>
              path' = p]_evars

(***************************************************************************)
(* A socket file without a process is left only where a process crashed or *)
(* failed after bind: an orderly stop removes it, although plugin_shutdown *)
(* does not stop this server.                                              *)
(***************************************************************************)
NoLitter == path = Dead => dirty

(***************************************************************************)
(* A client whose connection was taken into a backlog is accepted or reset *)
(* in the end, also behind the probes of other processes, and also when    *)
(* the socket it is queued on has lost its path meanwhile.                 *)
(***************************************************************************)
QueuedEnds == \A c \in Clients : con[c] = "queued" ~> con[c] # "queued"
=============================================================================
