------------------------ MODULE LocalEndpointProofs -------------------------
(***************************************************************************)
(* The safety properties of the shared unix socket, proved for any number  *)
(* of processes, clients and places in a backlog.                          *)
(***************************************************************************)
EXTENDS LocalEndpoint, TLAPS

Steps == {"down", "refused", "test", "unlink", "bind", "listen",
          "up", "quitting", "closing"}

ETypeOK ==
    /\ path \in {NoFile, Dead} \cup Procs
    /\ pc \in [Procs -> Steps]
    /\ alone \in [Procs -> BOOLEAN]
    /\ begun \in [Procs -> SUBSET Procs]
    /\ dirty \in BOOLEAN

(***************************************************************************)
(* The file belongs to a process only between its bind and its unlink: no  *)
(* process that has gone, or has not come so far, is its owner.            *)
(***************************************************************************)
OwnerHolds == \A p \in Procs : path = p => pc[p] \in {"listen", "up", "quitting"}

(***************************************************************************)
(* A process that runs alone has the machine to itself, and what it has    *)
(* done to the path is still so.                                           *)
(***************************************************************************)
AloneInv ==
    \A p \in Procs : alone[p] =>
        /\ pc[p] # "refused"
        /\ Running(p) => \A o \in Procs \ {p} : ~ Running(o)
        /\ pc[p] = "bind" => path = NoFile
        /\ pc[p] \in {"listen", "up", "quitting"} => path = p

(***************************************************************************)
(* A service that q found at its start has not ended since, and while it   *)
(* still has its path, q has not come past its test.                       *)
(***************************************************************************)
BegunInv ==
    \A p, q \in Procs : p \in begun[q] =>
        /\ Listening(p)
        /\ path = p /\ p # q => pc[q] = "test"

EInv == ETypeOK /\ OwnerHolds /\ NoLitter /\ AloneInv /\ BegunInv

-----------------------------------------------------------------------------
(* At the start nobody owns the path, and a file that lies there is litter. *)
LEMMA InitEInv == EInit => EInv
BY EndpointAssumption
   DEF EInit, EInv, ETypeOK, Steps, OwnerHolds, NoLitter, AloneInv, BegunInv, Running, Listening

(***************************************************************************)
(* The end of a process, however it comes, keeps the invariant: if it      *)
(* still owns the path the file becomes litter, and that is only possible  *)
(* where the end is not orderly.                                           *)
(***************************************************************************)
LEMMA EndEInv ==
    ASSUME EInv, NEW p \in Procs, NEW step \in {"down", "refused"}, NEW orderly \in BOOLEAN,
           End(p, step, orderly), Running(p),
           orderly => pc[p] = "closing",
           step = "refused" => pc[p] = "bind" /\ path # NoFile
    PROVE  EInv'
<1> USE EndpointAssumption DEF EInv, End, GoTo
<1>1. ETypeOK'
  BY DEF ETypeOK, Steps
<1>2. OwnerHolds'
  BY DEF ETypeOK, OwnerHolds
<1>3. NoLitter'
  BY DEF ETypeOK, NoLitter, OwnerHolds
<1>4. AloneInv'
  BY DEF ETypeOK, AloneInv, Running
<1>5. BegunInv'
  BY DEF ETypeOK, BegunInv, Listening, Running
<1> QED BY <1>1, <1>2, <1>3, <1>4, <1>5

(* Every step of every process and client keeps the invariant. *)
LEMMA NextEInv == EInv /\ [ENext]_evars => EInv'
<1> SUFFICES ASSUME EInv, [ENext]_evars PROVE EInv'
  OBVIOUS
<1> USE EndpointAssumption DEF EInv
<1>1. ASSUME NEW p \in Procs, Start(p) PROVE EInv'
  <2> USE <1>1 DEF Start, GoTo
  <2>1. ETypeOK'
    BY DEF ETypeOK, Steps
  <2>2. OwnerHolds'
    BY DEF ETypeOK, OwnerHolds, Running
  <2>3. NoLitter'
    BY DEF NoLitter
  <2>4. AloneInv'
    BY DEF ETypeOK, AloneInv, Running, OwnerHolds
  <2>5. BegunInv'
    BY DEF ETypeOK, BegunInv, Reachable, Listening, Running
  <2> QED BY <2>1, <2>2, <2>3, <2>4, <2>5
<1>2. ASSUME NEW p \in Procs, TestAnswered(p) PROVE EInv'
  <2> USE <1>2 DEF TestAnswered, GoTo
  <2>1. ETypeOK'
    BY DEF ETypeOK, Steps
  <2>2. OwnerHolds'
    BY DEF ETypeOK, OwnerHolds
  <2>3. NoLitter'
    BY DEF NoLitter
  <2>4. AloneInv'
    BY DEF ETypeOK, AloneInv, Running, Reachable, Listening
  <2>5. BegunInv'
    BY DEF ETypeOK, BegunInv, Listening
  <2> QED BY <2>1, <2>2, <2>3, <2>4, <2>5
<1>3. ASSUME NEW p \in Procs, TestRefused(p) PROVE EInv'
  BY <1>3 DEF TestRefused, GoTo, ETypeOK, Steps, OwnerHolds, NoLitter, AloneInv, BegunInv,
              Running, Listening, Reachable
<1>4. ASSUME NEW p \in Procs, TestNoFile(p) PROVE EInv'
  BY <1>4 DEF TestNoFile, GoTo, ETypeOK, Steps, OwnerHolds, NoLitter, AloneInv, BegunInv,
              Running, Listening
<1>5. ASSUME NEW p \in Procs, Unlink(p) PROVE EInv'
  BY <1>5 DEF Unlink, GoTo, ETypeOK, Steps, OwnerHolds, NoLitter, AloneInv, BegunInv,
              Running, Listening
<1>6. ASSUME NEW p \in Procs, Bind(p) PROVE EInv'
  BY <1>6 DEF Bind, GoTo, ETypeOK, Steps, OwnerHolds, NoLitter, AloneInv, BegunInv,
              Running, Listening
<1>7. ASSUME NEW p \in Procs, BindTaken(p) PROVE EInv'
  BY <1>7, EndEInv DEF BindTaken, Running
<1>8. ASSUME NEW p \in Procs, Listen(p) PROVE EInv'
  BY <1>8 DEF Listen, GoTo, ETypeOK, Steps, OwnerHolds, NoLitter, AloneInv, BegunInv,
              Running, Listening
<1>9. ASSUME NEW p \in Procs, StartFails(p) PROVE EInv'
  BY <1>9, EndEInv DEF StartFails, Running
<1>10. ASSUME NEW p \in Procs, Accept(p) PROVE EInv'
  BY <1>10 DEF Accept, ETypeOK, OwnerHolds, NoLitter, AloneInv, BegunInv, Running, Listening
<1>11. ASSUME NEW p \in Procs, Quit(p) PROVE EInv'
  BY <1>11 DEF Quit, GoTo, ETypeOK, Steps, OwnerHolds, NoLitter, AloneInv, BegunInv,
               Running, Listening
<1>12. ASSUME NEW p \in Procs, DestroyUnlink(p) PROVE EInv'
  BY <1>12 DEF DestroyUnlink, GoTo, ETypeOK, Steps, OwnerHolds, NoLitter, AloneInv, BegunInv,
               Running, Listening
<1>13. ASSUME NEW p \in Procs, DestroyClose(p) PROVE EInv'
  BY <1>13, EndEInv DEF DestroyClose, Running
<1>14. ASSUME NEW p \in Procs, Crash(p) PROVE EInv'
  BY <1>14, EndEInv DEF Crash
<1>15. ASSUME NEW c \in Clients, Connect(c) \/ Disconnect(c) PROVE EInv'
  BY <1>15 DEF Connect, Disconnect, ETypeOK, OwnerHolds, NoLitter, AloneInv, BegunInv,
               Running, Listening
<1>16. CASE UNCHANGED evars
  BY <1>16 DEF evars, ETypeOK, OwnerHolds, NoLitter, AloneInv, BegunInv, Running, Listening
<1> QED
  BY <1>1, <1>2, <1>3, <1>4, <1>5, <1>6, <1>7, <1>8, <1>9, <1>10, <1>11, <1>12, <1>13,
     <1>14, <1>15, <1>16 DEF ENext, StartStep, StopStep

(* The invariant holds of every state of every behaviour. *)
THEOREM EndpointInvariant == ESpec => []EInv
<1>1. EInit => EInv
  BY InitEInv
<1>2. EInv /\ [ENext]_evars => EInv'
  BY NextEInv
<1> QED BY <1>1, <1>2, PTL DEF ESpec

(***************************************************************************)
(* listen() never refuses a process that nobody ran beside, and such a     *)
(* process keeps its path while it serves.                                 *)
(***************************************************************************)
THEOREM AloneAlwaysServes == ESpec => []AloneServes
<1>1. EInv => AloneServes
  BY DEF EInv, AloneInv, AloneServes
<1> QED BY <1>1, EndpointInvariant, PTL

(***************************************************************************)
(* A socket file without a process is only ever left by a crash or by an   *)
(* error after bind; the destructor of local_endpoint leaves none.         *)
(***************************************************************************)
THEOREM NeverLitter == ESpec => []NoLitter
<1>1. EInv => NoLitter
  BY DEF EInv
<1> QED BY <1>1, EndpointInvariant, PTL

(***************************************************************************)
(* No step of a process takes the path from a service that was reachable   *)
(* when the process started.                                               *)
(***************************************************************************)
THEOREM EarlierServiceAlwaysKept == ESpec => EarlierServiceKept
<1> DEFINE Kept == \A p, q \in Procs :
                      Reachable(p) /\ p \in begun[q] /\ p # q /\ pc'[q] # pc[q] => path' = p
<1>1. EInv /\ [ENext]_evars => [Kept]_evars
  <2> SUFFICES ASSUME EInv, ENext, NEW p \in Procs, NEW q \in Procs,
                      Reachable(p), p \in begun[q], p # q, pc'[q] # pc[q]
               PROVE  path' = p
    OBVIOUS
  <2> USE EndpointAssumption DEF EInv
  <2>1. pc[q] = "test" /\ path = p /\ path # NoFile
    BY DEF BegunInv, Reachable
  <2>2. ASSUME NEW r \in Procs, r # q PROVE ~ Start(r) /\ ~ StartStep(r) /\ ~ Quit(r)
                                             /\ ~ StopStep(r) /\ ~ Crash(r) /\ ~ Accept(r)
    BY <2>2 DEF Start, StartStep, Quit, StopStep, Crash, Accept, TestAnswered, TestRefused,
                TestNoFile, Unlink, Bind, BindTaken, Listen, StartFails, DestroyUnlink,
                DestroyClose, End, GoTo, ETypeOK
  <2>3. \/ TestAnswered(q) \/ TestRefused(q) \/ TestNoFile(q) \/ StartFails(q) \/ Crash(q)
    BY <2>1, <2>2 DEF ENext, Start, StartStep, StopStep, Running, Unlink, Bind, BindTaken,
                      Listen, Accept, Quit, DestroyUnlink, DestroyClose, Connect, Disconnect
  <2>4. ~ TestRefused(q) /\ ~ TestNoFile(q)
    BY <2>1 DEF TestRefused, TestNoFile
  <2> QED BY <2>1, <2>3, <2>4 DEF TestAnswered, StartFails, Crash, End
<1> QED BY <1>1, EndpointInvariant, PTL DEF ESpec, EarlierServiceKept
=============================================================================
