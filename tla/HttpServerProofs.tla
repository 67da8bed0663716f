-------------------------- MODULE HttpServerProofs --------------------------
(***************************************************************************)
(* The safety properties of http_plugin and chain_api_plugin, proved for   *)
(* any options, calls, requests and number of connections.                 *)
(***************************************************************************)
EXTENDS HttpServer, TLAPS

Phases == {"initialize", "starting", "listening", "running", "stopped"}

ConStates == {"closed", "sent", "queued", "deferred", "answered", "reset"}

Tasks == [op : {"add"}, arg : Calls] \cup [op : {"request"}, arg : Conns]

HTypeOK ==
    /\ options \in Options
    /\ servers \subseteq endpoints
    /\ max_body_size \in Nat
    /\ phase \in Phases
    /\ queue \in Seq(Tasks)
    /\ url_handlers \subseteq Calls
    /\ con \in [Conns -> ConStates]
    /\ req \in [Conns -> Requests \cup {NoRequest}]
    /\ status \in [Conns -> Nat]
    /\ sent \in [Conns -> Nat]

(***************************************************************************)
(* What plugin_initialize leaves, from when it returns: the settings that  *)
(* every later step of the server reads.                                   *)
(***************************************************************************)
Configured ==
    /\ \A s \in endpoints \ {"unix"} : Resolved(options[s])
    /\ valid_hosts = options.aliases \cup
                     UNION {Aliases(a) : a \in {a \in Addresses : a.resolves}}
    /\ max_body_size = IF ReturnsEarly THEN 0 ELSE options.limit

SetupInv ==
    /\ phase = "initialize" => /\ max_body_size = 0 /\ servers = {}
                               /\ \A c \in Conns : con[c] = "closed"
    /\ phase \notin {"initialize", "stopped"} => Configured
    /\ phase = "stopped" => servers = {}
    /\ \A c \in Conns : con[c] # "closed" =>
          Configured /\ req[c] \in Requests /\ req[c].server \in endpoints

(***************************************************************************)
(* The queue of the io_service: the registrations are in front of the      *)
(* requests, a registration is queued or done once exec() runs, and a      *)
(* connection is queued once, and untouched while it is.                   *)
(***************************************************************************)
QueueInv ==
    /\ phase \in {"initialize", "starting", "stopped"} => queue = <<>>
    /\ phase = "listening" => \A i \in DOMAIN queue : queue[i].op = "add"
    /\ phase = "running" =>
          \A url \in Calls : \/ url \in url_handlers
                             \/ \E i \in DOMAIN queue : queue[i] = [op |-> "add", arg |-> url]
    /\ \A i, j \in DOMAIN queue :
          queue[i].op = "request" /\ queue[j].op = "add" => j < i
    /\ \A i \in DOMAIN queue : queue[i].op = "request" => con[queue[i].arg] = "queued"
    /\ \A i, j \in DOMAIN queue :
          queue[i].op = "request" /\ queue[i] = queue[j] => i = j

(* A connection has no status and no response before its handler ran. *)
FreshInv ==
    \A c \in Conns :
        con[c] \in {"sent", "queued"} => status[c] = 0 /\ sent[c] = 0

(* The five properties, of one connection. *)
ConnOK(c) ==
    /\ status[c] = 404 => req[c].url \in OtherUrls
    /\ status[c] = 400 /\ con[c] = "answered" /\ req[c].server # "unix" => ~ Own(req[c])
    /\ /\ con[c] \in {"answered", "deferred"}
       /\ status[c] \notin {400, 413}
       /\ req[c].server # "unix"
       /\ options.validate
       => req[c].host # NoHost /\ req[c].host.name \in ConfiguredNames
    /\ con[c] \in {"answered", "deferred"} =>
          /\ status[c] = 413 <=>
                req[c].size > IF Given(options.https) /\ ~ options.files
                              THEN 0 ELSE options.limit
          /\ con[c] = "deferred" <=>
                /\ Reaches(c) /\ req[c].method = "POST"
                /\ req[c].url \in WriteCalls
                /\ req[c].body \in {"truncated", "malformed"}
          /\ con[c] = "answered" <=> sent[c] = 1

HInv == HTypeOK /\ SetupInv /\ QueueInv /\ FreshInv /\ \A c \in Conns : ConnOK(c)

-----------------------------------------------------------------------------
(* The connections' properties are the properties of the specification. *)
LEMMA ConnProperties ==
    (\A c \in Conns : ConnOK(c)) =>
        /\ RegisteredIsFound /\ OwnAddressServed /\ StrangerRefused
        /\ LimitApplied /\ UnansweredExactly
BY DEF ConnOK, RegisteredIsFound, OwnAddressServed, StrangerRefused, LimitApplied,
       UnansweredExactly

(***************************************************************************)
(* host_is_valid accepts the names and ports under which a server that is  *)
(* configured can be addressed.                                            *)
(***************************************************************************)
LEMMA OwnIsAllowed ==
    ASSUME options \in Options, Configured, NEW r \in Requests,
           r.server \in endpoints \ {"unix"}, Own(r)
    PROVE  AllowHost(r)
<1> DEFINE a == options[r.server]
           h == WithPort(r.host, r.server)
<1>1. r.server \in {"http", "https"} /\ r.host \in [name : STRING, port : STRING]
  BY RequestsAssumption DEF Servers
<1>2. a \in Addresses /\ a.resolves /\ a.name # "none"
  BY <1>1, OptionsAssumption DEF Configured, Resolved, Addresses
<1>3. h.port = a.number /\ h.name = r.host.name /\ h = [name |-> h.name, port |-> h.port]
  BY DEF WithPort, Own
<1>4. r.host # NoHost
  BY <1>1, <1>2, OptionsAssumption DEF Own, NoHost
<1>5. CASE r.host.name = LocalName
  <2>1. h = Local(r.server)
    BY <1>3, <1>5 DEF Local
  <2> QED BY <2>1, <1>4 DEF AllowHost, HostIsValid
<1>6. CASE r.host.name = a.name
  <2>1. h = [name |-> a.name, port |-> a.number]
    BY <1>3, <1>6
  <2>2. h \in Aliases(a)
    BY <2>1 DEF Aliases
  <2>3. h \in valid_hosts
    BY <2>2, <1>2 DEF Configured
  <2> QED BY <2>3, <1>4 DEF AllowHost, HostIsValid
<1> QED BY <1>5, <1>6 DEF Own

(***************************************************************************)
(* What host_is_valid accepts is the address of a socket, an address of    *)
(* the options or an alias with a port: the default port is put in before  *)
(* the lookup, so that an alias without a port is never matched.           *)
(***************************************************************************)
LEMMA AllowedIsConfigured ==
    ASSUME options \in Options, Configured, NEW r \in Requests,
           r.server # "unix", options.validate, AllowHost(r)
    PROVE  r.host # NoHost /\ r.host.name \in ConfiguredNames
<1> DEFINE h == WithPort(r.host, r.server)
<1>1. r.host \in [name : STRING, port : STRING]
  BY RequestsAssumption
<1>2. h.name = r.host.name /\ h.port # "none"
  BY <1>1 DEF WithPort, DefaultPort
<1>3. r.host # NoHost /\ h \in valid_hosts \cup {Local(r.server)}
  BY DEF AllowHost, HostIsValid
<1>4. CASE h = Local(r.server)
  BY <1>2, <1>3, <1>4 DEF Local, ConfiguredNames
<1>5. CASE h \in options.aliases
  BY <1>2, <1>3, <1>5 DEF ConfiguredNames
<1>6. ASSUME NEW a \in Addresses, h \in Aliases(a)
      PROVE  r.host.name \in ConfiguredNames
  <2>1. h.name = a.name
    BY <1>6 DEF Aliases
  <2>2. a \in {options.http, options.https}
    BY DEF Addresses
  <2> QED BY <2>1, <2>2, <1>2 DEF ConfiguredNames
<1> QED BY <1>3, <1>4, <1>5, <1>6 DEF Configured

-----------------------------------------------------------------------------
(* With the same settings and the same request, the same checks. *)
LEMMA SameSetup ==
    ASSUME UNCHANGED setup
    PROVE  /\ Configured' = Configured
           /\ ConfiguredNames' = ConfiguredNames
           /\ \A r : AllowHost(r)' = AllowHost(r) /\ Own(r)' = Own(r)
BY DEF setup, Configured, Resolved, Addresses, ReturnsEarly, Given, Aliases, ConfiguredNames,
       AllowHost, HostIsValid, WithPort, DefaultPort, Local, Own

(* A connection whose request, status and count stay keeps its properties. *)
LEMMA SameConn ==
    ASSUME NEW c \in Conns, ConnOK(c), UNCHANGED setup,
           req'[c] = req[c], status'[c] = status[c], sent'[c] = sent[c],
           con'[c] \in {con[c], "closed", "queued", "reset"}
    PROVE  ConnOK(c)'
<1>1. ConfiguredNames' = ConfiguredNames /\ Own(req[c])' = Own(req[c])
  BY SameSetup
<1>2. Reaches(c)' = Reaches(c)
  BY SameSetup DEF Reaches, setup
<1> QED BY <1>1, <1>2 DEF ConnOK, setup, Given

(***************************************************************************)
(* handle_http_request, on a connection that waits for it and once every   *)
(* call is registered: each of its paths leaves the connection as the      *)
(* properties say, and touches no other.                                   *)
(***************************************************************************)
LEMMA HandleOK ==
    ASSUME HTypeOK, SetupInv, NEW c \in Conns, con[c] = "queued", status[c] = 0, sent[c] = 0,
           Calls \subseteq url_handlers, HandleHttpRequest(c), UNCHANGED setup, UNCHANGED req
    PROVE  /\ ConnOK(c)'
           /\ con'[c] \in {"answered", "deferred"}
           /\ \A d \in Conns \ {c} : con'[d] = con[d] /\ status'[d] = status[d]
                                                      /\ sent'[d] = sent[d]
           /\ con' \in [Conns -> ConStates]
           /\ status' \in [Conns -> Nat] /\ sent' \in [Conns -> Nat]
<1> DEFINE r == req[c]
           limit == IF Given(options.https) /\ ~ options.files THEN 0 ELSE options.limit
<1>1. /\ options \in Options /\ Configured /\ r \in Requests
      /\ r.server \in endpoints /\ max_body_size = limit
  BY DEF HTypeOK, SetupInv, Configured, ReturnsEarly
<1>2. /\ r.size \in Nat /\ limit \in Nat /\ r.method \in {"POST", "OPTIONS"}
      /\ r.url \in Calls \cup OtherUrls /\ r.body \in Bodies
  BY <1>1, RequestsAssumption, OptionsAssumption
<1>3. Reaches(c) <=> r.size <= limit /\ AllowHost(r)
  BY <1>1 DEF Reaches
<1>4. r.server # "unix" /\ Own(r) => AllowHost(r)
  BY <1>1, OwnIsAllowed
<1>5. r.server # "unix" /\ options.validate /\ AllowHost(r) =>
          r.host # NoHost /\ r.host.name \in ConfiguredNames
  BY <1>1, AllowedIsConfigured
<1>6. /\ ConfiguredNames' = ConfiguredNames /\ Own(r)' = Own(r)
      /\ Reaches(c)' = Reaches(c) /\ limit' = limit /\ r' = r
  BY SameSetup DEF Reaches, setup, Given
<1> DEFINE Others == /\ \A d \in Conns \ {c} : con'[d] = con[d] /\ status'[d] = status[d]
                                                             /\ sent'[d] = sent[d]
                     /\ con' \in [Conns -> ConStates]
                     /\ status' \in [Conns -> Nat] /\ sent' \in [Conns -> Nat]
<1>7. ASSUME NEW code \in Nat, Answer(c, code)
       PROVE  Others /\ status'[c] = code /\ con'[c] = "answered" /\ sent'[c] = 1
  BY <1>7 DEF Answer, HTypeOK, ConStates
<1>8. ASSUME NEW code \in Nat, LeaveDeferred(c, code)
       PROVE  Others /\ status'[c] = code /\ con'[c] = "deferred" /\ sent'[c] = 0
  BY <1>8 DEF LeaveDeferred, HTypeOK, ConStates
<1> DEFINE Deferred == /\ Reaches(c) /\ r.method = "POST" /\ r.url \in WriteCalls
                       /\ r.body \in {"truncated", "malformed"}
<1>9. ASSUME NEW code \in Nat, Answer(c, code),
             code = 404 => r.url \in OtherUrls,
             code = 400 => ~ AllowHost(r),
             code \notin {400, 413} => AllowHost(r),
             code = 413 <=> r.size > limit,
             ~ Deferred
      PROVE  ConnOK(c)'
  BY <1>2, <1>3, <1>4, <1>5, <1>6, <1>7, <1>9 DEF ConnOK, setup
<1>10. ASSUME LeaveDeferred(c, 500), Deferred
      PROVE  ConnOK(c)'
  BY <1>2, <1>3, <1>4, <1>5, <1>6, <1>8, <1>10 DEF ConnOK, setup
<1>11. CASE TooLarge(c)
  BY <1>1, <1>2, <1>3, <1>7, <1>9, <1>11 DEF TooLarge
<1>12. CASE RejectHost(c)
  BY <1>1, <1>2, <1>3, <1>7, <1>9, <1>12 DEF RejectHost
<1>13. CASE OptionsRequest(c)
  BY <1>1, <1>2, <1>3, <1>7, <1>9, <1>13 DEF OptionsRequest
<1>14. CASE NotFound(c)
  BY <1>1, <1>2, <1>3, <1>7, <1>9, <1>14 DEF NotFound, LookedUp, Calls
<1>15. CASE CallReturns(c)
  BY <1>1, <1>2, <1>3, <1>7, <1>9, <1>15 DEF CallReturns, Found, LookedUp
<1>16. CASE CallThrows(c)
  BY <1>1, <1>2, <1>3, <1>7, <1>9, <1>16, CallsAssumption DEF CallThrows, Found, LookedUp
<1>17. CASE AsyncReturns(c)
  BY <1>1, <1>2, <1>3, <1>7, <1>9, <1>17 DEF AsyncReturns, Found, LookedUp
<1>18. CASE AsyncRefuses(c)
  BY <1>1, <1>2, <1>3, <1>7, <1>9, <1>18 DEF AsyncRefuses, Found, LookedUp
<1>19. CASE AsyncParseThrows(c)
  BY <1>1, <1>2, <1>3, <1>8, <1>10, <1>19 DEF AsyncParseThrows, Found, LookedUp
<1> QED
  BY <1>11, <1>12, <1>13, <1>14, <1>15, <1>16, <1>17, <1>18, <1>19 DEF HandleHttpRequest

-----------------------------------------------------------------------------
(* The first step of the program: nothing is configured, nobody connected. *)
LEMMA InitHInv == HInit => HInv
<1> SUFFICES ASSUME HInit PROVE HInv
  OBVIOUS
<1>1. HTypeOK /\ SetupInv /\ FreshInv
  BY DEF HInit, HTypeOK, Phases, ConStates, SetupInv, FreshInv
<1>2. QueueInv
  BY DEF HInit, QueueInv
<1>3. ASSUME NEW c \in Conns PROVE ConnOK(c)
  BY DEF HInit, ConnOK
<1> QED BY <1>1, <1>2, <1>3 DEF HInv

(***************************************************************************)
(* The steps of startup leave the connections alone: what they do to the   *)
(* settings and to the queue has to be checked.                            *)
(***************************************************************************)
LEMMA StartupHInv ==
    ASSUME HInv,
           \/ InitializeThrows \/ Initialize \/ (\E s \in Servers : StartServer(s))
           \/ HttpStarted \/ (\E url \in Calls : AddHandler(url)) \/ Exec
    PROVE  HInv'
<1> USE DEF HInv
<1>0. UNCHANGED <<con, req, status, sent, options, url_handlers>> /\ FreshInv'
  BY DEF InitializeThrows, Initialize, StartServer, HttpStarted, AddHandler, Exec, setup, FreshInv
<1>1. ASSUME UNCHANGED setup PROVE /\ Configured' = Configured
                                   /\ \A c \in Conns : ConnOK(c)'
  BY <1>0, <1>1, SameSetup, SameConn
<1>2. CASE InitializeThrows
  <2>1. HTypeOK' /\ SetupInv'
    BY <1>0, <1>1, <1>2 DEF InitializeThrows, setup, HTypeOK, Phases, SetupInv
  <2>2. QueueInv'
    BY <1>0, <1>2 DEF InitializeThrows, QueueInv
  <2> QED BY <1>0, <1>1, <1>2, <2>1, <2>2 DEF InitializeThrows
<1>3. CASE Initialize
  <2>1. \A c \in Conns : con[c] = "closed"
    BY <1>3 DEF Initialize, SetupInv
  <2>2. Configured'
    <3>1. Addresses' = Addresses /\ ReturnsEarly' = ReturnsEarly
      BY <1>0 DEF Addresses, ReturnsEarly, Given
    <3>2. \A s \in endpoints' \ {"unix"} : Resolved(options[s])'
      BY <1>0, <1>3, <3>1 DEF Initialize, Resolved
    <3>3. valid_hosts' = options.aliases \cup
                         UNION {Aliases(a) : a \in {a \in Addresses : a.resolves}}
      BY <1>3 DEF Initialize
    <3>4. max_body_size' = IF ReturnsEarly THEN 0 ELSE options.limit
      BY <1>3 DEF Initialize, SetupInv
    <3> QED BY <1>0, <3>1, <3>2, <3>3, <3>4 DEF Configured, Aliases
  <2>3. HTypeOK'
    <3>1. max_body_size' \in Nat
      BY <1>3, OptionsAssumption DEF Initialize, HTypeOK
    <3>2. servers' \subseteq endpoints'
      BY <1>3 DEF Initialize, SetupInv
    <3> QED BY <1>0, <1>3, <3>1, <3>2 DEF Initialize, HTypeOK, Phases
  <2>4. SetupInv'
    BY <1>0, <1>3, <2>1, <2>2 DEF Initialize, SetupInv
  <2>5. QueueInv'
    BY <1>0, <1>3 DEF Initialize, QueueInv
  <2>6. ASSUME NEW c \in Conns PROVE ConnOK(c)'
    BY <1>0, <2>1 DEF ConnOK
  <2> QED BY <1>0, <2>3, <2>4, <2>5, <2>6
<1>4. ASSUME NEW s \in Servers, StartServer(s) PROVE HInv'
  <2>1. HTypeOK' /\ SetupInv'
    BY <1>0, <1>1, <1>4 DEF StartServer, setup, HTypeOK, SetupInv
  <2>2. QueueInv'
    BY <1>0, <1>4 DEF StartServer, QueueInv
  <2> QED BY <1>0, <1>1, <1>4, <2>1, <2>2 DEF StartServer
<1>5. CASE HttpStarted
  <2>1. HTypeOK' /\ SetupInv'
    BY <1>0, <1>1, <1>5 DEF HttpStarted, setup, HTypeOK, Phases, SetupInv
  <2>2. QueueInv'
    BY <1>0, <1>5 DEF HttpStarted, QueueInv
  <2> QED BY <1>0, <1>1, <1>5, <2>1, <2>2 DEF HttpStarted
<1>6. ASSUME NEW url \in Calls, AddHandler(url) PROVE HInv'
  <2> DEFINE t == [op |-> "add", arg |-> url]
  <2>1. HTypeOK' /\ SetupInv'
    BY <1>0, <1>1, <1>6 DEF AddHandler, setup, HTypeOK, Tasks, SetupInv
  <2>2. queue' = Append(queue, t) /\ queue \in Seq(Tasks) /\ t.op = "add"
    BY <1>6 DEF AddHandler, HTypeOK
  <2>3. QueueInv'
    BY <1>0, <1>6, <2>2 DEF AddHandler, QueueInv
  <2> QED BY <1>0, <1>1, <1>6, <2>1, <2>3 DEF AddHandler
<1>7. CASE Exec
  <2>1. HTypeOK' /\ SetupInv'
    BY <1>0, <1>1, <1>7 DEF Exec, setup, HTypeOK, Phases, SetupInv
  <2>2. ASSUME NEW url \in Calls
        PROVE  \E i \in DOMAIN queue : queue[i] = [op |-> "add", arg |-> url]
    <3>1. PICK i \in DOMAIN queue : queue[i].arg = url
      BY <1>7 DEF Exec, Posted
    <3>2. queue[i].op = "add" /\ queue[i] \in Tasks
      BY <1>7 DEF Exec, QueueInv, HTypeOK
    <3> QED BY <3>1, <3>2 DEF Tasks
  <2>3. QueueInv'
    BY <1>0, <1>7, <2>2 DEF Exec, QueueInv
  <2> QED BY <1>0, <1>1, <1>7, <2>1, <2>3 DEF Exec
<1> QED BY <1>2, <1>3, <1>4, <1>5, <1>6, <1>7

(* The end of the program resets what is open and drops what is queued. *)
LEMMA StopHInv ==
    ASSUME HInv, Stop, phase # "initialize"
    PROVE  HInv'
<1> USE DEF HInv, Stop
<1>1. \A c \in Conns : con'[c] \in {con[c], "reset"} /\ (con[c] = "closed" => con'[c] = "closed")
  BY DEF HTypeOK
<1>2. Configured' = Configured
  BY SameSetup
<1>3. HTypeOK' /\ FreshInv'
  BY <1>1 DEF setup, HTypeOK, Phases, ConStates, FreshInv
<1>4. SetupInv'
  BY <1>1, <1>2 DEF setup, HTypeOK, SetupInv
<1>5. QueueInv'
  BY DEF QueueInv
<1>6. ASSUME NEW c \in Conns PROVE ConnOK(c)'
  BY <1>1, SameConn
<1> QED BY <1>3, <1>4, <1>5, <1>6

(* What clients and the reactor do. *)
LEMMA ClientHInv ==
    ASSUME HInv, NEW c \in Conns, (\E r \in Requests : Send(c, r)) \/ Poll(c) \/ Close(c)
    PROVE  HInv'
<1> USE DEF HInv
<1>1. ASSUME NEW r \in Requests, Send(c, r) PROVE HInv'
  <2> USE <1>1 DEF Send
  <2>1. Configured' = Configured
    BY SameSetup
  <2>2. HTypeOK' /\ FreshInv'
    BY DEF setup, HTypeOK, ConStates, FreshInv
  <2>3. Configured
    BY DEF SetupInv, HTypeOK
  <2>4. SetupInv'
    BY <2>1, <2>3 DEF setup, HTypeOK, SetupInv
  <2>5. QueueInv'
    BY DEF QueueInv, HTypeOK, Tasks
  <2>6. ASSUME NEW d \in Conns PROVE ConnOK(d)'
    <3>1. CASE d = c
      BY <3>1 DEF ConnOK, HTypeOK
    <3>2. CASE d # c
      BY <3>2, SameConn DEF HTypeOK
    <3> QED BY <3>1, <3>2
  <2> QED BY <2>2, <2>4, <2>5, <2>6
<1>2. CASE Poll(c)
  <2> USE <1>2 DEF Poll
  <2> DEFINE t == [op |-> "request", arg |-> c]
  <2>1. Configured' = Configured
    BY SameSetup
  <2>2. HTypeOK' /\ FreshInv'
    BY DEF setup, HTypeOK, ConStates, Tasks, FreshInv
  <2>3. SetupInv'
    BY <2>1 DEF setup, HTypeOK, SetupInv
  <2>4. QueueInv'
    <3>1. queue' = Append(queue, t) /\ queue \in Seq(Tasks) /\ t.op = "request" /\ t.arg = c
      BY DEF HTypeOK
    <3>2. \A i \in DOMAIN queue : queue[i].op = "request" => queue[i].arg \in Conns \ {c}
      BY <3>1 DEF QueueInv, Tasks
    <3>3. /\ \A i \in DOMAIN queue : i \in DOMAIN queue' /\ queue'[i] = queue[i]
          /\ \A i \in DOMAIN queue' : \/ i \in DOMAIN queue
                                      \/ queue'[i] = t /\ i = Len(queue) + 1
          /\ \A i \in DOMAIN queue : i < Len(queue) + 1
      BY <3>1
    <3>4. \A i, j \in DOMAIN queue' :
             queue'[i].op = "request" /\ queue'[j].op = "add" => j < i
      BY <3>1, <3>3 DEF QueueInv
    <3>5. \A i \in DOMAIN queue' : queue'[i].op = "request" => con'[queue'[i].arg] = "queued"
      BY <3>1, <3>2, <3>3 DEF QueueInv, HTypeOK
    <3>6. \A i, j \in DOMAIN queue' :
             queue'[i].op = "request" /\ queue'[i] = queue'[j] => i = j
      BY <3>1, <3>2, <3>3 DEF QueueInv
    <3>7. \A url \in Calls : \/ url \in url_handlers
                             \/ \E i \in DOMAIN queue' : queue'[i] = [op |-> "add", arg |-> url]
      BY <3>3 DEF QueueInv
    <3> QED BY <3>4, <3>5, <3>6, <3>7 DEF QueueInv
  <2>5. ASSUME NEW d \in Conns PROVE ConnOK(d)'
    BY SameConn DEF HTypeOK
  <2> QED BY <2>2, <2>3, <2>4, <2>5
<1>3. CASE Close(c)
  <2> USE <1>3 DEF Close
  <2>1. Configured' = Configured
    BY SameSetup
  <2>2. HTypeOK' /\ FreshInv'
    BY DEF setup, HTypeOK, ConStates, FreshInv
  <2>3. SetupInv'
    BY <2>1 DEF setup, HTypeOK, SetupInv
  <2>4. QueueInv'
    BY DEF QueueInv, HTypeOK, Tasks
  <2>5. ASSUME NEW d \in Conns PROVE ConnOK(d)'
    BY SameConn DEF HTypeOK
  <2> QED BY <2>2, <2>3, <2>4, <2>5
<1> QED BY <1>1, <1>2, <1>3

(***************************************************************************)
(* A task leaves the queue.  A request that is at its head has no          *)
(* registration behind it, so that all calls are registered by then.       *)
(***************************************************************************)
LEMMA TakeTask ==
    ASSUME HTypeOK, QueueInv, NEW op \in {"add", "request"}, NextTask(op)
    PROVE  /\ Head(queue) \in Tasks /\ Head(queue).op = op /\ Head(queue) = queue[1]
           /\ queue' \in Seq(Tasks)
           /\ Len(queue') = Len(queue) - 1
           /\ \A i \in DOMAIN queue' : i + 1 \in DOMAIN queue /\ queue'[i] = queue[i + 1]
           /\ op = "request" => Calls \subseteq url_handlers
<1>1. /\ queue \in Seq(Tasks) /\ queue # <<>> /\ queue' = Tail(queue)
      /\ Head(queue).op = op /\ phase = "running"
  BY DEF NextTask, HTypeOK
<1>2. 1 \in DOMAIN queue /\ Head(queue) = queue[1] /\ queue[1] \in Tasks
  BY <1>1
<1>3. ASSUME op = "request" PROVE Calls \subseteq url_handlers
  <2>1. \A j \in DOMAIN queue : queue[j].op # "add"
    BY <1>1, <1>2, <1>3 DEF QueueInv
  <2> QED BY <1>1, <2>1 DEF QueueInv
<1> QED BY <1>1, <1>2, <1>3

(* What the io_service runs. *)
LEMMA RunHInv ==
    ASSUME HInv, RunAdd \/ RunRequest
    PROVE  HInv'
<1> USE DEF HInv
<1>1. CASE RunAdd
  <2> USE <1>1 DEF RunAdd
  <2>1. Configured' = Configured
    BY SameSetup
  <2>2. /\ Head(queue) \in Tasks /\ Head(queue).op = "add" /\ Head(queue) = queue[1]
        /\ queue' \in Seq(Tasks) /\ Len(queue') = Len(queue) - 1
        /\ \A i \in DOMAIN queue' : i + 1 \in DOMAIN queue /\ queue'[i] = queue[i + 1]
    BY TakeTask
  <2>3. HTypeOK' /\ FreshInv' /\ SetupInv'
    BY <2>1, <2>2 DEF setup, HTypeOK, Tasks, FreshInv, SetupInv
  <2>4. ASSUME NEW url \in Calls
        PROVE  \/ url \in url_handlers'
               \/ \E i \in DOMAIN queue' : queue'[i] = [op |-> "add", arg |-> url]
    <3>1. CASE url \in url_handlers
      BY <3>1
    <3>2. ASSUME NEW i \in DOMAIN queue, queue[i] = [op |-> "add", arg |-> url], i # 1
          PROVE  i - 1 \in DOMAIN queue' /\ queue'[i - 1] = queue[i]
      BY <2>2, <3>2 DEF HTypeOK
    <3>3. phase = "running"
      BY DEF NextTask
    <3> QED BY <2>2, <3>1, <3>2, <3>3 DEF QueueInv
  <2>5. QueueInv'
    BY <2>2, <2>4 DEF QueueInv, NextTask, HTypeOK
  <2>6. ASSUME NEW d \in Conns PROVE ConnOK(d)'
    BY SameConn
  <2> QED BY <2>3, <2>5, <2>6
<1>2. CASE RunRequest
  <2> USE <1>2 DEF RunRequest
  <2>1. Configured' = Configured
    BY SameSetup
  <2>2. /\ Head(queue) \in Tasks /\ Head(queue).op = "request" /\ Head(queue) = queue[1]
        /\ queue' \in Seq(Tasks) /\ Len(queue') = Len(queue) - 1
        /\ \A i \in DOMAIN queue' : i + 1 \in DOMAIN queue /\ queue'[i] = queue[i + 1]
        /\ Calls \subseteq url_handlers
    BY TakeTask
  <2>3. /\ Len(queue) \in Nat /\ DOMAIN queue = 1 .. Len(queue) /\ 1 \in DOMAIN queue
        /\ Head(queue).arg \in Conns
    BY <2>2 DEF Tasks, NextTask, HTypeOK
  <2> PICK c \in Conns : c = Head(queue).arg
    BY <2>3
  <2>4. con[c] = "queued" /\ status[c] = 0 /\ sent[c] = 0
    BY <2>2, <2>3 DEF QueueInv, FreshInv
  <2>5. /\ ConnOK(c)'
        /\ con'[c] \in {"answered", "deferred"}
        /\ \A d \in Conns \ {c} : con'[d] = con[d] /\ status'[d] = status[d]
                                                   /\ sent'[d] = sent[d]
        /\ con' \in [Conns -> ConStates]
        /\ status' \in [Conns -> Nat] /\ sent' \in [Conns -> Nat]
    BY <2>2, <2>3, <2>4, HandleOK DEF HInv
  <2>6. HTypeOK' /\ FreshInv'
    BY <2>2, <2>3, <2>5 DEF setup, HTypeOK, FreshInv
  <2>7. SetupInv'
    BY <2>1, <2>4, <2>5 DEF setup, SetupInv, NextTask
  <2>8. QueueInv'
    <3>1. ASSUME NEW i \in DOMAIN queue', queue'[i].op = "request"
          PROVE  queue'[i].arg \in Conns \ {c}
      <4>1. queue'[i] = queue[i + 1] /\ i + 1 # 1 /\ i + 1 \in DOMAIN queue /\ queue'[i] \in Tasks
        BY <2>2, <2>3
      <4>2. queue'[i] # queue[1]
        BY <2>2, <2>3, <3>1, <4>1 DEF QueueInv
      <4> QED BY <2>2, <3>1, <4>1, <4>2 DEF Tasks
    <3>2. \A i \in DOMAIN queue' : queue'[i].op = "request" => con'[queue'[i].arg] = "queued"
      BY <2>2, <2>5, <3>1 DEF QueueInv
    <3>3. DOMAIN queue' \subseteq Nat
      BY <2>2
    <3>4. \A i, j \in DOMAIN queue' :
             queue'[i].op = "request" /\ queue'[j].op = "add" => j < i
      BY <2>2, <3>3 DEF QueueInv
    <3>5. \A i, j \in DOMAIN queue' :
             queue'[i].op = "request" /\ queue'[i] = queue'[j] => i = j
      BY <2>2, <3>3 DEF QueueInv
    <3> QED BY <2>2, <3>2, <3>4, <3>5 DEF QueueInv, NextTask
  <2>9. ASSUME NEW d \in Conns PROVE ConnOK(d)'
    BY <2>5, SameConn
  <2> QED BY <2>6, <2>7, <2>8, <2>9
<1> QED BY <1>1, <1>2

(* Every step keeps the invariant. *)
LEMMA NextHInv == HInv /\ [HNext]_hvars => HInv'
<1> SUFFICES ASSUME HInv, [HNext]_hvars PROVE HInv'
  OBVIOUS
<1>1. CASE UNCHANGED hvars
  <2>1. Configured' = Configured
    BY <1>1, SameSetup DEF hvars
  <2>2. HTypeOK' /\ FreshInv' /\ SetupInv'
    BY <1>1, <2>1 DEF HInv, hvars, setup, HTypeOK, FreshInv, SetupInv
  <2>3. QueueInv'
    BY <1>1 DEF HInv, hvars, QueueInv
  <2>4. ASSUME NEW c \in Conns PROVE ConnOK(c)'
    BY <1>1, SameConn DEF HInv, hvars
  <2> QED BY <2>2, <2>3, <2>4 DEF HInv
<1>2. StartThrows \/ Quit \/ ExecReturns => Stop /\ phase # "initialize"
  BY DEF StartThrows, Quit, ExecReturns
<1> QED BY <1>1, <1>2, StartupHInv, StopHInv, ClientHInv, RunHInv DEF HNext

(* The invariant holds of every state of every behaviour. *)
THEOREM ServerInvariant == HSpec => []HInv
<1>1. HInit => HInv
  BY InitHInv
<1>2. HInv /\ [HNext]_hvars => HInv'
  BY NextHInv
<1> QED BY <1>1, <1>2, PTL DEF HSpec

(***************************************************************************)
(* A client is never answered 404 for a call of the API, however early it  *)
(* connects: add_handler's registrations are queued before its request.    *)
(***************************************************************************)
THEOREM RegisteredAlwaysFound == HSpec => []RegisteredIsFound
<1>1. HInv => RegisteredIsFound
  BY ConnProperties DEF HInv
<1> QED BY <1>1, ServerInvariant, PTL

(* allow_host never refuses a request that names the server it came to. *)
THEOREM OwnAddressAlwaysServed == HSpec => []OwnAddressServed
<1>1. HInv => OwnAddressServed
  BY ConnProperties DEF HInv
<1> QED BY <1>1, ServerInvariant, PTL

(***************************************************************************)
(* With validation on, allow_host lets only hosts through that are         *)
(* configured with a port.                                                 *)
(***************************************************************************)
THEOREM StrangerAlwaysRefused == HSpec => []StrangerRefused
<1>1. HInv => StrangerRefused
  BY ConnProperties DEF HInv
<1> QED BY <1>1, ServerInvariant, PTL

(* The limit of the options, or zero after the early return, is applied. *)
THEOREM LimitAlwaysApplied == HSpec => []LimitApplied
<1>1. HInv => LimitApplied
  BY ConnProperties DEF HInv
<1> QED BY <1>1, ServerInvariant, PTL

(***************************************************************************)
(* handle_http_request and the lambdas of CALL and CALL_ASYNC answer every *)
(* request exactly once, except the read_write calls that do not parse.    *)
(***************************************************************************)
THEOREM UnansweredAlwaysExact == HSpec => []UnansweredExactly
<1>1. HInv => UnansweredExactly
  BY ConnProperties DEF HInv
<1> QED BY <1>1, ServerInvariant, PTL
=============================================================================
