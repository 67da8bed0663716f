----------------------------- MODULE HttpServer -----------------------------
(***************************************************************************)
(* http_plugin and chain_api_plugin: from the options to the servers, and  *)
(* then on the application's io_service, the one thread that registers     *)
(* handlers, reads requests and runs handlers.                             *)
(*                                                                         *)
(* websocketpp is external: a body over the limit is answered 413; else    *)
(* the http handler runs when a request has been read; when it returns,    *)
(* the response is written unless the handler asked to defer it, in which  *)
(* case only send_http_response writes it.  One request per connection.    *)
(***************************************************************************)
EXTENDS Naturals, Sequences

CONSTANTS
    Conns,        \* client connections
    ReadCalls,    \* URLs registered with CALL (the read_only API)
    WriteCalls,   \* URLs registered with CALL_ASYNC (the read_write API)
    OtherUrls,    \* URLs nobody registers
    Options,      \* the options the program may be given
    Requests,     \* the requests clients may send
    LocalName     \* the address of the interface that is listened on

ASSUME CallsAssumption ==
    /\ ReadCalls \cap WriteCalls = {}
    /\ OtherUrls \cap (ReadCalls \cup WriteCalls) = {}

Calls == ReadCalls \cup WriteCalls

(***************************************************************************)
(* A host, in an option or in a Host header, is a name and a port, "none"  *)
(* where none is written.  An address to listen on may name its port by a  *)
(* service: number is what it stands for.                                  *)
(***************************************************************************)
NoHost == [name |-> "none", port |-> "none"]

NoAddress == [name |-> "none", port |-> "none", number |-> "none", resolves |-> FALSE]

(* The options: the three servers, the files of https, and the checks. *)
ASSUME OptionsAssumption ==
    /\ LocalName \in STRING \ {"none"}
    /\ \A o \in Options :
        /\ {o.http, o.https} \subseteq [name : STRING, port : STRING, number : STRING,
                                        resolves : BOOLEAN]
        /\ \A a \in {o.http, o.https} : a.resolves => a.name # "none"
        /\ {o.unix, o.files, o.validate} \subseteq BOOLEAN
        /\ o.aliases \subseteq [name : STRING, port : STRING]
        /\ o.limit \in Nat

(***************************************************************************)
(* A request: the server it is sent to, its Host header, its method, its   *)
(* URL, the size of its body, and the body: one the handler can parse and  *)
(* serve, one it can parse and refuses with an exception, one on which the *)
(* parser runs into the end (fc::eof_exception), or one that otherwise     *)
(* does not parse.                                                         *)
(***************************************************************************)
Servers == {"http", "unix", "https"}

Bodies == {"good", "refused", "truncated", "malformed"}

ASSUME RequestsAssumption ==
    \A r \in Requests :
        /\ r.server \in Servers
        /\ r.host \in [name : STRING, port : STRING]
        /\ r.method \in {"POST", "OPTIONS"}
        /\ r.url \in Calls \cup OtherUrls
        /\ r.body \in Bodies
        /\ r.size \in Nat

NoRequest ==
    [server |-> "none", host |-> NoHost, method |-> "none", url |-> "none",
     body |-> "none", size |-> 0]

VARIABLES
    options,        \* what plugin_initialize is given
    endpoints,      \* the servers that are configured
    valid_hosts,    \* http_plugin_impl::valid_hosts
    max_body_size,  \* http_plugin_impl::max_body_size
    servers,        \* the servers that listen
    phase,          \* where the main thread is
    queue,          \* the io_service's queue of completion handlers
    url_handlers,   \* http_plugin_impl::url_handlers, its keys
    con,            \* each connection: closed, sent, queued, deferred, answered or reset
    req,            \* its request
    status,         \* the status set on it, 0 before
    sent            \* history: how often its response was sent

setup == <<options, endpoints, valid_hosts, max_body_size>>

hvars == <<setup, servers, phase, queue, url_handlers, con, req, status, sent>>

(* new http_plugin_impl() sets what has no initializer to zero. *)
HInit ==
    /\ options \in Options
    /\ endpoints = {}
    /\ valid_hosts = {}
    /\ max_body_size = 0
    /\ servers = {}
    /\ phase = "initialize"
    /\ queue = <<>>
    /\ url_handlers = {}
    /\ con = [c \in Conns |-> "closed"]
    /\ req = [c \in Conns |-> NoRequest]
    /\ status = [c \in Conns |-> 0]
    /\ sent = [c \in Conns |-> 0]

-----------------------------------------------------------------------------
(***************************************************************************)
(* plugin_initialize.  An address that does not resolve is only logged; an *)
(* https address without certificate or key ends the function early.       *)
(***************************************************************************)
Given(address) == address # NoAddress

(* Variant: the files are asked for whether or not there is an address. *)
ReturnsEarly_Always == ~ options.files

ReturnsEarly == Given(options.https) /\ ~ options.files

(* Variant: a port that is named by its service is not added by number. *)
Aliases_AsWritten(address) == {[name |-> address.name, port |-> address.port]}

(* add_aliases_for_endpoint: the port as written and as resolved. *)
Aliases(address) ==
    {[name |-> address.name, port |-> p] : p \in {address.port, address.number}}

(* The addresses that are looked at. *)
Addresses == {options.http} \cup (IF ReturnsEarly THEN {} ELSE {options.https})

Resolved(address) == address \in Addresses /\ address.resolves

(* lipstr.substr throws for an address without a colon. *)
NoColon == \E a \in Addresses : Given(a) /\ a.port = "none"

InitializeThrows ==
    /\ phase = "initialize"
    /\ NoColon
    /\ phase' = "stopped"
    /\ UNCHANGED <<setup, servers, queue, url_handlers, con, req, status, sent>>

Initialize ==
    /\ phase = "initialize"
    /\ ~ NoColon
    /\ phase' = "starting"
    /\ endpoints' = {s \in Servers :
                        \/ s = "unix" /\ options.unix
                        \/ s # "unix" /\ Resolved(options[s])}
    /\ valid_hosts' = options.aliases \cup
                      UNION {Aliases(a) : a \in {a \in Addresses : a.resolves}}
    /\ max_body_size' = IF ReturnsEarly THEN max_body_size ELSE options.limit
    /\ UNCHANGED <<options, servers, queue, url_handlers, con, req, status, sent>>

(***************************************************************************)
(* http_plugin::plugin_startup: the http, the unix and the https server,   *)
(* in this order.  From here on clients may connect, although nothing is   *)
(* read before exec.  A server that cannot listen ends the program.        *)
(***************************************************************************)
Earlier(s) == CASE s = "http" -> {} [] s = "unix" -> {"http"} [] OTHER -> {"http", "unix"}

StartServer(s) ==
    /\ phase = "starting"
    /\ s \in endpoints \ servers
    /\ Earlier(s) \cap endpoints \subseteq servers
    /\ servers' = servers \cup {s}
    /\ UNCHANGED <<setup, phase, queue, url_handlers, con, req, status, sent>>

(* The sockets are closed, and what is queued is never run. *)
Stop ==
    /\ phase' = "stopped"
    /\ queue' = <<>>
    /\ con' = [c \in Conns |-> IF con[c] \in {"sent", "queued", "deferred"}
                               THEN "reset" ELSE con[c]]
    /\ servers' = {}
    /\ UNCHANGED <<setup, url_handlers, req, status, sent>>

StartThrows ==
    /\ phase = "starting"
    /\ endpoints # servers
    /\ Stop

HttpStarted ==
    /\ phase = "starting"
    /\ endpoints = servers
    /\ phase' = "listening"
    /\ UNCHANGED <<setup, servers, queue, url_handlers, con, req, status, sent>>

(***************************************************************************)
(* chain_api_plugin::plugin_startup: add_api calls add_handler for every   *)
(* URL, which posts the registration to the io_service.                    *)
(***************************************************************************)
Posted == {queue[i].arg : i \in DOMAIN queue}

AddHandler(url) ==
    /\ phase = "listening"
    /\ url \in Calls \ Posted
    /\ queue' = Append(queue, [op |-> "add", arg |-> url])
    /\ UNCHANGED <<setup, servers, phase, url_handlers, con, req, status, sent>>

(* Variant: requests are served before the API plugin has registered. *)
Exec_BeforeApi ==
    /\ phase = "listening"
    /\ phase' = "running"
    /\ UNCHANGED <<setup, servers, queue, url_handlers, con, req, status, sent>>

(* application::exec, once every plugin has started. *)
Exec ==
    /\ phase = "listening"
    /\ Calls \subseteq Posted
    /\ phase' = "running"
    /\ UNCHANGED <<setup, servers, queue, url_handlers, con, req, status, sent>>

(* quit() stops the io_service between two handlers. *)
Quit ==
    /\ phase = "running"
    /\ Stop

(* Without a server there is nothing to wait for: run() returns. *)
ExecReturns ==
    /\ phase = "running"
    /\ queue = <<>>
    /\ servers = {}
    /\ Stop

-----------------------------------------------------------------------------
(***************************************************************************)
(* Clients.                                                                *)
(***************************************************************************)
Send(c, r) ==
    /\ r.server \in servers
    /\ con[c] = "closed"
    /\ con' = [con EXCEPT ![c] = "sent"]
    /\ req' = [req EXCEPT ![c] = r]
    /\ status' = [status EXCEPT ![c] = 0]
    /\ sent' = [sent EXCEPT ![c] = 0]
    /\ UNCHANGED <<setup, servers, phase, queue, url_handlers>>

(* The reactor sees the request: its handler is queued behind the others. *)
Poll(c) ==
    /\ phase = "running"
    /\ con[c] = "sent"
    /\ con' = [con EXCEPT ![c] = "queued"]
    /\ queue' = Append(queue, [op |-> "request", arg |-> c])
    /\ UNCHANGED <<setup, servers, phase, url_handlers, req, status, sent>>

(* The client has its response and closes. *)
Close(c) ==
    /\ con[c] = "answered"
    /\ con' = [con EXCEPT ![c] = "closed"]
    /\ UNCHANGED <<setup, servers, phase, queue, url_handlers, req, status, sent>>

-----------------------------------------------------------------------------
(***************************************************************************)
(* The io_service thread.                                                  *)
(***************************************************************************)
NextTask(op) ==
    /\ phase = "running"
    /\ queue # <<>>
    /\ Head(queue).op = op
    /\ queue' = Tail(queue)

RunAdd ==
    /\ NextTask("add")
    /\ url_handlers' = url_handlers \cup {Head(queue).arg}
    /\ UNCHANGED <<setup, servers, phase, con, req, status, sent>>

(* The response is written: on return if not deferred, else by the callback. *)
Answer(c, code) ==
    /\ status' = [status EXCEPT ![c] = code]
    /\ con' = [con EXCEPT ![c] = "answered"]
    /\ sent' = [sent EXCEPT ![c] = @ + 1]

(* The response was deferred and the handler left without the callback. *)
LeaveDeferred(c, code) ==
    /\ status' = [status EXCEPT ![c] = code]
    /\ con' = [con EXCEPT ![c] = "deferred"]
    /\ UNCHANGED sent

(***************************************************************************)
(* host_is_valid: the header, with the default port of the server if it    *)
(* has none, is the address of the socket or one of valid_hosts.           *)
(***************************************************************************)
Local(server) == [name |-> LocalName, port |-> options[server].number]

DefaultPort(server) == IF server = "https" THEN "443" ELSE "80"

WithPort(host, server) ==
    [name |-> host.name,
     port |-> IF host.port = "none" THEN DefaultPort(server) ELSE host.port]

HostIsValid(host, server) ==
    \/ ~ options.validate
    \/ WithPort(host, server) \in valid_hosts \cup {Local(server)}

(* Variant: a request without a Host header is let through. *)
AllowHost_NoHeader(r) ==
    r.server # "unix" => r.host = NoHost \/ HostIsValid(r.host, r.server)

AllowHost(r) ==
    r.server # "unix" => r.host # NoHost /\ HostIsValid(r.host, r.server)

(* websocketpp refuses the body before any handler sees the request. *)
TooLarge(c) ==
    /\ req[c].size > max_body_size
    /\ Answer(c, 413)

(***************************************************************************)
(* handle_http_request: the early returns, then the lookup of the handler. *)
(***************************************************************************)
Reaches(c) == req[c].size <= max_body_size /\ AllowHost(req[c])

RejectHost(c) ==
    /\ req[c].size <= max_body_size
    /\ ~ AllowHost(req[c])
    /\ Answer(c, 400)

OptionsRequest(c) ==
    /\ Reaches(c)
    /\ req[c].method = "OPTIONS"
    /\ Answer(c, 200)

LookedUp(c) == Reaches(c) /\ req[c].method # "OPTIONS"

NotFound(c) ==
    /\ LookedUp(c)
    /\ req[c].url \notin url_handlers
    /\ Answer(c, 404)

Found(c, urls) == LookedUp(c) /\ req[c].url \in url_handlers \cap urls

(***************************************************************************)
(* The lambda of CALL: arguments are parsed inside its try block, and      *)
(* whatever is thrown reaches http_plugin::handle_exception, which calls   *)
(* back with 422 for input that ends too early and 500 for the rest.       *)
(***************************************************************************)
CallReturns(c) ==
    /\ Found(c, ReadCalls)
    /\ req[c].body = "good"
    /\ Answer(c, 200)

CallThrows(c) ==
    /\ Found(c, ReadCalls)
    /\ req[c].body # "good"
    /\ Answer(c, IF req[c].body = "truncated" THEN 422 ELSE 500)

(***************************************************************************)
(* The lambda of CALL_ASYNC.  What the call itself throws is passed to     *)
(* next and answered; but arguments are parsed before the call, outside of *)
(* any try block, so what the parser throws leaves the lambda for the      *)
(* catch of handle_http_request, which sets a status on the connection.    *)
(***************************************************************************)
AsyncReturns(c) ==
    /\ Found(c, WriteCalls)
    /\ req[c].body = "good"
    /\ Answer(c, 202)

(* Variant: the exception of the call is not passed to next. *)
AsyncRefuses_NoNext(c) ==
    /\ Found(c, WriteCalls)
    /\ req[c].body = "refused"
    /\ LeaveDeferred(c, 500)

AsyncRefuses(c) ==
    /\ Found(c, WriteCalls)
    /\ req[c].body = "refused"
    /\ Answer(c, 500)

AsyncParseThrows(c) ==
    /\ Found(c, WriteCalls)
    /\ req[c].body \in {"truncated", "malformed"}
    /\ LeaveDeferred(c, 500)

HandleHttpRequest(c) ==
    \/ TooLarge(c)
    \/ RejectHost(c)
    \/ OptionsRequest(c)
    \/ NotFound(c)
    \/ CallReturns(c)
    \/ CallThrows(c)
    \/ AsyncReturns(c)
    \/ AsyncRefuses(c)
    \/ AsyncParseThrows(c)

RunRequest ==
    /\ NextTask("request")
    /\ HandleHttpRequest(Head(queue).arg)
    /\ UNCHANGED <<setup, servers, phase, url_handlers, req>>

Run == RunAdd \/ RunRequest

MainStep ==
    \/ InitializeThrows \/ Initialize
    \/ \E s \in Servers : StartServer(s)
    \/ StartThrows \/ HttpStarted
    \/ \E url \in Calls : AddHandler(url)
    \/ Exec

HNext ==
    \/ InitializeThrows
    \/ Initialize
    \/ \E s \in Servers : StartServer(s)
    \/ StartThrows
    \/ HttpStarted
    \/ \E url \in Calls : AddHandler(url)
    \/ Exec
    \/ Quit
    \/ ExecReturns
    \/ \E c \in Conns : (\E r \in Requests : Send(c, r)) \/ Poll(c) \/ Close(c)
    \/ RunAdd
    \/ RunRequest

(***************************************************************************)
(* The main thread goes through its startup, the reactor reports every     *)
(* readable socket and the io_service runs what is queued.  Nothing makes  *)
(* clients send or close, or anyone quit.                                  *)
(***************************************************************************)
HFairness ==
    /\ WF_hvars(MainStep)
    /\ WF_hvars(Run)
    /\ \A c \in Conns : WF_hvars(Poll(c))

HSpec == HInit /\ [][HNext]_hvars /\ HFairness
-----------------------------------------------------------------------------
(***************************************************************************)
(* Properties.                                                             *)
(***************************************************************************)

(***************************************************************************)
(* A client that connects as soon as the socket is open, before the API is *)
(* registered, is never told that a registered call does not exist: the    *)
(* registrations are queued before its request is.                         *)
(***************************************************************************)
RegisteredIsFound ==
    \A c \in Conns : status[c] = 404 => req[c].url \in OtherUrls

(***************************************************************************)
(* A client is never refused for a Host header that names the server it    *)
(* is connected to: by the configured name or the address of the socket,   *)
(* with the port, or without it if it is the default one of that server;   *)
(* also when the port was configured by a service name.                    *)
(***************************************************************************)
Own(r) ==
    LET a == options[r.server]
    IN  /\ r.host.name \in {a.name, LocalName}
        /\ WithPort(r.host, r.server).port = a.number

OwnAddressServed ==
    \A c \in Conns :
        status[c] = 400 /\ con[c] = "answered" /\ req[c].server # "unix" => ~ Own(req[c])

(***************************************************************************)
(* With validation on, a TCP server handles no request whose Host is       *)
(* missing or names nothing that was configured with a port: a page of     *)
(* another site that resolves its own name to the node gets nowhere.  (An  *)
(* alias written without a port admits nobody.)                            *)
(***************************************************************************)
ConfiguredNames ==
    {LocalName, options.http.name, options.https.name}
        \cup {h.name : h \in {h \in options.aliases : h.port # "none"}}

StrangerRefused ==
    \A c \in Conns :
        /\ con[c] \in {"answered", "deferred"}
        /\ status[c] \notin {400, 413}
        /\ req[c].server # "unix"
        /\ options.validate
        => req[c].host # NoHost /\ req[c].host.name \in ConfiguredNames

(***************************************************************************)
(* A body is refused for its size only beyond the configured limit, and    *)
(* always then, except after an early return of plugin_initialize: then    *)
(* the limit was never set, and every request with a body is refused.      *)
(***************************************************************************)
LimitApplied ==
    \A c \in Conns :
        con[c] \in {"answered", "deferred"} =>
            (status[c] = 413 <=>
                req[c].size > IF Given(options.https) /\ ~ options.files
                              THEN 0 ELSE options.limit)

(***************************************************************************)
(* The connections left without a response are exactly those that sent a   *)
(* read_write call arguments that do not parse; every other path through   *)
(* handle_http_request, CALL and CALL_ASYNC answers, and answers once.     *)
(***************************************************************************)
UnansweredExactly ==
    \A c \in Conns :
        con[c] \in {"answered", "deferred"} =>
            /\ con[c] = "deferred" <=>
                  /\ Reaches(c) /\ req[c].method = "POST"
                  /\ req[c].url \in WriteCalls
                  /\ req[c].body \in {"truncated", "malformed"}
            /\ con[c] = "answered" <=> sent[c] = 1

(***************************************************************************)
(* Every request whose arguments parse, and every request to the read_only *)
(* API, is eventually answered, however many others are queued, unless the *)
(* node stops.                                                             *)
(***************************************************************************)
Parses(c) ==
    req[c].url \in WriteCalls => req[c].body \in {"good", "refused"}

ParsedAnswered ==
    \A c \in Conns :
        con[c] = "sent" /\ Parses(c) ~> con[c] \in {"answered", "reset"}

(***************************************************************************)
(* What http_plugin.hpp demands of every handler: its response callback is *)
(* called, so that every request is answered unless the node stops.        *)
(***************************************************************************)
EveryRequestAnswered ==
    \A c \in Conns : con[c] = "sent" ~> con[c] \in {"answered", "reset"}
=============================================================================
