---------------------------- MODULE MCHttpServer ----------------------------
(***************************************************************************)
(* HttpServer for TLC: one call of each API, one unknown URL, programs     *)
(* whose options take each path of plugin_initialize, and every kind of    *)
(* request that takes a path of its own through the server.                *)
(***************************************************************************)
EXTENDS HttpServer

Address(name, port, number) ==
    [name |-> name, port |-> port, number |-> number, resolves |-> TRUE]

Host(name, port) == [name |-> name, port |-> port]

(* nodeos as it comes, but with aliases, one of them without a port. *)
Plain ==
    [http |-> Address("node", "8888", "8888"), unix |-> FALSE,
     https |-> NoAddress, files |-> FALSE, validate |-> TRUE, limit |-> 1,
     aliases |-> {Host("alias", "8888"), Host("bare", "none")}]

MCOptions ==
    {Plain,
     [Plain EXCEPT !.http = Address("node", "http", "80"), !.unix = TRUE],
     [Plain EXCEPT !.https = Address("node", "443", "443")],
     [Plain EXCEPT !.https = Address("node", "443", "443"), !.files = TRUE,
                   !.http = [@ EXCEPT !.resolves = FALSE]],
     [Plain EXCEPT !.http = NoAddress],
     [Plain EXCEPT !.http = Address("node", "none", "none")],
     [Plain EXCEPT !.validate = FALSE]}

(* nodeos with nothing else. *)
MCPlain == {Plain}

Post(servs, hosts, urls, bodies) ==
    [server : servs, host : hosts, method : {"POST"}, url : urls, body : bodies,
     size : {1}]

TCP == {"http", "https"}

MCRequests ==
    Post({"http"}, {Host(LocalName, "8888")}, Calls, Bodies)
        \cup Post({"unix"}, {NoHost}, Calls, {"good", "malformed"})
        \cup Post(TCP, {NoHost} \cup [name : {"node", "bare", "stranger", "alias"},
                                      port : {"none", "80", "8888"}],
                  ReadCalls, {"good"})
        \cup {[r EXCEPT !.size = n] : n \in {0, 2},
                 r \in Post({"http"}, {Host("node", "8888")}, ReadCalls, {"good"})}
        \cup {[r EXCEPT !.method = "OPTIONS"] :
                 r \in Post({"http"}, {Host("node", "8888")}, WriteCalls, {"malformed"})}
        \cup Post({"http"}, {Host("node", "8888")}, OtherUrls, {"good"})
=============================================================================
