------------------------------ MODULE Forwarding ------------------------------
(***************************************************************************)
(* How a connection is passed to the daemon (internal/proxy/http.go):      *)
(* forwardHTTPConn for a request and its answer, and for hijacked streams; *)
(* tunnelUpgrade and tunnelRaw for everything else.  A tunnel is two       *)
(* copies.  The handler copies from the daemon and returns, closing both   *)
(* connections, when that copy ends.  A goroutine copies from the client   *)
(* and, when that copy ends, closes the connection to the daemon, so that  *)
(* the handler's ends too (copyToThenClose).                               *)
(*                                                                         *)
(* What is copied is counted in pieces.  Of the peers is known how far     *)
(* they have closed: a client may close for writing only and go on         *)
(* reading.                                                                *)
(***************************************************************************)
EXTENDS Naturals

CONSTANTS
    Conns,       \* connections of clients
    MaxPieces    \* bound: pieces sent in one direction

ASSUME ForwardingAssumption == MaxPieces \in Nat

VARIABLES
    fwd,         \* where the handler of a connection is
    way,         \* how it forwards
    copier,      \* the goroutine that copies from the client
    backend,     \* the proxy holds the connection to the daemon
    accepted,    \* the proxy holds the connection to the client
    client,      \* the client: "open", "half" (it only reads), "gone"
    daemon,      \* the daemon: "open", "gone"
    asked, put,  \* pieces the copy has to pass on to the daemon, and has
    told, got    \* pieces the daemon has sent, and the client been given

Ways == {"request", "hijack", "tunnel"}
fwdVars == <<fwd, way, copier, backend, accepted, client, daemon, asked, put, told, got>>
peers == <<client, daemon, asked, told>>

FwdInit ==
    /\ fwd = [c \in Conns |-> "none"]
    /\ way = [c \in Conns |-> "request"]
    /\ copier = [c \in Conns |-> "none"]
    /\ backend = [c \in Conns |-> FALSE]
    /\ accepted = [c \in Conns |-> TRUE]
    /\ client = [c \in Conns |-> "open"]
    /\ daemon = [c \in Conns |-> "open"]
    /\ asked = [c \in Conns |-> 0]
    /\ put = [c \in Conns |-> 0]
    /\ told = [c \in Conns |-> 0]
    /\ got = [c \in Conns |-> 0]

\* The handler returns: its deferred calls close the connection to the
\* daemon, and ServeConn's the one to the client.
Closed(c) ==
    /\ fwd' = [fwd EXCEPT ![c] = "returned"]
    /\ backend' = [backend EXCEPT ![c] = FALSE]
    /\ accepted' = [accepted EXCEPT ![c] = FALSE]

Dial(c, w) ==
    /\ fwd[c] = "none"
    /\ fwd' = [fwd EXCEPT ![c] = "write"]
    /\ way' = [way EXCEPT ![c] = w]
    /\ backend' = [backend EXCEPT ![c] = TRUE]
    /\ UNCHANGED <<copier, accepted, put, got, peers>>

\* The daemon cannot be reached: the connection is closed without an answer.
DialFails(c) ==
    /\ fwd[c] = "none"
    /\ Closed(c)
    /\ UNCHANGED <<way, copier, put, got, peers>>

WriteRequest(c) ==
    /\ fwd[c] = "write" /\ way[c] # "tunnel"
    /\ fwd' = [fwd EXCEPT ![c] = "await"]
    /\ UNCHANGED <<way, copier, backend, accepted, put, got, peers>>

\* The goroutine copies what the reader of ServeConn holds, and then what
\* the client sends.  tunnelRaw has written to the daemon what was peeked,
\* which the reader still holds: the copy gives it a second time.
StartTunnel(c) ==
    /\ fwd[c] = "write" /\ way[c] = "tunnel"
    /\ fwd' = [fwd EXCEPT ![c] = "copy"]
    /\ copier' = [copier EXCEPT ![c] = "copy"]
    /\ \E held \in 0..MaxPieces : asked' = [asked EXCEPT ![c] = held]
    /\ UNCHANGED <<way, backend, accepted, put, got, client, daemon, told>>

\* The request cannot be written, its answer not be read, or not be passed on.
ForwardFails(c) ==
    /\ fwd[c] \in {"write", "await"}
    /\ Closed(c)
    /\ UNCHANGED <<way, copier, put, got, peers>>

\* An answer that ends, or a 101 after which the connection is a tunnel.
Answered(c) ==
    /\ fwd[c] = "await"
    /\ Closed(c)
    /\ UNCHANGED <<way, copier, put, got, peers>>

Switched(c) ==
    /\ fwd[c] = "await" /\ way[c] = "hijack"
    /\ fwd' = [fwd EXCEPT ![c] = "copy"]
    /\ way' = [way EXCEPT ![c] = "tunnel"]
    /\ copier' = [copier EXCEPT ![c] = "copy"]
    /\ UNCHANGED <<backend, accepted, put, got, peers>>

-----------------------------------------------------------------------------
(* The two copies.                                                         *)

CopyUp(c) ==
    /\ copier[c] = "copy" /\ accepted[c] /\ backend[c]
    /\ put[c] < asked[c] /\ daemon[c] = "open"
    /\ put' = [put EXCEPT ![c] = @ + 1]
    /\ UNCHANGED <<fwd, way, copier, backend, accepted, got, peers>>

UpEnds(c) == \/ ~accepted[c]
             \/ put[c] = asked[c] /\ client[c] # "open"
             \/ put[c] < asked[c] /\ (~backend[c] \/ daemon[c] = "gone")

\* Bug: io.Copy alone.
CopierEndsOpen(c) ==
    /\ copier[c] = "copy" /\ UpEnds(c)
    /\ copier' = [copier EXCEPT ![c] = "ended"]
    /\ UNCHANGED <<fwd, way, backend, accepted, put, got, peers>>

\* copyToThenClose, its copy over.
CopierEnds(c) ==
    /\ copier[c] = "copy" /\ UpEnds(c)
    /\ copier' = [copier EXCEPT ![c] = "ended"]
    /\ backend' = [backend EXCEPT ![c] = FALSE]
    /\ UNCHANGED <<fwd, way, accepted, put, got, peers>>

\* Bug: a piece is passed on twice.
CopyDownTwice(c) ==
    /\ fwd[c] = "copy" /\ backend[c]
    /\ got[c] < told[c] /\ client[c] # "gone"
    /\ got' = [got EXCEPT ![c] = @ + 2]
    /\ UNCHANGED <<fwd, way, copier, backend, accepted, put, peers>>

CopyDown(c) ==
    /\ fwd[c] = "copy" /\ backend[c]
    /\ got[c] < told[c] /\ client[c] # "gone"
    /\ got' = [got EXCEPT ![c] = @ + 1]
    /\ UNCHANGED <<fwd, way, copier, backend, accepted, put, peers>>

\* Bug: what was read when the daemon closed is dropped.
DownEndsEarly(c) == ~backend[c] \/ daemon[c] = "gone" \/ client[c] = "gone"

DownEnds(c) == \/ ~backend[c]
               \/ got[c] = told[c] /\ daemon[c] = "gone"
               \/ got[c] < told[c] /\ client[c] = "gone"

HandlerEnds(c) ==
    /\ fwd[c] = "copy" /\ DownEnds(c)
    /\ Closed(c)
    /\ UNCHANGED <<way, copier, put, got, peers>>

-----------------------------------------------------------------------------
(* The peers of a tunnel.                                                  *)

Rest == <<fwd, way, copier, backend, accepted, put, got>>

ClientSends(c) ==
    /\ fwd[c] = "copy" /\ client[c] = "open" /\ asked[c] < MaxPieces
    /\ asked' = [asked EXCEPT ![c] = @ + 1]
    /\ UNCHANGED <<client, daemon, told, Rest>>

ClientCloses(c) ==
    /\ fwd[c] = "copy" /\ client[c] # "gone"
    /\ \E how \in {"half", "gone"} : client' = [client EXCEPT ![c] = how]
    /\ UNCHANGED <<daemon, asked, told, Rest>>

DaemonSends(c) ==
    /\ fwd[c] = "copy" /\ backend[c] /\ daemon[c] = "open" /\ told[c] < MaxPieces
    /\ told' = [told EXCEPT ![c] = @ + 1]
    /\ UNCHANGED <<client, daemon, asked, Rest>>

DaemonCloses(c) ==
    /\ fwd[c] = "copy" /\ daemon[c] = "open"
    /\ daemon' = [daemon EXCEPT ![c] = "gone"]
    /\ UNCHANGED <<client, asked, told, Rest>>

-----------------------------------------------------------------------------
\* Of the connections in S nothing is left: both copies are over, or the
\* process has died.
Gone(S) ==
    LET Set(f, v) == [c \in Conns |-> IF c \in S THEN v ELSE f[c]] IN
    /\ fwd' = Set(fwd, "gone") /\ way' = Set(way, "request") /\ copier' = Set(copier, "none")
    /\ backend' = Set(backend, FALSE) /\ accepted' = Set(accepted, FALSE)
    /\ client' = Set(client, "gone") /\ daemon' = Set(daemon, "gone")
    /\ asked' = Set(asked, 0) /\ put' = Set(put, 0) /\ told' = Set(told, 0) /\ got' = Set(got, 0)

Handler(c) == WriteRequest(c) \/ StartTunnel(c) \/ ForwardFails(c)
              \/ Answered(c) \/ Switched(c) \/ CopyDown(c) \/ HandlerEnds(c)
Copier(c) == CopyUp(c) \/ CopierEnds(c)
Peers(c) == ClientSends(c) \/ ClientCloses(c) \/ DaemonSends(c) \/ DaemonCloses(c)

FwdNext ==
    \/ \E c \in Conns :
         (\E w \in Ways : Dial(c, w)) \/ DialFails(c) \/ Handler(c) \/ Copier(c) \/ Peers(c)
    \/ \E S \in SUBSET Conns : Gone(S)

FwdSpec == FwdInit /\ [][FwdNext]_fwdVars

-----------------------------------------------------------------------------
(* Properties.                                                             *)

FwdTypeOK ==
    /\ fwd \in [Conns -> {"none", "write", "await", "copy", "returned", "gone"}]
    /\ way \in [Conns -> Ways]
    /\ copier \in [Conns -> {"none", "copy", "ended"}]
    /\ backend \in [Conns -> BOOLEAN] /\ accepted \in [Conns -> BOOLEAN]
    /\ client \in [Conns -> {"open", "half", "gone"}]
    /\ daemon \in [Conns -> {"open", "gone"}]
    /\ asked \in [Conns -> 0..MaxPieces] /\ put \in [Conns -> 0..MaxPieces]
    /\ told \in [Conns -> 0..MaxPieces] /\ got \in [Conns -> 0..MaxPieces]

Ended(c) == fwd[c] = "returned" /\ copier[c] # "none"

(* A client that has not closed its connection has everything the daemon   *)
(* sent, and the daemon has closed, before the proxy closes a tunnel.      *)
(* Except when the client was still sending: the write that fails then     *)
(* closes the connection to the daemon with what it had not yet been read. *)
TunnelWhole ==
    \A c \in Conns : Ended(c) /\ client[c] = "open" =>
        daemon[c] = "gone" /\ (got[c] = told[c] \/ put[c] < asked[c])

(* "tunneled to the Docker socket untouched" (http.go:116): a client that  *)
(* has only said that it will send no more (docker exec -i, its input at   *)
(* an end) has everything the daemon sent, all the same, before the proxy  *)
(* closes.                                                                 *)
AnswerWhole == \A c \in Conns : Ended(c) /\ client[c] = "half" => got[c] = told[c]

(* A tunnel of which either end hangs up is torn down, handler and copying *)
(* goroutine: "instead of leaving both copies blocked forever"             *)
(* (http.go:215-217).                                                      *)
TunnelEnds ==
    \A c \in Conns : fwd[c] = "copy" /\ (client[c] # "open" \/ daemon[c] = "gone")
                     ~> (fwd[c] \in {"returned", "gone"} /\ copier[c] # "copy")

=============================================================================
