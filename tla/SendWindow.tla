----------------------------- MODULE SendWindow -----------------------------
(***************************************************************************)
(* What HTTP/2 flow control (RFC 7540, section 6.9) promises about the     *)
(* sender of DATA frames on one connection: every frame is paid for out of *)
(* credit the receiver granted, once on the connection and, on a metered   *)
(* stream, a second time on that stream.                                   *)
(*                                                                         *)
(* Metered streams are those whose frames the sender itself cuts; a        *)
(* relayed frame belongs to another stream, whose own window is kept by    *)
(* whoever cut the frame, and is paid for on the connection only.          *)
(*                                                                         *)
(* SessionSplice implements this module: the whalevet proxy is a sender    *)
(* toward the Docker daemon.                                               *)
(***************************************************************************)
EXTENDS Integers

CONSTANTS
    Metered,      \* streams whose DATA frames the sender cuts itself
    Connection    \* the connection-wide window, stream identifier 0, no stream

VARIABLES
    credit,       \* credit[id]: bytes the sender may still send against id
    opened,       \* metered streams that exist
    over          \* the connection is lost or being closed

vars == <<credit, opened, over>>

Windows == Metered \cup {Connection}

Init ==
    /\ DOMAIN credit = Windows
    /\ \A id \in Windows : credit[id] \in Int
    /\ credit[Connection] >= 0
    /\ opened = {}
    /\ over = FALSE

(* How much window id gives up, or gains, in a step.                       *)
Spent(id)  == credit[id] - credit'[id]
Gained(id) == credit'[id] - credit[id]

(* A frame on metered stream s: within both windows, and paid for twice.   *)
Send(s) ==
    LET n == Spent(Connection) IN
    /\ s \in opened
    /\ 0 <= n /\ n <= credit[Connection] /\ n <= credit[s]
    /\ credit' = [credit EXCEPT ![Connection] = @ - n, ![s] = @ - n]
    /\ UNCHANGED opened

(* A frame cut by somebody else for a stream of its own.                   *)
Relay ==
    LET n == Spent(Connection) IN
    /\ 0 <= n /\ n <= credit[Connection]
    /\ credit' = [credit EXCEPT ![Connection] = @ - n]
    /\ UNCHANGED opened

(* WINDOW_UPDATE.                                                          *)
Grant(id) ==
    /\ Gained(id) >= 0
    /\ credit' = [credit EXCEPT ![id] = @ + Gained(id)]
    /\ UNCHANGED opened

(* SETTINGS_INITIAL_WINDOW_SIZE moves the window of every open stream by   *)
(* one difference, possibly below zero, and never the connection's.        *)
Shift ==
    /\ \A id \in Windows \ opened : credit'[id] = credit[id]
    /\ \A s, t \in opened : Gained(s) = Gained(t)
    /\ UNCHANGED opened

(* A new stream starts with whatever initial window is in force.           *)
Open(s) ==
    /\ s \in Metered \ opened
    /\ credit' = [credit EXCEPT ![s] = credit'[s]]
    /\ opened' = opened \cup {s}

Step ==
    \/ \E s \in Metered : Send(s)
    \/ Relay
    \/ \E id \in Windows : Grant(id)
    \/ Shift
    \/ \E s \in Metered : Open(s)

(* Nothing is promised about a connection that is lost or closing.         *)
Next ==
    \/ Step /\ ~over'
    \/ over'

Spec == Init /\ [][Next]_vars

=============================================================================
