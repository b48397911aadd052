------------------------------- MODULE Server -------------------------------
(***************************************************************************)
(* The life of "whalevet serve" (internal/command/serve.go): signals,      *)
(* reloads of the configuration, the listener they may move, the loop that *)
(* accepts connections and the graceful shutdown.                          *)
(*                                                                         *)
(* Four goroutines share serverState: main (runProxyServer), the watcher   *)
(* of the configuration file (watchConfig), acceptLoop, and one handler    *)
(* per connection.  main and the watcher both call reload, one at a time   *)
(* under reloadMu.  A step is what one of them does between two points     *)
(* where another may be noticed: a mutex, a channel, a system call.        *)
(*                                                                         *)
(* What a handler does with its connection is the subject of other         *)
(* modules.  The file system is reduced to which listener, if any, answers *)
(* at a socket path; removing a path does not close the listener behind.   *)
(***************************************************************************)
EXTENDS Naturals, FiniteSets, Sequences

CONSTANTS
    Configs,       \* contents of the configuration file that load
    Bad,           \* content that does not
    Addrs,         \* listen addresses, as they are spelled
    Paths,         \* socket paths
    ListenOf,      \* ListenOf[c]: proxy.listen of configuration c
    PathOf,        \* PathOf[a]: the socket path address a names
    Override,      \* address given on the command line, or None
    FirstConfig,   \* what the server starts with
    Conns,         \* client connections
    None,
    MaxEdits,      \* bound: changes to the configuration file
    MaxSignals     \* bound: signals sent to the process

ASSUME ConstantAssumption ==
    /\ Bad \notin Configs
    /\ None \notin Configs \cup Conns \cup Addrs \cup {"main", "watcher"}
    /\ ListenOf \in [Configs -> Addrs] /\ PathOf \in [Addrs -> Paths]
    /\ Override \in Addrs \cup {None}
    /\ FirstConfig \in Configs
    /\ MaxEdits \in Nat /\ MaxSignals \in Nat

Reloaders == {"main", "watcher"}

(* A listener is one successful openListener; no tells two on one address  *)
(* apart.                                                                  *)
Listeners == [no : Nat, addr : Addrs]

VARIABLES
    at,         \* at[r]: where main and the watcher are
    acceptAt,   \* where acceptLoop is
    \* serverState
    listener, listenAddr, sockPath,
    reloadMu,   \* who holds it
    shutdown,   \* the channel is closed
    closed,     \* no further handler may be added to wg
    config,     \* HTTPProxy.cfg
    \* locals of reload, per caller
    loaded, fresh, old,
    \* locals of acceptLoop
    using, conn,
    \* the system
    file,       \* content of the configuration file
    watching,   \* the directory is watched
    missed,     \* the file changed before that and was not loaded since
    refused,    \* the last reload could not open its listener
    events,     \* file events the watcher has not seen
    signals,    \* sigChan
    bound,      \* bound[p]: the listener answering at path p
    open,       \* listeners not yet closed
    made,       \* how many listeners were opened
    state,      \* state[c] of connection c
    queuedAt,   \* queuedAt[c]: the listener whose backlog holds c
    edits, sent \* counters for the two bounds

serverVars == <<listener, listenAddr, sockPath, reloadMu, shutdown, closed, config>>
reloadVars == <<loaded, fresh, old>>
acceptVars == <<using, conn>>
fileVars   == <<file, watching, missed, events, edits>>
signalVars == <<signals, sent>>
socketVars == <<bound, open, made>>
connVars   == <<state, queuedAt>>
vars == <<at, acceptAt, serverVars, reloadVars, acceptVars, fileVars, refused,
          signalVars, socketVars, connVars>>

EffListen(c) == IF Override = None THEN ListenOf[c] ELSE Override

MainPlaces == {"signal", "load", "open", "swap", "closeOld", "setConfig", "shutdown",
               "closeListener", "drain", "wait", "unlink", "leave", "exited"}
WatcherPlaces == {"start", "event", "load", "open", "swap", "closeOld", "setConfig", "stopped"}
ConnStates == {"new", "queued", "accepted", "served", "closed"}

ServerTypeOK ==
    /\ at \in [Reloaders -> MainPlaces \cup WatcherPlaces]
    /\ at["main"] \in MainPlaces /\ at["watcher"] \in WatcherPlaces
    /\ listener \in Listeners /\ listenAddr \in Addrs /\ sockPath \in Paths
    /\ reloadMu \in Reloaders \cup {None}
    /\ config \in Configs
    /\ loaded \in [Reloaders -> Configs \cup {None}]
    /\ fresh \in [Reloaders -> Listeners \cup {None}]
    /\ old \in [Reloaders -> Listeners \cup {None}]
    /\ file \in Configs \cup {Bad}
    /\ events \in Nat /\ edits \in Nat /\ made \in Nat
    /\ open \subseteq Listeners
    /\ bound \in [Paths -> Listeners \cup {None}]

ConnTypeOK ==
    /\ acceptAt \in {"top", "accept", "failed", "admit", "stopped"}
    /\ using \in Listeners \cup {None}
    /\ conn \in Conns \cup {None} /\ (acceptAt = "admit" => conn \in Conns)
    /\ state \in [Conns -> ConnStates]
    /\ queuedAt \in [Conns -> Listeners \cup {None}]

SignalTypeOK ==
    /\ signals \in {<<>>, <<"HUP">>, <<"TERM">>}
    /\ sent \in Nat

FlagTypeOK ==
    /\ shutdown \in BOOLEAN /\ closed \in BOOLEAN
    /\ watching \in BOOLEAN /\ missed \in BOOLEAN /\ refused \in BOOLEAN

TypeOK == ServerTypeOK /\ ConnTypeOK /\ SignalTypeOK /\ FlagTypeOK

(* newServerState has opened the first listener; the goroutines are about  *)
(* to start.                                                               *)
Init ==
    LET a == EffListen(FirstConfig)
        l == [no |-> 0, addr |-> a] IN
    /\ at = [r \in Reloaders |-> IF r = "main" THEN "signal" ELSE "start"]
    /\ acceptAt = "top"
    /\ listener = l /\ listenAddr = a /\ sockPath = PathOf[a]
    /\ reloadMu = None /\ shutdown = FALSE /\ closed = FALSE
    /\ config = FirstConfig
    /\ loaded = [r \in Reloaders |-> None]
    /\ fresh = [r \in Reloaders |-> None]
    /\ old = [r \in Reloaders |-> None]
    /\ using = None /\ conn = None
    /\ file = FirstConfig /\ watching = FALSE /\ missed = FALSE /\ refused = FALSE
    /\ events = 0
    /\ signals = <<>>
    /\ bound = [p \in Paths |-> IF p = PathOf[a] THEN l ELSE None]
    /\ open = {l} /\ made = 1
    /\ state = [c \in Conns |-> "new"]
    /\ queuedAt = [c \in Conns |-> None]
    /\ edits = 0 /\ sent = 0

Running == at["main"] # "exited"

Goes(r, place) == at' = [at EXCEPT ![r] = place]

-----------------------------------------------------------------------------
(* reload, called by r.                                                    *)

(* Where the caller carries on.                                            *)
Home(r) == IF r = "main" THEN "signal" ELSE "event"

(* Bug: a return that leaves reloadMu locked.                              *)
KeepLock == reloadMu' = reloadMu

Unlock == reloadMu' = None

(* Closing a unix listener unlinks its path, whoever has bound it since,   *)
(* and resets the connections in its backlog.                              *)
Close(l) ==
    /\ open' = open \ {l}
    /\ bound' = IF l \in open THEN [bound EXCEPT ![PathOf[l.addr]] = None] ELSE bound
    /\ state' = [c \in Conns |-> IF state[c] = "queued" /\ queuedAt[c] = l
                                 THEN "closed" ELSE state[c]]
    /\ queuedAt' = [c \in Conns |-> IF queuedAt[c] = l THEN None ELSE queuedAt[c]]
    /\ UNCHANGED made

(* Bug: reloads are not serialised.                                        *)
AlwaysFree == TRUE

MutexFree == reloadMu = None

(* Take reloadMu and load the file.                                        *)
Load(r) ==
    /\ Running /\ at[r] = "load" /\ MutexFree
    /\ missed' = FALSE
    /\ IF file = Bad
       THEN /\ Goes(r, Home(r))
            /\ UNCHANGED <<reloadMu, loaded>>
       ELSE /\ reloadMu' = r
            /\ loaded' = [loaded EXCEPT ![r] = file]
            /\ Goes(r, IF EffListen(file) # listenAddr THEN "open" ELSE "setConfig")
    /\ UNCHANGED <<acceptAt, listener, listenAddr, sockPath, shutdown, closed, config,
                   fresh, old, acceptVars, file, watching, events, edits, refused,
                   signalVars, socketVars, connVars>>

(* openListener: whatever is at the path is removed, then it is bound.     *)
OpenListener(r) ==
    LET l == [no |-> made, addr |-> EffListen(loaded[r])] IN
    /\ Running /\ at[r] = "open"
    /\ fresh' = [fresh EXCEPT ![r] = l]
    /\ open' = open \cup {l} /\ made' = made + 1
    /\ bound' = [bound EXCEPT ![PathOf[l.addr]] = l]
    /\ Goes(r, "swap")
    /\ UNCHANGED <<acceptAt, serverVars, loaded, old, acceptVars, fileVars, refused,
                   signalVars, connVars>>

(* Bug: the configuration is taken all the same.                           *)
OpenFailsUnnoticed(r) ==
    /\ Running /\ at[r] = "open"
    /\ Goes(r, "setConfig")
    /\ UNCHANGED <<acceptAt, serverVars, reloadVars, acceptVars, fileVars, refused,
                   signalVars, socketVars, connVars>>

(* The listener cannot be opened: the running configuration is kept.  When *)
(* it is net.Listen that fails, what was at the path has been removed.     *)
OpenFails(r) ==
    /\ Running /\ at[r] = "open"
    /\ \/ UNCHANGED bound
       \/ bound' = [bound EXCEPT ![PathOf[EffListen(loaded[r])]] = None]
    /\ refused' = TRUE
    /\ Unlock
    /\ loaded' = [loaded EXCEPT ![r] = None]
    /\ Goes(r, Home(r))
    /\ UNCHANGED <<acceptAt, listener, listenAddr, sockPath, shutdown, closed, config,
                   fresh, old, acceptVars, fileVars, signalVars, open, made, connVars>>

(* Bug: old is read once the new listener is in place.                     *)
SetListenerFirst(r) ==
    /\ Running /\ at[r] = "swap"
    /\ old' = [old EXCEPT ![r] = fresh[r]]
    /\ listener' = fresh[r]
    /\ listenAddr' = fresh[r].addr
    /\ sockPath' = PathOf[fresh[r].addr]
    /\ fresh' = [fresh EXCEPT ![r] = None]
    /\ Goes(r, "closeOld")
    /\ UNCHANGED <<acceptAt, reloadMu, shutdown, closed, config, loaded, acceptVars,
                   fileVars, refused, signalVars, socketVars, connVars>>

(* setListener under mu, the replaced listener kept in old.                *)
SetListener(r) ==
    /\ Running /\ at[r] = "swap"
    /\ old' = [old EXCEPT ![r] = listener]
    /\ listener' = fresh[r]
    /\ listenAddr' = fresh[r].addr
    /\ sockPath' = PathOf[fresh[r].addr]
    /\ fresh' = [fresh EXCEPT ![r] = None]
    /\ Goes(r, "closeOld")
    /\ UNCHANGED <<acceptAt, reloadMu, shutdown, closed, config, loaded, acceptVars,
                   fileVars, refused, signalVars, socketVars, connVars>>

CloseOld(r) ==
    /\ Running /\ at[r] = "closeOld"
    /\ Close(old[r])
    /\ old' = [old EXCEPT ![r] = None]
    /\ Goes(r, "setConfig")
    /\ UNCHANGED <<acceptAt, serverVars, loaded, fresh, acceptVars, fileVars, refused,
                   signalVars>>

SetConfig(r) ==
    /\ Running /\ at[r] = "setConfig"
    /\ config' = loaded[r]
    /\ refused' = FALSE
    /\ Unlock
    /\ loaded' = [loaded EXCEPT ![r] = None]
    /\ Goes(r, Home(r))
    /\ UNCHANGED <<acceptAt, listener, listenAddr, sockPath, shutdown, closed, fresh, old,
                   acceptVars, fileVars, signalVars, socketVars, connVars>>

Reload(r) ==
    Load(r) \/ OpenListener(r) \/ OpenFails(r) \/ SetListener(r) \/ CloseOld(r) \/ SetConfig(r)

-----------------------------------------------------------------------------
(* main: the rest of runProxyServer.                                       *)

TakeSignal ==
    /\ at["main"] = "signal" /\ signals # <<>>
    /\ signals' = Tail(signals)
    /\ Goes("main", IF Head(signals) = "HUP" THEN "load" ELSE "shutdown")
    /\ UNCHANGED <<acceptAt, serverVars, reloadVars, acceptVars, fileVars, refused,
                   sent, socketVars, connVars>>

AnnounceShutdown ==
    /\ at["main"] = "shutdown"
    /\ shutdown' = TRUE
    /\ Goes("main", "closeListener")
    /\ UNCHANGED <<acceptAt, listener, listenAddr, sockPath, reloadMu, closed, config,
                   reloadVars, acceptVars, fileVars, refused, signalVars, socketVars,
                   connVars>>

CloseListener ==
    /\ at["main"] = "closeListener"
    /\ Close(listener)
    /\ Goes("main", "drain")
    /\ UNCHANGED <<acceptAt, serverVars, reloadVars, acceptVars, fileVars, refused,
                   signalVars>>

Drain ==
    /\ at["main"] = "drain"
    /\ closed' = TRUE
    /\ Goes("main", "wait")
    /\ UNCHANGED <<acceptAt, listener, listenAddr, sockPath, reloadMu, shutdown, config,
                   reloadVars, acceptVars, fileVars, refused, signalVars, socketVars,
                   connVars>>

Served == {c \in Conns : state[c] = "served"}

Wait ==
    /\ at["main"] = "wait" /\ Served = {}
    /\ Goes("main", "unlink")
    /\ UNCHANGED <<acceptAt, serverVars, reloadVars, acceptVars, fileVars, refused,
                   signalVars, socketVars, connVars>>

Unlink ==
    /\ at["main"] = "unlink"
    /\ bound' = [bound EXCEPT ![sockPath] = None]
    /\ Goes("main", "leave")
    /\ UNCHANGED <<acceptAt, serverVars, reloadVars, acceptVars, fileVars, refused,
                   signalVars, open, made, connVars>>

(* The process ends: the kernel closes what is open, and leaves the paths. *)
Leave ==
    /\ at["main"] = "leave"
    /\ open' = {}
    /\ state' = [c \in Conns |-> IF state[c] \in {"queued", "accepted"} THEN "closed"
                                                                      ELSE state[c]]
    /\ queuedAt' = [c \in Conns |-> None]
    /\ Goes("main", "exited")
    /\ UNCHANGED <<acceptAt, serverVars, reloadVars, acceptVars, fileVars, refused,
                   signalVars, bound, made>>

MainShutsDown == AnnounceShutdown \/ CloseListener \/ Drain \/ Wait \/ Unlink \/ Leave

-----------------------------------------------------------------------------
(* watchConfig.                                                            *)

WatchStart ==
    /\ Running /\ at["watcher"] = "start"
    /\ watching' = TRUE
    /\ Goes("watcher", "event")
    /\ UNCHANGED <<acceptAt, serverVars, reloadVars, acceptVars, file, missed, events,
                   edits, refused, signalVars, socketVars, connVars>>

TakeEvent ==
    /\ Running /\ at["watcher"] = "event" /\ events > 0
    /\ events' = events - 1
    /\ Goes("watcher", "load")
    /\ UNCHANGED <<acceptAt, serverVars, reloadVars, acceptVars, file, watching, missed,
                   edits, refused, signalVars, socketVars, connVars>>

WatchStops ==
    /\ Running /\ at["watcher"] = "event" /\ shutdown
    /\ Goes("watcher", "stopped")
    /\ UNCHANGED <<acceptAt, serverVars, reloadVars, acceptVars, fileVars, refused,
                   signalVars, socketVars, connVars>>

-----------------------------------------------------------------------------
(* acceptLoop.                                                             *)

AcceptGoes(place) == acceptAt' = place

PickListener ==
    /\ Running /\ acceptAt = "top"
    /\ IF shutdown THEN AcceptGoes("stopped") /\ UNCHANGED using
                   ELSE AcceptGoes("accept") /\ using' = listener
    /\ UNCHANGED <<at, serverVars, reloadVars, conn, fileVars, refused, signalVars,
                   socketVars, connVars>>

Accept(c) ==
    /\ Running /\ acceptAt = "accept" /\ using \in open
    /\ state[c] = "queued" /\ queuedAt[c] = using
    /\ state' = [state EXCEPT ![c] = "accepted"]
    /\ queuedAt' = [queuedAt EXCEPT ![c] = None]
    /\ conn' = c
    /\ AcceptGoes("admit")
    /\ UNCHANGED <<at, serverVars, reloadVars, using, fileVars, refused, signalVars,
                   socketVars>>

(* Accept returns an error; the loop stops on shutdown, and otherwise      *)
(* starts over, on the listener a reload put in the place of this one.     *)
AcceptFails ==
    /\ Running /\ acceptAt = "accept" /\ using \notin open
    /\ AcceptGoes("failed")
    /\ using' = None
    /\ UNCHANGED <<at, serverVars, reloadVars, conn, fileVars, refused, signalVars,
                   socketVars, connVars>>

(* Bug: the loop ends on an error, a swapped listener's too.               *)
AcceptEnds ==
    /\ Running /\ acceptAt = "failed"
    /\ AcceptGoes("stopped")
    /\ UNCHANGED <<at, serverVars, reloadVars, acceptVars, fileVars, refused, signalVars,
                   socketVars, connVars>>

(* The shutdown is checked before the loop starts over.                    *)
AcceptRecovers ==
    /\ Running /\ acceptAt = "failed"
    /\ AcceptGoes(IF shutdown THEN "stopped" ELSE "top")
    /\ UNCHANGED <<at, serverVars, reloadVars, acceptVars, fileVars, refused, signalVars,
                   socketVars, connVars>>

(* Bug: a handler starts whatever main is doing.                           *)
ServeAnyway == TRUE

(* Under wgMu: no handler starts once main waits for them.                 *)
MayServe == ~closed

Admit ==
    /\ Running /\ acceptAt = "admit"
    /\ state' = [state EXCEPT ![conn] = IF MayServe THEN "served" ELSE "closed"]
    /\ conn' = None /\ using' = None
    /\ AcceptGoes("top")
    /\ UNCHANGED <<at, serverVars, reloadVars, fileVars, refused, signalVars,
                   socketVars, queuedAt>>

AcceptStep ==
    PickListener \/ (\E c \in Conns : Accept(c)) \/ AcceptFails \/ AcceptRecovers \/ Admit

-----------------------------------------------------------------------------
(* The handlers, the clients, the file and the signals.                    *)

(* ServeConn returns.                                                      *)
Finish(c) ==
    /\ Running /\ state[c] = "served"
    /\ state' = [state EXCEPT ![c] = "closed"]
    /\ UNCHANGED <<at, acceptAt, serverVars, reloadVars, acceptVars, fileVars, refused,
                   signalVars, socketVars, queuedAt>>

Connect(c, p) ==
    /\ state[c] = "new" /\ bound[p] \in open
    /\ state' = [state EXCEPT ![c] = "queued"]
    /\ queuedAt' = [queuedAt EXCEPT ![c] = bound[p]]
    /\ UNCHANGED <<at, acceptAt, serverVars, reloadVars, acceptVars, fileVars, refused,
                   signalVars, socketVars>>

Edit(c) ==
    /\ Running /\ edits < MaxEdits /\ c # file
    /\ edits' = edits + 1
    /\ file' = c
    /\ IF watching THEN events' = events + 1 /\ UNCHANGED missed
                   ELSE missed' = TRUE /\ UNCHANGED events
    /\ UNCHANGED <<at, acceptAt, serverVars, reloadVars, acceptVars, watching, refused,
                   signalVars, socketVars, connVars>>

(* Bug: a signal is queued however full the channel is.                    *)
Queue(sig) == Append(signals, sig)

(* sigChan holds one signal; one that arrives while it is full is dropped. *)
Offer(sig) == IF signals = <<>> THEN <<sig>> ELSE signals

SendSignal(sig) ==
    /\ Running /\ sent < MaxSignals
    /\ sent' = sent + 1
    /\ signals' = Offer(sig)
    /\ UNCHANGED <<at, acceptAt, serverVars, reloadVars, acceptVars, fileVars, refused,
                   socketVars, connVars>>

MainStep == TakeSignal \/ Reload("main") \/ MainShutsDown

WatcherStep == WatchStart \/ TakeEvent \/ WatchStops \/ Reload("watcher")

World ==
    \/ \E c \in Conns, p \in Paths : Connect(c, p)
    \/ \E c \in Configs \cup {Bad} : Edit(c)
    \/ \E sig \in {"HUP", "TERM"} : SendSignal(sig)

Next == MainStep \/ WatcherStep \/ AcceptStep \/ (\E c \in Conns : Finish(c)) \/ World

Spec == Init /\ [][Next]_vars

-----------------------------------------------------------------------------
(* Safety.                                                                 *)

(* While the server is in service, in the middle of a reload too, the      *)
(* listener a client finds at the current socket path is the current one   *)
(* and is open (README: "the listener moves to the new address without     *)
(* restarting").                                                           *)
InService == at["main"] \notin {"drain", "wait", "unlink", "leave", "exited"}

CurrentListenerReachable ==
    InService => /\ listener \in open
                 /\ bound[PathOf[listenAddr]] = listener

(* Between reloads nothing but the current listener is open, and it is on  *)
(* the address the configuration in use asks for, whichever reload ran and *)
(* at whatever point one of them failed (reload: "On any error the running *)
(* proxy keeps its current config and listener").                          *)
ListenerMatchesConfig ==
    reloadMu = None =>
        /\ listenAddr = EffListen(config)
        /\ InService => open = {listener}

(* Once the events are handled and no reload is under way, the proxy runs  *)
(* the configuration that is in the file: no order of edits, SIGHUPs and   *)
(* events lets an older content overwrite a newer one.  The exceptions are *)
(* a file that does not load, an edit made before the directory was        *)
(* watched, and a listener that could not be opened.                       *)
QuietMeansLoaded ==
    /\ events = 0 /\ at["watcher"] # "load" /\ reloadMu = None
    /\ file \in Configs /\ ~missed /\ ~refused
    => config = file

(* The process never leaves while a handler works on a connection, though  *)
(* acceptLoop goes on accepting until it notices the shutdown              *)
(* (runProxyServer waits on wg; closed keeps wg from growing behind it).   *)
DrainSafe == at["main"] \in {"unlink", "leave", "exited"} => Served = {}

-----------------------------------------------------------------------------
(* Liveness.  The goroutines are scheduled fairly and reloadMu is a Go     *)
(* mutex, which starves nobody.  That handlers return is an assumption     *)
(* about the connections, not about this code: nothing closes them, and a  *)
(* stream left open forever holds the shutdown up forever.                 *)

GoroutineFairness ==
    /\ WF_vars(MainStep) /\ WF_vars(WatcherStep) /\ WF_vars(AcceptStep)
    /\ SF_vars(Load("main")) /\ SF_vars(Load("watcher"))

HandlersReturn == \A c \in Conns : WF_vars(Finish(c))

FairSpec == Spec /\ GoroutineFairness /\ HandlersReturn

(* A SIGTERM that reached sigChan ends the process.  One that comes while  *)
(* a SIGHUP waits there is dropped by os/signal, and ends nothing.         *)
QueuedTermEnds ==
    signals = <<"TERM">> ~> at["main"] = "exited"

(* A connection in the backlog is accepted and served or closed, even if   *)
(* the listener it arrived at is replaced.                                 *)
ConnectionsAnswered ==
    \A c \in Conns : state[c] = "queued" ~> state[c] \in {"served", "closed"}
=============================================================================
