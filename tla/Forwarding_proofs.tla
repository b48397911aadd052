-------------------------- MODULE Forwarding_proofs --------------------------
(***************************************************************************)
(* Proofs about Forwarding, for any number of connections and pieces.      *)
(*                                                                         *)
(* A tunnel is closed by its handler, whose copy ends for one of three     *)
(* reasons.  The one that is not plain is that its own goroutine closed    *)
(* the connection to the daemon: CopierInv remembers why it did.           *)
(*                                                                         *)
(* That a tunnel ends needs fairness, and stays with the runs.  What is    *)
(* proved of it is the rest: once an end has hung up neither copy is ever  *)
(* stuck (HangUpHeard), and what it has yet to pass on does not grow       *)
(* (BacklogShrinks).                                                       *)
(***************************************************************************)
EXTENDS Forwarding, TLAPS

StepOf(c) == \/ \E w \in Ways : Dial(c, w)
           \/ DialFails(c) \/ Handler(c) \/ Copier(c) \/ Peers(c)

LEMMA NextSteps ==
    ASSUME FwdNext
    PROVE  (\E c \in Conns : StepOf(c)) \/ (\E S \in SUBSET Conns : Gone(S))
BY DEF FwdNext, StepOf

-----------------------------------------------------------------------------
(* Types.                                                                  *)

LEMMA HandlerTypes ==
    ASSUME FwdTypeOK, NEW c \in Conns,
           (\E w \in Ways : Dial(c, w)) \/ DialFails(c) \/ Handler(c)
    PROVE  FwdTypeOK'
<1> USE ForwardingAssumption DEF FwdTypeOK, Closed, Ways, peers
<1>1. ASSUME NEW w \in Ways, Dial(c, w) PROVE FwdTypeOK'
  BY <1>1 DEF Dial
<1>2. CASE DialFails(c)  BY <1>2 DEF DialFails
<1>3. CASE WriteRequest(c) \/ StartTunnel(c)  BY <1>3 DEF WriteRequest, StartTunnel
<1>4. CASE ForwardFails(c)  BY <1>4 DEF ForwardFails
<1>5. CASE Answered(c)  BY <1>5 DEF Answered
<1>6. CASE Switched(c)  BY <1>6 DEF Switched
<1>7. CASE CopyDown(c)  BY <1>7 DEF CopyDown
<1>8. CASE HandlerEnds(c)  BY <1>8 DEF HandlerEnds
<1> QED BY <1>1, <1>2, <1>3, <1>4, <1>5, <1>6, <1>7, <1>8 DEF Handler

LEMMA OtherTypes ==
    ASSUME FwdTypeOK, NEW c \in Conns, Copier(c) \/ Peers(c)
    PROVE  FwdTypeOK'
<1> USE ForwardingAssumption DEF FwdTypeOK, Rest, peers
<1>1. CASE CopyUp(c)  BY <1>1 DEF CopyUp
<1>2. CASE CopierEnds(c)  BY <1>2 DEF CopierEnds
<1>3. CASE ClientSends(c)  BY <1>3 DEF ClientSends
<1>4. CASE ClientCloses(c)  BY <1>4 DEF ClientCloses
<1>5. CASE DaemonSends(c)  BY <1>5 DEF DaemonSends
<1>6. CASE DaemonCloses(c)  BY <1>6 DEF DaemonCloses
<1> QED BY <1>1, <1>2, <1>3, <1>4, <1>5, <1>6 DEF Copier, Peers

LEMMA GoneTypes ==
    ASSUME FwdTypeOK, NEW S \in SUBSET Conns, Gone(S)
    PROVE  FwdTypeOK'
<1> USE DEF FwdTypeOK, Gone
<1>1. (fwd \in [Conns -> {"none", "write", "await", "copy", "returned", "gone"}])'
  OBVIOUS
<1>2. (way \in [Conns -> Ways])'  BY DEF Ways
<1>3. (copier \in [Conns -> {"none", "copy", "ended"}])'  OBVIOUS
<1>4. (backend \in [Conns -> BOOLEAN])' /\ (accepted \in [Conns -> BOOLEAN])'  OBVIOUS
<1>5. (client \in [Conns -> {"open", "half", "gone"}])'  OBVIOUS
<1>6. (daemon \in [Conns -> {"open", "gone"}])'  OBVIOUS
<1>7. 0 \in 0..MaxPieces  BY ForwardingAssumption
<1>8. (asked \in [Conns -> 0..MaxPieces])' /\ (put \in [Conns -> 0..MaxPieces])'
  BY <1>7
<1>9. (told \in [Conns -> 0..MaxPieces])' /\ (got \in [Conns -> 0..MaxPieces])'
  BY <1>7
<1> QED BY <1>1, <1>2, <1>3, <1>4, <1>5, <1>6, <1>8, <1>9

LEMMA FwdTypeStep ==
    ASSUME FwdTypeOK, [FwdNext]_fwdVars
    PROVE  FwdTypeOK'
<1>1. CASE UNCHANGED fwdVars  BY <1>1 DEF fwdVars, FwdTypeOK
<1>2. CASE FwdNext
  BY <1>2, NextSteps, HandlerTypes, OtherTypes, GoneTypes DEF StepOf
<1> QED BY <1>1, <1>2

LEMMA FwdTypeInit == FwdInit => FwdTypeOK
BY ForwardingAssumption DEF FwdInit, FwdTypeOK, Ways

-----------------------------------------------------------------------------
(* What a tunnel that has ended leaves.                                    *)

(* Where a handler is says which connections it holds.                     *)
HeldInv(c) ==
    /\ fwd[c] \in {"none", "write", "await"} =>
           accepted[c] /\ copier[c] = "none" /\ client[c] = "open" /\ put[c] = 0
    /\ fwd[c] \in {"write", "await"} => backend[c]
    /\ fwd[c] = "copy" => accepted[c] /\ copier[c] # "none"
    /\ fwd[c] = "copy" => way[c] = "tunnel"
    /\ fwd[c] = "copy" => (backend[c] <=> copier[c] = "copy")
    /\ fwd[c] = "returned" => ~backend[c] /\ ~accepted[c]
    /\ fwd[c] = "gone" => copier[c] = "none"

(* The goroutine ends before the handler when the client has closed, or    *)
(* when it could not write what the client sent.                           *)
CopierInv(c) ==
    fwd[c] = "copy" /\ copier[c] = "ended" /\ client[c] = "open"
        => daemon[c] = "gone" /\ put[c] < asked[c]

(* No more is passed on than was sent.                                     *)
CountInv(c) == put[c] <= asked[c] /\ got[c] <= told[c]

WholeInv(c) ==
    Ended(c) /\ client[c] = "open" => daemon[c] = "gone" /\ (got[c] = told[c] \/ put[c] < asked[c])

FwdInv == \A c \in Conns : HeldInv(c) /\ CountInv(c) /\ CopierInv(c) /\ WholeInv(c)

(* The state of one connection.                                            *)
StateOf(c) == <<fwd[c], way[c], copier[c], backend[c], accepted[c], client[c], daemon[c],
                asked[c], put[c], told[c], got[c]>>

LEMMA OneAtATime ==
    ASSUME FwdTypeOK, NEW c \in Conns, NEW d \in Conns, c # d, StepOf(c)
    PROVE  UNCHANGED StateOf(d)
<1> USE DEF FwdTypeOK, StateOf, peers, Rest, Closed
<1>1. ASSUME NEW w \in Ways, Dial(c, w) PROVE UNCHANGED StateOf(d)
  BY <1>1 DEF Dial
<1>2. CASE DialFails(c)  BY <1>2 DEF DialFails
<1>3. CASE WriteRequest(c) \/ StartTunnel(c)  BY <1>3 DEF WriteRequest, StartTunnel
<1>4. CASE ForwardFails(c)  BY <1>4 DEF ForwardFails
<1>5. CASE Answered(c)  BY <1>5 DEF Answered
<1>6. CASE Switched(c)  BY <1>6 DEF Switched
<1>7. CASE CopyDown(c)  BY <1>7 DEF CopyDown
<1>8. CASE HandlerEnds(c)  BY <1>8 DEF HandlerEnds
<1>9. CASE CopyUp(c)  BY <1>9 DEF CopyUp
<1>10. CASE CopierEnds(c)  BY <1>10 DEF CopierEnds
<1>11. CASE ClientSends(c)  BY <1>11 DEF ClientSends
<1>12. CASE ClientCloses(c)  BY <1>12 DEF ClientCloses
<1>13. CASE DaemonSends(c)  BY <1>13 DEF DaemonSends
<1>14. CASE DaemonCloses(c)  BY <1>14 DEF DaemonCloses
<1> QED BY <1>1, <1>2, <1>3, <1>4, <1>5, <1>6, <1>7, <1>8, <1>9, <1>10, <1>11, <1>12, <1>13,
           <1>14 DEF StepOf, Handler, Copier, Peers

LEMMA OwnStep ==
    ASSUME FwdTypeOK, NEW c \in Conns, HeldInv(c), CountInv(c), CopierInv(c), WholeInv(c), StepOf(c)
    PROVE  HeldInv(c)' /\ CountInv(c)' /\ CopierInv(c)' /\ WholeInv(c)'
<1> USE DEF FwdTypeOK, HeldInv, CountInv, CopierInv, WholeInv, Ended, peers, Rest, Closed
<1> DEFINE Goal == HeldInv(c)' /\ CountInv(c)' /\ CopierInv(c)' /\ WholeInv(c)'
<1>1. ASSUME NEW w \in Ways, Dial(c, w) PROVE Goal
  BY <1>1 DEF Dial
<1>2. CASE DialFails(c)  BY <1>2 DEF DialFails
<1>3. CASE WriteRequest(c) \/ StartTunnel(c)  BY <1>3 DEF WriteRequest, StartTunnel
<1>4. CASE ForwardFails(c)  BY <1>4 DEF ForwardFails
<1>5. CASE Answered(c)  BY <1>5 DEF Answered
<1>6. CASE Switched(c)  BY <1>6 DEF Switched
<1>7. CASE CopyDown(c)  BY <1>7 DEF CopyDown
<1>8. CASE HandlerEnds(c)  BY <1>8 DEF HandlerEnds, DownEnds
<1>9. CASE CopyUp(c)  BY <1>9 DEF CopyUp
<1>10. CASE CopierEnds(c)  BY <1>10 DEF CopierEnds, UpEnds
<1>11. CASE ClientSends(c)  BY <1>11 DEF ClientSends
<1>12. CASE ClientCloses(c)  BY <1>12 DEF ClientCloses
<1>13. CASE DaemonSends(c)  BY <1>13 DEF DaemonSends
<1>14. CASE DaemonCloses(c)  BY <1>14 DEF DaemonCloses
<1> QED BY <1>1, <1>2, <1>3, <1>4, <1>5, <1>6, <1>7, <1>8, <1>9, <1>10, <1>11, <1>12, <1>13,
           <1>14 DEF StepOf, Handler, Copier, Peers

LEMMA FwdInvInit == FwdInit => FwdInv
<1> SUFFICES ASSUME FwdInit, NEW c \in Conns
             PROVE  HeldInv(c) /\ CountInv(c) /\ CopierInv(c) /\ WholeInv(c)
  BY DEF FwdInv
<1>1. CountInv(c)  BY DEF FwdInit, CountInv
<1> QED BY <1>1 DEF FwdInit, HeldInv, CopierInv, WholeInv, Ended

LEMMA FwdInvStep ==
    ASSUME FwdTypeOK, FwdInv, [FwdNext]_fwdVars
    PROVE  FwdInv'
<1> SUFFICES ASSUME NEW d \in Conns
             PROVE  HeldInv(d)' /\ CountInv(d)' /\ CopierInv(d)' /\ WholeInv(d)'
  BY DEF FwdInv
<1>1. HeldInv(d) /\ CountInv(d) /\ CopierInv(d) /\ WholeInv(d)  BY DEF FwdInv
<1>2. ASSUME UNCHANGED StateOf(d)
      PROVE  HeldInv(d)' /\ CountInv(d)' /\ CopierInv(d)' /\ WholeInv(d)'
  BY <1>1, <1>2 DEF StateOf, HeldInv, CountInv, CopierInv, WholeInv, Ended
<1>3. CASE UNCHANGED fwdVars
  BY <1>2, <1>3 DEF fwdVars, StateOf
<1>4. ASSUME NEW c \in Conns, StepOf(c)
      PROVE  HeldInv(d)' /\ CountInv(d)' /\ CopierInv(d)' /\ WholeInv(d)'
  BY <1>1, <1>2, <1>4, OneAtATime, OwnStep
<1>5. ASSUME NEW S \in SUBSET Conns, Gone(S)
      PROVE  HeldInv(d)' /\ CountInv(d)' /\ CopierInv(d)' /\ WholeInv(d)'
  <2>1. CASE d \in S
    BY <1>5, <2>1 DEF Gone, HeldInv, CountInv, CopierInv, WholeInv, Ended
  <2>2. CASE d \notin S
    BY <1>2, <1>5, <2>2 DEF Gone, StateOf
  <2> QED BY <2>1, <2>2
<1> QED BY <1>3, <1>4, <1>5, NextSteps

(* The handlers and goroutines of every connection are in a known state.   *)
THEOREM FwdTypeCorrect == FwdSpec => []FwdTypeOK
<1>1. FwdTypeOK /\ [FwdNext]_fwdVars => FwdTypeOK'  BY FwdTypeStep
<1> QED BY <1>1, FwdTypeInit, PTL DEF FwdSpec

LEMMA FwdInvHolds == FwdSpec => [](FwdTypeOK /\ FwdInv)
<1>1. FwdTypeOK /\ FwdInv /\ [FwdNext]_fwdVars => FwdInv'  BY FwdInvStep
<1> QED BY <1>1, FwdInvInit, FwdTypeCorrect, PTL DEF FwdSpec

(* Whichever copy ends first, a client that is still there has been given  *)
(* all the daemon sent before a tunnel is closed, unless its own last      *)
(* piece could not be written.                                             *)
THEOREM TunnelCorrect == FwdSpec => []TunnelWhole
<1>1. FwdInv => TunnelWhole  BY DEF FwdInv, WholeInv, TunnelWhole
<1> QED BY <1>1, FwdInvHolds, PTL

-----------------------------------------------------------------------------
(* A hang-up travels through a tunnel.                                     *)

(* The copy from the client, the copy from the daemon, can pass on a piece. *)
UpMoves(c) == accepted[c] /\ backend[c] /\ put[c] < asked[c] /\ daemon[c] = "open"
DownMoves(c) == backend[c] /\ got[c] < told[c] /\ client[c] # "gone"

(* When the client has closed, for writing only or altogether, or the      *)
(* handler has returned, the goroutine is not blocked: it has a piece to   *)
(* pass on or its copy is over.  When the daemon has closed, or the        *)
(* goroutine is done, the handler is not.                                  *)
HangUpHeard ==
    \A c \in Conns :
        /\ copier[c] = "copy" /\ (client[c] # "open" \/ fwd[c] = "returned")
              => UpEnds(c) \/ UpMoves(c)
        /\ fwd[c] = "copy" /\ (daemon[c] = "gone" \/ copier[c] = "ended")
              => DownEnds(c) \/ DownMoves(c)

(* A peer that has closed stays closed, a copy that is over stays over, and *)
(* what there is to pass on from that peer never grows.                    *)
Shrinks(c) ==
    /\ client[c] # "open" => client'[c] # "open" /\ asked'[c] - put'[c] <= asked[c] - put[c]
    /\ daemon[c] = "gone" => daemon'[c] = "gone" /\ told'[c] - got'[c] <= told[c] - got[c]
    /\ copier[c] = "ended" => copier'[c] # "copy"
    /\ fwd[c] \in {"returned", "gone"} => fwd'[c] \in {"returned", "gone"}

BacklogShrinks == \A c \in Conns : Shrinks(c)

LEMMA HeldHears ==
    ASSUME FwdTypeOK, FwdInv
    PROVE  HangUpHeard
<1> SUFFICES ASSUME NEW c \in Conns
             PROVE  /\ copier[c] = "copy" /\ (client[c] # "open" \/ fwd[c] = "returned")
                          => UpEnds(c) \/ UpMoves(c)
                    /\ fwd[c] = "copy" /\ (daemon[c] = "gone" \/ copier[c] = "ended")
                          => DownEnds(c) \/ DownMoves(c)
  BY DEF HangUpHeard
<1>1. HeldInv(c)  BY DEF FwdInv
<1>2. CountInv(c)  BY DEF FwdInv
<1> QED BY <1>1, <1>2 DEF HeldInv, CountInv, FwdTypeOK, UpEnds, UpMoves, DownEnds, DownMoves

LEMMA OwnShrinks ==
    ASSUME FwdTypeOK, NEW c \in Conns, HeldInv(c), StepOf(c)
    PROVE  Shrinks(c)
<1> USE DEF FwdTypeOK, HeldInv, Shrinks, peers, Rest, Closed
<1>1. ASSUME NEW w \in Ways, Dial(c, w) PROVE Shrinks(c)
  BY <1>1 DEF Dial
<1>2. CASE DialFails(c)  BY <1>2 DEF DialFails
<1>3. CASE WriteRequest(c) \/ StartTunnel(c)  BY <1>3 DEF WriteRequest, StartTunnel
<1>4. CASE ForwardFails(c)  BY <1>4 DEF ForwardFails
<1>5. CASE Answered(c)  BY <1>5 DEF Answered
<1>6. CASE Switched(c)  BY <1>6 DEF Switched
<1>7. CASE CopyDown(c)  BY <1>7 DEF CopyDown
<1>8. CASE HandlerEnds(c)  BY <1>8 DEF HandlerEnds
<1>9. CASE CopyUp(c)  BY <1>9 DEF CopyUp
<1>10. CASE CopierEnds(c)  BY <1>10 DEF CopierEnds
<1>11. CASE ClientSends(c)  BY <1>11 DEF ClientSends
<1>12. CASE ClientCloses(c)  BY <1>12 DEF ClientCloses
<1>13. CASE DaemonSends(c)  BY <1>13 DEF DaemonSends
<1>14. CASE DaemonCloses(c)  BY <1>14 DEF DaemonCloses
<1> QED BY <1>1, <1>2, <1>3, <1>4, <1>5, <1>6, <1>7, <1>8, <1>9, <1>10, <1>11, <1>12, <1>13,
           <1>14 DEF StepOf, Handler, Copier, Peers

LEMMA ShrinksStep ==
    ASSUME FwdTypeOK, FwdInv, [FwdNext]_fwdVars
    PROVE  BacklogShrinks
<1> SUFFICES ASSUME NEW d \in Conns PROVE Shrinks(d)
  BY DEF BacklogShrinks
<1>1. HeldInv(d) /\ CountInv(d)  BY DEF FwdInv
<1>2. ASSUME UNCHANGED StateOf(d) PROVE Shrinks(d)
  BY <1>2 DEF StateOf, Shrinks, FwdTypeOK
<1>3. CASE UNCHANGED fwdVars
  BY <1>2, <1>3 DEF fwdVars, StateOf
<1>4. ASSUME NEW c \in Conns, StepOf(c) PROVE Shrinks(d)
  BY <1>1, <1>2, <1>4, OneAtATime, OwnShrinks
<1>5. ASSUME NEW S \in SUBSET Conns, Gone(S) PROVE Shrinks(d)
  <2>1. CASE d \in S
    BY <1>1, <1>5, <2>1 DEF Gone, Shrinks, CountInv, FwdTypeOK
  <2>2. CASE d \notin S
    BY <1>2, <1>5, <2>2 DEF Gone, StateOf
  <2> QED BY <2>1, <2>2
<1> QED BY <1>3, <1>4, <1>5, NextSteps

(* Once an end of a tunnel has hung up, the copies have each a bounded     *)
(* number of pieces to pass on, are never blocked before they have, and    *)
(* end: what TunnelEnds asks, but for that they are run.                   *)
THEOREM HangUpPropagates == FwdSpec => []HangUpHeard /\ [][BacklogShrinks]_fwdVars
<1>1. FwdTypeOK /\ FwdInv => HangUpHeard  BY HeldHears
<1>2. FwdTypeOK /\ FwdInv /\ [FwdNext]_fwdVars => [BacklogShrinks]_fwdVars
  BY ShrinksStep
<1> QED BY <1>1, <1>2, FwdInvHolds, PTL DEF FwdSpec

=============================================================================
