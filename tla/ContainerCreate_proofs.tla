----------------------- MODULE ContainerCreate_proofs -----------------------
(***************************************************************************)
(* Proofs about ContainerCreate, for any number of requests, images and    *)
(* configurations.                                                         *)
(*                                                                         *)
(* Types are proved first.  Then two invariants follow an injection: by    *)
(* name through the cache back into a request (NameInv), and by image from *)
(* the original (BaseInv: the temporary container was made from what was   *)
(* asked for) into the daemon (ImagesInv: an injected name that is looked  *)
(* up holds a trusting version of its origin) and to the client            *)
(* (AnswerInv).  NameInv holds whatever is asked for; the images need that *)
(* what is made of a digest takes nobody else's name (DigestsApart), and   *)
(* the run digest shows what becomes of digests themselves.                *)
(***************************************************************************)
EXTENDS ContainerCreate, TLAPS

USE DEF Goes, Forward, world, locals, results, Names, Failed

-----------------------------------------------------------------------------
(* References.                                                             *)

LEMMA ReferTypes ==
    ASSUME NEW r \in Refers
    PROVE  /\ Resolve(r) \in Refers /\ MakeProxyRef(r) \in Refers
           /\ Origin(r) \in Refers
<1>1. Latest \in Tags  BY ConstantAssumption
<1>2. Resolve(r) \in Refers
  <2>1. CASE r.digest # None  BY <2>1 DEF Refers, Resolve
  <2>2. CASE r.digest = None /\ r.tag = None  BY <1>1, <2>2 DEF Refers, Resolve
  <2>3. CASE r.digest = None /\ r.tag # None  BY <2>3 DEF Refers, Resolve
  <2> QED BY <2>1, <2>2, <2>3
<1>3. MakeProxyRef(r) \in Refers  BY DEF Refers, MakeProxyRef
<1>4. Origin(r) \in Refers  BY DEF Refers, Origin
<1> QED BY <1>2, <1>3, <1>4

(* The name an image is committed as is among the daemon's names.          *)
LEMMA CommitName ==
    ASSUME NEW r \in Refs
    PROVE  SplitRef(MakeProxyRef(r)) \in Names
<1>1. r \in Refers  BY ConstantAssumption
<1>2. SplitRef(MakeProxyRef(r)) =
        [r EXCEPT !.depth = @ + 1, !.digest = None, !.tag = IF @ = None THEN Latest ELSE @]
  BY <1>1 DEF SplitRef, MakeProxyRef, Refers
<1> QED BY <1>2, ConstantAssumption

(* Without a digest an image is committed as the daemon will look it up,   *)
(* and its origin is the name the original is looked up by.                *)
LEMMA CommitResolves ==
    ASSUME NEW r \in Refers, r.digest = None
    PROVE  /\ SplitRef(MakeProxyRef(r)) = Resolve(MakeProxyRef(r))
           /\ Origin(Resolve(MakeProxyRef(r))) = Origin(Resolve(r))
           /\ Resolve(MakeProxyRef(r)).depth > 0
           /\ MakeProxyRef(r) # r
<1> DEFINE tag == IF r.tag = None THEN Latest ELSE r.tag
<1>1. /\ r = [depth |-> r.depth, repo |-> r.repo, tag |-> r.tag, digest |-> None]
      /\ r.depth \in Nat
  BY DEF Refers
<1>2. MakeProxyRef(r) = [depth |-> r.depth + 1, repo |-> r.repo, tag |-> r.tag, digest |-> None]
  BY <1>1 DEF MakeProxyRef
<1>3. Resolve(MakeProxyRef(r)) =
        [depth |-> r.depth + 1, repo |-> r.repo, tag |-> tag, digest |-> None]
  BY <1>2 DEF Resolve
<1>4. SplitRef(MakeProxyRef(r)) =
        [depth |-> r.depth + 1, repo |-> r.repo, tag |-> tag, digest |-> None]
  <2> DEFINE m == MakeProxyRef(r)
  <2>1. m = [depth |-> r.depth + 1, repo |-> r.repo, tag |-> r.tag, digest |-> None]
    BY <1>2
  <2> HIDE DEF m, tag
  <2>2. SplitRef(m) = [m EXCEPT !.digest = None, !.tag = tag]  BY <2>1 DEF SplitRef, tag
  <2>3. [m EXCEPT !.digest = None] = m  BY <2>1
  <2>4. SplitRef(m) = [m EXCEPT !.tag = tag]  BY <2>2, <2>3
  <2> QED BY <2>1, <2>4 DEF m
<1>5. Resolve(r) = [depth |-> r.depth, repo |-> r.repo, tag |-> tag, digest |-> None]
  BY <1>1 DEF Resolve
<1> HIDE DEF tag
<1>6. Origin(Resolve(MakeProxyRef(r))) = Origin(Resolve(r))  BY <1>3, <1>5 DEF Origin
<1>7. MakeProxyRef(r).depth # r.depth  BY <1>1, <1>2
<1> QED BY <1>1, <1>3, <1>4, <1>6, <1>7

-----------------------------------------------------------------------------
(* Types.                                                                  *)

(* What a handler holds at the places where it works on an injection.      *)
HandlerInv ==
    \A h \in Handlers :
        /\ at[h] # "idle" => ref[h] \in Refs
        /\ at[h] \in {"inspect", "create", "extend", "commit"} => certs[h] \in CertVersions
        /\ at[h] \in {"extend", "commit"} => base[h] \in Images
        /\ at[h] \in {"store", "forward"} => target[h] \in Refers
        /\ h \in temps \ orphans <=> at[h] \in {"extend", "commit", "remove"}
        /\ h \in orphans => at[h] \in {"store", "forward", "done"}

LEMMA FindType ==
    ASSUME DataTypeOK, NEW r \in Refers
    PROVE  Find(r) \in Images \cup {None}
BY DEF DataTypeOK, Find

LEMMA InjectedType ==
    ASSUME NEW h \in Handlers, base[h] \in Images, certs[h] \in CertVersions
    PROVE  /\ Injected(h) \in Images
           /\ Injected(h).of = base[h].of /\ Injected(h).certs # {}
BY DEF Injected, Images

LEMMA CertZero == 0 \in 0 .. MaxCerts
<1>1. MaxCerts \in Nat  BY ConstantAssumption
<1> QED BY <1>1

LEMMA CertRange ==
    ASSUME NEW v \in 0 .. MaxCerts, v # 0
    PROVE  v \in 1 .. MaxCerts
<1>1. MaxCerts \in Nat  BY ConstantAssumption
<1> QED BY <1>1

LEMMA TypeStep ==
    ASSUME DataTypeOK, HandlerInv, [Next]_vars
    PROVE  DataTypeOK' /\ HandlerInv'
<1> USE DEF DataTypeOK, HandlerInv, Places, CertVersions
<1>0. Refs \subseteq Refers  BY ConstantAssumption
<1>1. ASSUME NEW h \in Handlers, Handle(h) PROVE DataTypeOK' /\ HandlerInv'
  <2>1. CASE CheckPolicy(h)  BY <2>1 DEF CheckPolicy
  <2>2. CASE FindRule(h)  BY <1>0, <2>2 DEF FindRule
  <2>3. CASE LookUp(h)
    <3>1. cache[ref[h]] \in Refers \cup {None}  BY <2>3 DEF LookUp
    <3> QED BY <1>0, <2>3, <3>1 DEF LookUp
  <2>4. CASE ReadCerts(h)
    <3>1. certFiles # 0 => certFiles \in 1 .. MaxCerts  BY CertRange DEF DataTypeOK
    <3> QED BY <1>0, <2>4, <3>1 DEF ReadCerts
  <2>5. CASE Inspect(h)  BY <1>0, <2>5 DEF Inspect
  <2>6. CASE InspectFails(h)  BY <1>0, <2>6 DEF InspectFails
  <2>7. CASE CreateTemp(h)
    <3>1. Find(ref[h]) \in Images  BY <1>0, <2>7, FindType DEF CreateTemp
    <3> QED BY <1>0, <2>7, <3>1 DEF CreateTemp
  <2>8. CASE CreateTempFails(h)  BY <1>0, <2>8 DEF CreateTempFails
  <2>9. CASE Extend(h)  BY <1>0, <2>9 DEF Extend
  <2>10. CASE ExtendFails(h)  BY <1>0, <2>10 DEF ExtendFails
  <2>11. ASSUME at[h] = "commit" PROVE CommitImage(h) => images' \in [Names -> Images \cup {None}]
    BY <2>11, InjectedType DEF CommitImage
  <2>12. CASE Commit(h)
    <3>1. MakeProxyRef(ref[h]) \in Refers  BY <1>0, <2>12, ReferTypes DEF Commit
    <3> QED BY <1>0, <2>11, <2>12, <3>1 DEF Commit
  <2>13. CASE CommitFails(h)  BY <1>0, <2>11, <2>13 DEF CommitFails
  <2>14. CASE Remove(h)
    <3>1. 0 \in 0 .. MaxCerts  BY CertZero
    <3>2. temps' \subseteq Handlers /\ orphans' \subseteq temps'
      BY <2>14 DEF Remove
    <3>3. CASE target[h] = None  BY <1>0, <2>14, <3>1, <3>2, <3>3 DEF Remove
    <3>4. CASE target[h] # None  BY <1>0, <2>14, <3>1, <3>2, <3>4 DEF Remove
    <3> QED BY <3>3, <3>4
  <2>15. CASE Store(h)  BY <1>0, <2>15 DEF Store
  <2>16. CASE Create(h)
    <3>1. Find(target[h]) \in Images \cup {None}  BY <2>16, FindType DEF Create
    <3> QED BY <1>0, <2>16, <3>1 DEF Create
  <2>17. CASE ForwardFails(h)  BY <1>0, <2>17 DEF ForwardFails
  <2> QED BY <1>1, <2>1, <2>2, <2>3, <2>4, <2>5, <2>6, <2>7, <2>8, <2>9, <2>10, <2>12, <2>13,
             <2>14, <2>15, <2>16, <2>17 DEF Handle
<1>2. ASSUME NEW h \in Handlers, NEW r \in Refs, Request(h, r)
      PROVE  DataTypeOK' /\ HandlerInv'
  BY <1>2 DEF Request
<1>3. ASSUME NEW r \in Refs, Pull(r) PROVE DataTypeOK' /\ HandlerInv'
  <2>1. [of |-> Resolve(r), certs |-> {}, label |-> "none"] \in Images
    BY <1>0, ReferTypes DEF Images
  <2> QED BY <1>3, <2>1 DEF Pull
<1>4. ASSUME NEW n \in Names, Prune(n) PROVE DataTypeOK' /\ HandlerInv'
  BY <1>4 DEF Prune
<1>5. CASE ChangeCerts  BY <1>5 DEF ChangeCerts
<1>6. ASSUME NEW c \in Configs, Reload(c) PROVE DataTypeOK' /\ HandlerInv'
  BY <1>6 DEF Reload
<1>7. CASE Crash
  <2>1. \A h \in Handlers : at'[h] \in {"idle", "done"} /\ (at'[h] # "idle" => at[h] # "idle")
    BY <1>7 DEF Crash
  <2>2. HandlerInv'  BY <1>7, <2>1 DEF Crash
  <2>3. DataTypeOK'  BY <1>7, CertZero DEF Crash
  <2> QED BY <2>2, <2>3
<1>8. CASE UNCHANGED vars  BY <1>8 DEF vars
<1> QED BY <1>1, <1>2, <1>3, <1>4, <1>5, <1>6, <1>7, <1>8 DEF Next, World

(* Every variable keeps its type.                                          *)
THEOREM TypeCorrect == Spec => [](TypeOK /\ HandlerInv)
<1>1. Init => DataTypeOK /\ HandlerInv
  <2> SUFFICES ASSUME Init PROVE DataTypeOK /\ HandlerInv  OBVIOUS
  <2>1. FirstImages \in [Names -> Images \cup {None}]
    BY ConstantAssumption
  <2>2. 1 \in 0 .. MaxCerts /\ FirstConfig \in Configs
    <3>1. MaxCerts \in Nat \ {0} /\ FirstConfig \in Configs  BY ConstantAssumption
    <3> QED BY <3>1
  <2>3. HandlerInv  BY DEF Init, HandlerInv
  <2>4. DataTypeOK  BY <2>1, <2>2, CertZero DEF Init, DataTypeOK, Places
  <2> QED BY <2>3, <2>4
<1>2. Init => FlagTypeOK  BY Zenon DEF Init, FlagTypeOK
<1>3. FlagTypeOK /\ [Next]_vars => FlagTypeOK'
  <2> SUFFICES ASSUME FlagTypeOK, [Next]_vars PROVE FlagTypeOK'  OBVIOUS
  <2>1. CASE \E n \in Names : Prune(n)  BY <2>1, Zenon DEF Prune, FlagTypeOK
  <2>2. UNCHANGED pruned => FlagTypeOK'  BY Zenon DEF FlagTypeOK
  <2>3. UNCHANGED pruned \/ \E n \in Names : Prune(n)
    BY DEF Next, Handle, World, CheckPolicy, FindRule, LookUp, ReadCerts, Inspect, InspectFails,
           CreateTemp, CreateTempFails, Extend, ExtendFails, Commit, CommitFails, Remove,
           Store, Create, ForwardFails, Request, Pull, ChangeCerts, Reload, Crash, vars
  <2> QED BY <2>1, <2>2, <2>3
<1>4. DataTypeOK /\ HandlerInv /\ [Next]_vars => (DataTypeOK /\ HandlerInv)'
  BY TypeStep
<1> QED BY <1>1, <1>2, <1>3, <1>4, PTL DEF Spec, TypeOK

(* No temporary container is forgotten, whichever call fails: the deferred *)
(* removal is still to come wherever one exists.                           *)
THEOREM TempsCorrect == Spec => []TempsAccountedFor
<1>1. HandlerInv /\ DataTypeOK => TempsAccountedFor
  BY DEF HandlerInv, DataTypeOK, TempsAccountedFor
<1>2. TypeOK => DataTypeOK  BY DEF TypeOK
<1> QED BY <1>1, <1>2, TypeCorrect, PTL

-----------------------------------------------------------------------------
(* Which image a request gets.                                             *)

(* What the daemon may look up when a client asks for r.                   *)
LookedUp(r) == {Resolve(r), Resolve(MakeProxyRef(r))}

(* What is made of a reference by digest is committed by tag.  It does no  *)
(* harm to others when no reference looks that name up.                    *)
DigestsApart ==
    \A r, q \in Refs : r.digest # None => SplitRef(MakeProxyRef(r)) \notin LookedUp(q)

(* A name that is looked up holds a version of its origin, an injected     *)
(* name a trusting one.                                                    *)
ImagesInv ==
    \A q \in Refs : \A n \in Names \cap LookedUp(q) : images[n] # None =>
        /\ images[n].of = Origin(n)
        /\ n.depth > 0 => images[n].certs # {}

(* A handler works on the image it was asked for.                          *)
BaseInv ==
    \A h \in Handlers : at[h] \in {"extend", "commit"} =>
        base[h].of = Origin(Resolve(ref[h]))

(* r stands for itself, or is injected, and the image is there unless r is *)
(* by digest.                                                              *)
StandsFor(t, r) ==
    \/ t = r
    \/ t = MakeProxyRef(r) /\ (r.digest = None /\ pruned = FALSE => Find(t) # None)

CacheInv == \A r \in Refs : cache[r] # None => StandsFor(cache[r], r)

TargetOK(h) ==
    /\ at[h] \in {"store", "forward"} => StandsFor(target[h], ref[h])
    /\ at[h] = "remove" => target[h] = None \/ StandsFor(target[h], ref[h])

TargetInv == \A h \in Handlers : TargetOK(h)

AnswerInv ==
    \A h \in Handlers : answer[h] = "created" =>
        /\ at[h] = "done"
        /\ ran[h].of = Origin(Resolve(ref[h]))
        /\ target[h] # ref[h] => ran[h].certs # {}

NameInv == CacheInv /\ TargetInv

ImageInv == ImagesInv /\ BaseInv /\ AnswerInv

LEMMA FindOrigin ==
    ASSUME DataTypeOK, ImagesInv, NEW r, Find(r) # None,
           NEW q \in Refs, r = q \/ r = MakeProxyRef(q)
    PROVE  /\ Find(r).of = Origin(Resolve(r))
           /\ Resolve(r).depth > 0 => Find(r).certs # {}
BY DEF Find, ImagesInv, LookedUp

(* The steps after which an image may be elsewhere: only prune takes one   *)
(* away.                                                                   *)
Kept ==
    \/ pruned' = TRUE
    \/ UNCHANGED pruned /\ \A n \in Names : images[n] # None => images'[n] # None

LEMMA FindKept ==
    ASSUME NEW t, Kept, pruned' = FALSE, Find(t) # None
    PROVE  pruned = FALSE /\ Find(t)' # None
BY DEF Kept, Find, Resolve

LEMMA StandsForKept ==
    ASSUME FlagTypeOK, Kept, NEW t, NEW r, StandsFor(t, r)
    PROVE  StandsFor(t, r)'
<1>1. CASE t = r  BY <1>1 DEF StandsFor
<1>2. CASE t # r
  <2>1. t = MakeProxyRef(r) /\ (r.digest = None /\ pruned = FALSE => Find(t) # None)
    BY <1>2 DEF StandsFor
  <2>2. ASSUME r.digest = None, pruned' = FALSE PROVE Find(t)' # None
    <3>1. pruned = FALSE  BY <2>2 DEF Kept
    <3> QED BY <2>1, <2>2, <3>1, FindKept
  <2> QED BY <2>1, <2>2 DEF StandsFor, MakeProxyRef
<1> QED BY <1>1, <1>2

LEMMA InjectedImage ==
    ASSUME DataTypeOK, HandlerInv, NEW h \in Handlers, at[h] \in {"extend", "commit"}
    PROVE  /\ Injected(h) # None /\ Injected(h).of = base[h].of
           /\ Injected(h).certs # {}
BY InjectedType, ConstantAssumption DEF HandlerInv

LEMMA KeptStep ==
    ASSUME DataTypeOK, HandlerInv, FlagTypeOK, [Next]_vars
    PROVE  Kept
<1>1. ASSUME NEW h \in Handlers, at[h] = "commit", CommitImage(h), UNCHANGED pruned
      PROVE  Kept
  <2>1. Injected(h) # None  BY <1>1, InjectedImage
  <2> QED BY <1>1, <2>1 DEF CommitImage, Kept, DataTypeOK
<1>2. ASSUME NEW h \in Handlers, Commit(h) \/ CommitFails(h) PROVE Kept
  <2>1. at[h] = "commit" /\ UNCHANGED pruned  BY <1>2 DEF Commit, CommitFails
  <2>2. CASE CommitImage(h)  BY <1>1, <2>1, <2>2
  <2>3. CASE UNCHANGED images  BY <2>1, <2>3 DEF Kept
  <2> QED BY <1>2, <2>2, <2>3 DEF Commit, CommitFails
<1>3. ASSUME NEW r \in Refs, Pull(r) PROVE Kept
  <2> DEFINE i == [of |-> Resolve(r), certs |-> {}, label |-> "none"]
  <2>1. i \in Images  BY ReferTypes, ConstantAssumption DEF Images
  <2>2. i # None  BY <2>1, ConstantAssumption
  <2> HIDE DEF i
  <2>3. images' = [images EXCEPT ![Resolve(r)] = i] /\ UNCHANGED pruned
    BY <1>3 DEF Pull, i
  <2> QED BY <2>2, <2>3 DEF Kept, DataTypeOK
<1>4. ASSUME NEW n \in Names, Prune(n) PROVE Kept
  BY <1>4 DEF Prune, Kept
<1>5. CASE UNCHANGED <<images, pruned>>  BY <1>5 DEF Kept
<1>6. \/ \E h \in Handlers : Commit(h) \/ CommitFails(h)
      \/ \E r \in Refs : Pull(r)
      \/ \E n \in Names : Prune(n)
      \/ UNCHANGED <<images, pruned>>
  BY DEF Next, Handle, World, CheckPolicy, FindRule, LookUp, ReadCerts, Inspect, InspectFails,
         CreateTemp, CreateTempFails, Extend, ExtendFails, Remove, Store, Create,
         ForwardFails, Request, ChangeCerts, Reload, Crash, vars
<1> QED BY <1>2, <1>3, <1>4, <1>5, <1>6

LEMMA ImagesStep ==
    ASSUME DigestsApart, DataTypeOK, HandlerInv, ImagesInv, BaseInv, [Next]_vars
    PROVE  ImagesInv'
<1> USE DEF ImagesInv
<1>0. \A q \in Refs : LookedUp(q)' = LookedUp(q)  BY DEF LookedUp, Resolve, MakeProxyRef
<1>1. ASSUME NEW h \in Handlers, at[h] = "commit", CommitImage(h) PROVE ImagesInv'
  <2> DEFINE m == SplitRef(MakeProxyRef(ref[h]))
  <2>1. ref[h] \in Refs /\ ref[h] \in Refers
    BY <1>1, ConstantAssumption DEF HandlerInv
  <2>2. \/ Injected(h).of = Origin(m)
        \/ \A q \in Refs : m \notin LookedUp(q)
    <3>1. CASE ref[h].digest = None
      BY <1>1, <2>1, <3>1, InjectedImage, CommitResolves DEF BaseInv
    <3>2. CASE ref[h].digest # None  BY <2>1, <3>2 DEF DigestsApart
    <3> QED BY <3>1, <3>2
  <2>3. Injected(h).certs # {}  BY <1>1, InjectedImage
  <2>4. images' = [images EXCEPT ![m] = Injected(h)]  BY <1>1 DEF CommitImage
  <2> HIDE DEF m
  <2> QED BY <1>0, <2>2, <2>3, <2>4 DEF DataTypeOK
<1>2. ASSUME NEW h \in Handlers, Commit(h) \/ CommitFails(h) PROVE ImagesInv'
  BY <1>1, <1>2 DEF Commit, CommitFails
<1>3. ASSUME NEW r \in Refs, Pull(r) PROVE ImagesInv'
  <2>1. r \in Refers /\ r.depth = 0  BY <1>3, ConstantAssumption DEF Pull
  <2>2. Resolve(r).depth = 0 /\ Origin(Resolve(r)) = Resolve(r)
    BY <2>1 DEF Resolve, Origin, Refers
  <2> DEFINE i == [of |-> Resolve(r), certs |-> {}, label |-> "none"]
  <2>3. i.of = Resolve(r)  OBVIOUS
  <2>4. images' = [images EXCEPT ![Resolve(r)] = i]  BY <1>3 DEF Pull
  <2> HIDE DEF i
  <2> QED BY <1>0, <2>2, <2>3, <2>4 DEF DataTypeOK
<1>4. ASSUME NEW n \in Names, Prune(n) PROVE ImagesInv'
  BY <1>0, <1>4 DEF Prune, DataTypeOK
<1>5. CASE UNCHANGED images  BY <1>0, <1>5
<1>6. \/ \E h \in Handlers : Commit(h) \/ CommitFails(h)
      \/ \E r \in Refs : Pull(r)
      \/ \E n \in Names : Prune(n)
      \/ UNCHANGED images
  BY DEF Next, Handle, World, CheckPolicy, FindRule, LookUp, ReadCerts, Inspect, InspectFails,
         CreateTemp, CreateTempFails, Extend, ExtendFails, Remove, Store, Create,
         ForwardFails, Request, ChangeCerts, Reload, Crash, vars
<1> QED BY <1>2, <1>3, <1>4, <1>5, <1>6

LEMMA BaseStep ==
    ASSUME DataTypeOK, HandlerInv, ImagesInv, BaseInv, [Next]_vars
    PROVE  BaseInv'
<1> USE DEF BaseInv, DataTypeOK
<1>1. ASSUME NEW h \in Handlers, CreateTemp(h) PROVE BaseInv'
  <2>1. ref[h] \in Refs  BY <1>1 DEF CreateTemp, HandlerInv
  <2>2. Find(ref[h]).of = Origin(Resolve(ref[h]))
    BY <1>1, <2>1, FindOrigin DEF CreateTemp
  <2>3. /\ base' = [base EXCEPT ![h] = Find(ref[h])] /\ UNCHANGED ref
        /\ \A g \in Handlers : g # h => at'[g] = at[g]
    BY <1>1 DEF CreateTemp
  <2> QED BY <2>2, <2>3
<1>2. ASSUME NEW h \in Handlers, Handle(h), ~CreateTemp(h) PROVE BaseInv'
  <2>1. /\ UNCHANGED ref
        /\ \A g \in Handlers : at'[g] \in {"extend", "commit"} =>
               base'[g] = base[g] /\ at[g] \in {"extend", "commit"}
    BY <1>2 DEF Handle, CheckPolicy, FindRule, LookUp, ReadCerts, Inspect, InspectFails,
       CreateTempFails, Extend, ExtendFails, Commit, CommitFails, Remove, Store, Create,
       ForwardFails
  <2> QED BY <2>1
<1>3. ASSUME NEW h \in Handlers, NEW r \in Refs, Request(h, r) PROVE BaseInv'
  BY <1>3 DEF Request
<1>4. CASE World
  BY <1>4 DEF World, Pull, Prune, ChangeCerts, Reload, Crash
<1>5. CASE UNCHANGED vars  BY <1>5 DEF vars
<1> QED BY <1>1, <1>2, <1>3, <1>4, <1>5 DEF Next

LEMMA CommitStands ==
    ASSUME DataTypeOK, HandlerInv, NEW h \in Handlers, Commit(h), ref[h].digest = None,
           NEW t, t = MakeProxyRef(ref[h])
    PROVE  Find(t)' # None
<1> DEFINE m == SplitRef(t)
<1>1. at[h] = "commit" /\ ref[h] \in Refs  BY DEF Commit, HandlerInv
<1>2. ref[h] \in Refers  BY <1>1, ConstantAssumption
<1>3. m = Resolve(t)  BY <1>2, CommitResolves
<1>4. m \in Names  BY <1>1, CommitName
<1>5. Injected(h) # None  BY <1>1, InjectedImage
<1>6. images' = [images EXCEPT ![m] = Injected(h)]  BY DEF Commit, CommitImage
<1> HIDE DEF m
<1>7. images'[m] # None  BY <1>4, <1>5, <1>6 DEF DataTypeOK
<1> QED BY <1>3, <1>4, <1>7 DEF Find, Resolve

LEMMA CacheStep ==
    ASSUME DataTypeOK, HandlerInv, FlagTypeOK, CacheInv, TargetInv, Kept, [Next]_vars
    PROVE  CacheInv'
<1>1. ASSUME NEW h \in Handlers, Store(h) PROVE CacheInv'
  <2>1. StandsFor(target[h], ref[h])'
    <3>1. StandsFor(target[h], ref[h])  BY <1>1 DEF Store, TargetInv, TargetOK
    <3>2. StandsFor(target[h], ref[h])' <=> StandsFor(target[h], ref[h])
      BY <1>1 DEF Store, StandsFor, Find, Resolve, MakeProxyRef
    <3> QED BY <3>1, <3>2
  <2>2. cache' = [cache EXCEPT ![ref[h]] = target[h]] /\ UNCHANGED <<images, pruned, ref, target>>
    BY <1>1 DEF Store
  <2> SUFFICES ASSUME NEW r \in Refs, cache'[r] # None PROVE StandsFor(cache[r], r)'
    BY DEF CacheInv
  <2>3. CASE r = ref[h]
    <3>1. cache'[r] = target'[h] /\ r = ref'[h]  BY <2>2, <2>3 DEF DataTypeOK
    <3> QED BY <2>1, <3>1 DEF StandsFor
  <2>4. CASE r # ref[h]
    <3>1. cache'[r] = cache[r]  BY <2>2, <2>4 DEF DataTypeOK
    <3>2. StandsFor(cache[r], r)  BY <2>4, <3>1 DEF CacheInv
    <3> QED BY <2>2, <3>1, <3>2 DEF StandsFor, Find
  <2> QED BY <2>3, <2>4
<1>2. CASE UNCHANGED cache
  <2> SUFFICES ASSUME NEW r \in Refs, cache'[r] # None PROVE StandsFor(cache[r], r)'
    BY DEF CacheInv
  <2>1. StandsFor(cache[r], r)  BY <1>2 DEF CacheInv
  <2> DEFINE t == cache[r]
  <2>2. StandsFor(t, r)  BY <2>1
  <2>3. t' = t  BY <1>2
  <2> HIDE DEF t
  <2>5. CASE t = r  BY <1>2, <2>5 DEF StandsFor, t
  <2>6. CASE t = MakeProxyRef(r) /\ (r.digest = None /\ pruned = FALSE => Find(t) # None)
    <3>1. ASSUME r.digest = None, pruned' = FALSE PROVE Find(cache[r])' # None
      <4>1. pruned = FALSE  BY <3>1 DEF Kept
      <4>2. Find(cache[r]) # None  BY <2>6, <3>1, <4>1 DEF t
      <4>3. Resolve(cache[r]) \in Names /\ images[Resolve(cache[r])] # None
        BY <4>2 DEF Find
      <4>4. images'[Resolve(cache[r])] # None  BY <3>1, <4>3 DEF Kept
      <4> QED BY <1>2, <4>3, <4>4 DEF Find, Resolve
    <3> QED BY <1>2, <2>6, <3>1 DEF StandsFor, MakeProxyRef, t
  <2> QED BY <2>2, <2>5, <2>6 DEF StandsFor
<1>3. CASE Crash  BY <1>3 DEF Crash, CacheInv
<1>4. UNCHANGED cache \/ Crash \/ \E h \in Handlers : Store(h)
  BY DEF Next, Handle, World, CheckPolicy, FindRule, LookUp, ReadCerts, Inspect, InspectFails,
         CreateTemp, CreateTempFails, Extend, ExtendFails, Commit, CommitFails, Remove,
         Create, ForwardFails, Request, Pull, Prune, ChangeCerts, Reload, vars
<1> QED BY <1>1, <1>2, <1>3, <1>4

LEMMA TargetIsRef ==
    ASSUME NEW h \in Handlers, target'[h] = ref'[h]
    PROVE  TargetOK(h)'
BY DEF TargetOK, StandsFor

(* What stands for the request at a handler keeps standing for it.         *)
LEMMA TargetKept ==
    ASSUME TargetInv, Kept, NEW h \in Handlers, ref'[h] = ref[h], target'[h] = target[h],
           \/ at'[h] = at[h]
           \/ at[h] = "remove" /\ target[h] # None
           \/ at[h] = "store" /\ at'[h] = "forward"
           \/ at'[h] \notin {"store", "forward", "remove"}
    PROVE  TargetOK(h)'
<1>1. StandsFor(target[h], ref[h]) => StandsFor(target[h], ref[h])'
  <2>1. CASE target[h] = ref[h]  BY <2>1 DEF StandsFor
  <2>2. CASE /\ target[h] = MakeProxyRef(ref[h])
             /\ ref[h].digest = None /\ pruned = FALSE => Find(target[h]) # None
    <3>1. ASSUME ref[h].digest = None, pruned' = FALSE PROVE Find(target[h])' # None
      <4>1. pruned = FALSE  BY <3>1 DEF Kept
      <4>2. Resolve(target[h]) \in Names /\ images[Resolve(target[h])] # None
        BY <2>2, <3>1, <4>1 DEF Find
      <4>3. images'[Resolve(target[h])] # None  BY <3>1, <4>2 DEF Kept
      <4> QED BY <4>2, <4>3 DEF Find, Resolve
    <3> QED BY <2>2, <3>1 DEF StandsFor, MakeProxyRef
  <2> QED BY <2>1, <2>2 DEF StandsFor
<1> QED BY <1>1 DEF TargetInv, TargetOK

LEMMA TargetStep ==
    ASSUME DataTypeOK, HandlerInv, FlagTypeOK, CacheInv, TargetInv, Kept, [Next]_vars
    PROVE  TargetInv'
<1>0. ASSUME NEW h \in Handlers, Handle(h), NEW g \in Handlers, g # h PROVE TargetOK(g)'
  <2>1. at'[g] = at[g] /\ ref'[g] = ref[g] /\ target'[g] = target[g]
    BY <1>0 DEF Handle, CheckPolicy, FindRule, LookUp, ReadCerts, Inspect, InspectFails,
       CreateTemp, CreateTempFails, Extend, ExtendFails, Commit, CommitFails, Remove, Store,
       Create, ForwardFails, DataTypeOK
  <2> QED BY TargetKept, <2>1
<1>1. ASSUME NEW h \in Handlers, Handle(h) PROVE TargetOK(h)'
  <2> USE DEF DataTypeOK
  <2>2. CASE CheckPolicy(h)  BY TargetKept, <2>2 DEF CheckPolicy
  <2>3. CASE FindRule(h)
    <3>1. CASE ~config.rule
      <4>1. target'[h] = ref'[h]  BY <2>3, <3>1 DEF FindRule
      <4> QED BY TargetIsRef, <4>1
    <3>2. CASE ~(~config.rule)
      <4>1. at'[h] = "cache" /\ UNCHANGED <<ref, target>>  BY <2>3, <3>2 DEF FindRule
      <4> QED BY TargetKept, <4>1
    <3> QED BY <3>1, <3>2
  <2>4. CASE LookUp(h)
    <3>1. CASE cache[ref[h]] = None  BY TargetKept, <2>4, <3>1 DEF LookUp
    <3>2. CASE cache[ref[h]] # None
      <4>1. /\ target'[h] = cache[ref[h]] /\ UNCHANGED <<ref, images, pruned>>
            /\ at'[h] = "forward"
        BY <2>4, <3>2 DEF LookUp
      <4>2. StandsFor(cache[ref[h]], ref[h])  BY <2>4, <3>2 DEF LookUp, HandlerInv, CacheInv
      <4>3. StandsFor(target[h], ref[h])'
        BY <4>1, <4>2 DEF StandsFor, Find, Resolve, MakeProxyRef
      <4> QED BY <4>1, <4>3 DEF TargetOK
    <3> QED BY <3>1, <3>2
  <2>5. CASE ReadCerts(h)
    <3>1. CASE certFiles = 0
      <4>1. target'[h] = ref'[h]  BY <2>5, <3>1 DEF ReadCerts
      <4> QED BY TargetIsRef, <4>1
    <3>2. CASE ~(certFiles = 0)
      <4>1. at'[h] = "inspect" /\ UNCHANGED <<ref, target>>  BY <2>5, <3>2 DEF ReadCerts
      <4> QED BY TargetKept, <4>1
    <3> QED BY <3>1, <3>2
  <2>6. CASE Inspect(h)
    <3>1. CASE HasProxyLabel(Find(ref[h]))
      <4>1. target'[h] = ref'[h]  BY <2>6, <3>1 DEF Inspect
      <4> QED BY TargetIsRef, <4>1
    <3>2. CASE ~(HasProxyLabel(Find(ref[h])))
      <4>1. at'[h] = "create" /\ UNCHANGED <<ref, target>>  BY <2>6, <3>2 DEF Inspect
      <4> QED BY TargetKept, <4>1
    <3> QED BY <3>1, <3>2
  <2>7. CASE InspectFails(h) \/ CreateTempFails(h)
    <3>1. target'[h] = ref'[h]  BY <2>7 DEF InspectFails, CreateTempFails
    <3> QED BY TargetIsRef, <3>1
  <2>8. CASE CreateTemp(h)  BY TargetKept, <2>8 DEF CreateTemp
  <2>9. CASE Extend(h)
    <3>1. CASE certs[h] \in base[h].certs
      <4>1. target'[h] = ref'[h]  BY <2>9, <3>1 DEF Extend
      <4> QED BY TargetIsRef, <4>1
    <3>2. CASE ~(certs[h] \in base[h].certs)
      <4>1. at'[h] = "commit" /\ UNCHANGED <<ref, target>>  BY <2>9, <3>2 DEF Extend
      <4> QED BY TargetKept, <4>1
    <3> QED BY <3>1, <3>2
  <2>10. CASE ExtendFails(h) \/ CommitFails(h)
    <3>1. target'[h] = None /\ at'[h] = "remove"  BY <2>10 DEF ExtendFails, CommitFails
    <3> QED BY <3>1 DEF TargetOK
  <2>11. CASE Commit(h)
    <3> DEFINE t == MakeProxyRef(ref[h])
    <3>1. target'[h] = t /\ ref'[h] = ref[h]  BY <2>11 DEF Commit
    <3>2. ASSUME ref[h].digest = None PROVE Find(target[h])' # None
      <4> SUFFICES ASSUME NEW u, u = MakeProxyRef(ref[h]) PROVE Find(u)' # None
        BY <3>1 DEF Find, Resolve, MakeProxyRef
      <4> QED BY <2>11, <3>2, CommitStands
    <3> QED BY <2>11, <3>1, <3>2 DEF StandsFor, MakeProxyRef, TargetOK
  <2>12. CASE Remove(h)
    <3>1. CASE target[h] = None
      <4>1. target'[h] = ref'[h]  BY <2>12, <3>1 DEF Remove
      <4> QED BY TargetIsRef, <4>1
    <3>2. CASE target[h] # None
      <4>1. at[h] = "remove" /\ UNCHANGED <<ref, target>>  BY <2>12, <3>2 DEF Remove
      <4> QED BY TargetKept, <3>2, <4>1
    <3> QED BY <3>1, <3>2
  <2>13. CASE Store(h)  BY TargetKept, <2>13 DEF Store
  <2>14. CASE Create(h) \/ ForwardFails(h)  BY TargetKept, <2>14 DEF Create, ForwardFails
  <2> QED BY <1>1, <2>2, <2>3, <2>4, <2>5, <2>6, <2>7, <2>8, <2>9, <2>10, <2>11, <2>12,
             <2>13, <2>14 DEF Handle
<1>2. ASSUME NEW h \in Handlers, NEW r \in Refs, Request(h, r)
      PROVE  \A g \in Handlers : TargetOK(g)'
  <2>1. ASSUME NEW g \in Handlers, g # h PROVE TargetOK(g)'
    BY TargetKept, <1>2, <2>1 DEF Request, DataTypeOK
  <2>2. at'[h] = "policy"  BY <1>2 DEF Request, DataTypeOK
  <2>3. TargetOK(h)'  BY <2>2 DEF TargetOK
  <2> QED BY <2>1, <2>3
<1>3. ASSUME World, NEW g \in Handlers PROVE TargetOK(g)'
  <2>1. /\ UNCHANGED <<ref, target>>
        /\ at'[g] = at[g] \/ at'[g] \notin {"store", "forward", "remove"}
    BY <1>3 DEF World, Pull, Prune, ChangeCerts, Reload, Crash
  <2> QED BY TargetKept, <2>1
<1>4. ASSUME UNCHANGED vars, NEW g \in Handlers PROVE TargetOK(g)'
  <2>1. UNCHANGED <<ref, target, at>>  BY <1>4 DEF vars
  <2> QED BY TargetKept, <2>1
<1>5. \A g \in Handlers : TargetOK(g)'  BY <1>0, <1>1, <1>2, <1>3, <1>4 DEF Next
<1> QED BY <1>5 DEF TargetInv

(* Of the names a reference by tag has, each is of the same origin.        *)
LEMMA OriginOf ==
    ASSUME NEW r \in Refers
    PROVE  Origin(Resolve(MakeProxyRef(r))) = Origin(Resolve(r))
<1>1. CASE r.digest = None  BY <1>1, CommitResolves
<1>2. CASE r.digest # None
  <2>1. /\ r = [depth |-> r.depth, repo |-> r.repo, tag |-> r.tag, digest |-> r.digest]
        /\ r.depth \in Nat
    BY DEF Refers
  <2>2. MakeProxyRef(r) =
          [depth |-> r.depth + 1, repo |-> r.repo, tag |-> r.tag, digest |-> r.digest]
    BY <2>1 DEF MakeProxyRef
  <2>3. Resolve(MakeProxyRef(r)) =
          [depth |-> r.depth + 1, repo |-> r.repo, tag |-> None, digest |-> r.digest]
    BY <1>2, <2>2 DEF Resolve
  <2>4. Resolve(r) = [depth |-> r.depth, repo |-> r.repo, tag |-> None, digest |-> r.digest]
    BY <1>2, <2>1 DEF Resolve
  <2> QED BY <2>3, <2>4 DEF Origin
<1> QED BY <1>1, <1>2

LEMMA InjectedDeep ==
    ASSUME NEW r \in Refers
    PROVE  Resolve(MakeProxyRef(r)).depth > 0
<1>1. MakeProxyRef(r) \in Refers /\ MakeProxyRef(r).depth = r.depth + 1 /\ r.depth \in Nat
  BY ReferTypes DEF MakeProxyRef, Refers
<1>2. Resolve(MakeProxyRef(r)).depth = MakeProxyRef(r).depth
  BY <1>1 DEF Resolve, Refers
<1> QED BY <1>1, <1>2

Settled == \A h \in Handlers : answer[h] = "created" => at[h] = "done"

(* An answered request is left alone.                                      *)
LEMMA AnswersStay ==
    ASSUME DataTypeOK, Settled, [Next]_vars, NEW g \in Handlers, answer'[g] = "created"
    PROVE  /\ at'[g] = "done"
           /\ \/ Create(g)
              \/ answer[g] = "created" /\ UNCHANGED <<ran[g], ref[g], target[g]>>
<1> USE DEF DataTypeOK
<1>1. ASSUME NEW h \in Handlers, Create(h)
      PROVE  /\ at'[g] = "done"
             /\ \/ Create(g)
                \/ answer[g] = "created" /\ UNCHANGED <<ran[g], ref[g], target[g]>>
  <2>1. CASE g = h  BY <1>1, <2>1 DEF Create
  <2>2. CASE g # h
    <3>1. /\ answer'[g] = answer[g] /\ at'[g] = at[g]
          /\ UNCHANGED <<ran[g], ref[g], target[g]>>
      BY <1>1, <2>2 DEF Create
    <3> QED BY <3>1 DEF Settled
  <2> QED BY <2>1, <2>2
<1>2. ASSUME NEW h \in Handlers, Handle(h) \/ \E r \in Refs : Request(h, r), ~Create(h)
      PROVE  /\ at'[g] = "done"
             /\ answer[g] = "created" /\ UNCHANGED <<ran[g], ref[g], target[g]>>
  <2>1. /\ at[h] # "done" /\ UNCHANGED ran
        /\ \A k \in Handlers : k # h => /\ answer'[k] = answer[k] /\ at'[k] = at[k]
                                        /\ ref'[k] = ref[k] /\ target'[k] = target[k]
    BY <1>2 DEF Handle, Request, CheckPolicy, FindRule, LookUp, ReadCerts, Inspect,
       InspectFails, CreateTemp, CreateTempFails, Extend, ExtendFails, Commit, CommitFails,
       Remove, Store, ForwardFails
  <2>2. answer'[h] # "created"
    <3>1. answer[h] # "created"  BY <2>1 DEF Settled
    <3> QED BY <1>2, <3>1 DEF Handle, Request, CheckPolicy, FindRule, LookUp, ReadCerts,
       Inspect, InspectFails, CreateTemp, CreateTempFails, Extend, ExtendFails, Commit,
       CommitFails, Remove, Store, ForwardFails
  <2> QED BY <2>1, <2>2 DEF Settled
<1>3. CASE World
  <2>1. CASE Crash  BY <2>1 DEF Crash, Settled
  <2>2. CASE ~Crash
    BY <1>3, <2>2 DEF World, Pull, Prune, ChangeCerts, Reload, Settled
  <2> QED BY <2>1, <2>2
<1>4. CASE UNCHANGED vars  BY <1>4 DEF vars, Settled
<1> QED BY <1>1, <1>2, <1>3, <1>4 DEF Next

LEMMA AnswerStep ==
    ASSUME DataTypeOK, HandlerInv, ImagesInv, TargetInv, AnswerInv, [Next]_vars
    PROVE  AnswerInv'
<1> SUFFICES ASSUME NEW h \in Handlers, answer'[h] = "created"
             PROVE  /\ at'[h] = "done"
                    /\ ran'[h].of = Origin(Resolve(ref'[h]))
                    /\ target'[h] # ref'[h] => ran'[h].certs # {}
  BY DEF AnswerInv, Origin, Resolve
<1>1. /\ at'[h] = "done"
      /\ \/ Create(h)
         \/ answer[h] = "created" /\ UNCHANGED <<ran[h], ref[h], target[h]>>
  <2>1. Settled  BY DEF AnswerInv, Settled
  <2> QED BY <2>1, AnswersStay
<1>2. CASE Create(h)
  <2>1. at[h] = "forward" /\ StandsFor(target[h], ref[h])
    BY <1>2 DEF Create, TargetInv, TargetOK
  <2>2. ref[h] \in Refs /\ ref[h] \in Refers  BY <2>1, ConstantAssumption DEF HandlerInv
  <2>3. target[h] = ref[h] \/ target[h] = MakeProxyRef(ref[h])  BY <2>1 DEF StandsFor
  <2>4. Find(target[h]) # None /\ ran'[h] = Find(target[h]) /\ UNCHANGED <<ref, target>>
    BY <1>2 DEF Create, DataTypeOK
  <2>5. CASE target[h] = ref[h]  BY <1>1, <2>2, <2>4, <2>5, FindOrigin
  <2>6. CASE target[h] = MakeProxyRef(ref[h])
    BY <1>1, <2>2, <2>4, <2>6, FindOrigin, OriginOf, InjectedDeep
  <2> QED BY <1>1, <2>3, <2>5, <2>6
<1>3. CASE answer[h] = "created" /\ UNCHANGED <<ran[h], ref[h], target[h]>>
  BY <1>1, <1>3 DEF AnswerInv
<1> QED BY <1>1, <1>2, <1>3

LEMMA NameStep ==
    ASSUME DataTypeOK, HandlerInv, FlagTypeOK, NameInv, [Next]_vars
    PROVE  NameInv'
<1>1. Kept  BY KeptStep
<1> QED BY <1>1, CacheStep, TargetStep DEF NameInv

LEMMA ImageStep ==
    ASSUME DigestsApart, DataTypeOK, HandlerInv, NameInv, ImageInv, [Next]_vars
    PROVE  ImageInv'
BY ImagesStep, BaseStep, AnswerStep DEF NameInv, ImageInv

LEMMA NamesCorrect == Spec => []NameInv
<1>1. Init => NameInv
  BY ConstantAssumption DEF Init, NameInv, CacheInv, TargetInv, TargetOK
<1>2. DataTypeOK /\ HandlerInv /\ FlagTypeOK /\ NameInv /\ [Next]_vars => NameInv'
  BY NameStep
<1>3. TypeOK => DataTypeOK /\ FlagTypeOK  BY DEF TypeOK
<1> QED BY <1>1, <1>2, <1>3, TypeCorrect, PTL DEF Spec

LEMMA ImagesCorrect == ASSUME DigestsApart PROVE Spec => []ImageInv
<1>1. Init => ImageInv
  BY ConstantAssumption DEF Init, ImageInv, ImagesInv, BaseInv, AnswerInv
<1>2. DataTypeOK /\ HandlerInv /\ NameInv /\ ImageInv /\ [Next]_vars => ImageInv'
  BY ImageStep
<1>3. TypeOK => DataTypeOK  BY DEF TypeOK
<1> QED BY <1>1, <1>2, <1>3, TypeCorrect, NamesCorrect, PTL DEF Spec

(* RunsWhatWasAsked: a client gets a container of the image it asked for,  *)
(* trusting a certificate if the proxy put another image in its place,     *)
(* unless an image asked for by digest is injected under a name that       *)
(* another client's reference means.                                       *)
THEOREM RightImage == ASSUME DigestsApart PROVE Spec => []RunsWhatWasAsked
<1>1. ImageInv => RunsWhatWasAsked  BY DEF ImageInv, AnswerInv, RunsWhatWasAsked
<1> QED BY <1>1, ImagesCorrect, PTL

(* The cache promises the original or the injected name, and for a         *)
(* reference by tag never an image that was not made, whatever others ask  *)
(* for by digest.                                                          *)
TagsCached ==
    \A r \in Refs : cache[r] # None =>
        /\ cache[r] \in {r, MakeProxyRef(r)}
        /\ cache[r] # r /\ r.digest = None /\ ~pruned => Find(cache[r]) # None

THEOREM TagsKeepNames == Spec => []TagsCached
<1>1. NameInv /\ FlagTypeOK => TagsCached
  BY DEF NameInv, CacheInv, StandsFor, TagsCached, FlagTypeOK
<1>2. TypeOK => FlagTypeOK  BY DEF TypeOK
<1> QED BY <1>1, <1>2, NamesCorrect, TypeCorrect, PTL

NoDigests == \A r \in Refs : r.digest = None

(* CacheKeepsName: so when nobody asks by digest, the cache is right.      *)
THEOREM CacheCorrect == ASSUME NoDigests PROVE Spec => []CacheKeepsName
<1>1. TagsCached => CacheKeepsName  BY NoDigests DEF NoDigests, TagsCached, CacheKeepsName
<1> QED BY <1>1, TagsKeepNames, PTL

(* The proxy never turns a request by tag for an image that is there into  *)
(* one for an image that is not, unless that was pruned.                   *)
TagRefused ==
    \A h \in Handlers :
        /\ answer'[h] = "missing" /\ answer[h] # "missing"
        /\ ref[h].digest = None
        => pruned \/ Find(ref[h]) = None

LEMMA MissingStep ==
    ASSUME DataTypeOK, HandlerInv, FlagTypeOK, NameInv, [Next]_vars, NEW h \in Handlers,
           answer'[h] = "missing", answer[h] # "missing"
    PROVE  ref[h] \in Refs /\ (ref[h].digest = None => pruned \/ Find(ref[h]) = None)
<1>1. Create(h)
  BY DEF Next, Handle, World, CheckPolicy, FindRule, LookUp, ReadCerts, Inspect, InspectFails,
     CreateTemp, CreateTempFails, Extend, ExtendFails, Commit, CommitFails, Remove, Store,
     Create, ForwardFails, Request, Pull, Prune, ChangeCerts, Reload, Crash, vars, DataTypeOK
<1>2. at[h] = "forward" /\ Find(target[h]) = None  BY <1>1 DEF Create, DataTypeOK
<1>3. StandsFor(target[h], ref[h])  BY <1>2 DEF NameInv, TargetInv, TargetOK
<1> QED BY <1>2, <1>3 DEF StandsFor, FlagTypeOK, HandlerInv

THEOREM TagsRefusedOnlyIfMissing == Spec => [][TagRefused]_vars
<1>1. DataTypeOK /\ HandlerInv /\ FlagTypeOK /\ NameInv /\ [Next]_vars => [TagRefused]_vars
  BY MissingStep DEF TagRefused
<1>2. TypeOK => DataTypeOK /\ FlagTypeOK  BY DEF TypeOK
<1> QED BY <1>1, <1>2, NamesCorrect, TypeCorrect, PTL DEF Spec

(* RefusedOnlyIfMissing: so when nobody asks by digest, nobody is refused  *)
(* an image that is there.                                                 *)
THEOREM RefusalCorrect == ASSUME NoDigests PROVE Spec => RefusedOnlyIfMissing
<1>1. DataTypeOK /\ HandlerInv /\ FlagTypeOK /\ NameInv /\ [Next]_vars =>
        [\A h \in Handlers : answer'[h] = "missing" /\ answer[h] # "missing" =>
             pruned \/ Find(ref[h]) = None]_vars
  BY MissingStep, NoDigests DEF NoDigests
<1>2. TypeOK => DataTypeOK /\ FlagTypeOK  BY DEF TypeOK
<1> QED BY <1>1, <1>2, NamesCorrect, TypeCorrect, PTL DEF Spec, RefusedOnlyIfMissing

(* What becomes of digests: a container asked for by digest is made from   *)
(* the original or not at all, since the injected image is committed by    *)
(* tag (splitRef drops the digest) and looked up by digest.                *)
DigestsRunPlain ==
    \A h \in Handlers : answer[h] = "created" /\ ref[h].digest # None => target[h] = ref[h]

(* It holds when the daemon has no injected image by digest to begin with: *)
(* splitRef makes none.                                                    *)
THEOREM DigestsNeverInjected ==
    ASSUME \A n \in Names : n.depth > 0 => n.digest = None
    PROVE  Spec => []DigestsRunPlain
<1>1. ASSUME DataTypeOK, HandlerInv, NameInv, Settled, DigestsRunPlain, [Next]_vars,
             NEW h \in Handlers, answer'[h] = "created"
      PROVE  at'[h] = "done" /\ (ref'[h].digest # None => target'[h] = ref'[h])
  <2>1. /\ at'[h] = "done"
        /\ Create(h) \/ (answer[h] = "created" /\ UNCHANGED <<ref[h], target[h]>>)
    BY <1>1, AnswersStay
  <2>2. ASSUME Create(h), ref[h].digest # None PROVE target[h] = ref[h] /\ UNCHANGED <<ref, target>>
    <3>1. /\ at[h] = "forward" /\ StandsFor(target[h], ref[h]) /\ Find(target[h]) # None
          /\ UNCHANGED <<ref, target>>
      BY <1>1, <2>2 DEF Create, NameInv, TargetInv, TargetOK, DataTypeOK
    <3>2. ref[h] \in Refers  BY <1>1, <3>1, ConstantAssumption DEF HandlerInv
    <3> DEFINE m == MakeProxyRef(ref[h])
    <3>3. m \in Refers /\ m.digest = ref[h].digest
      BY <3>2, ReferTypes DEF MakeProxyRef, Refers
    <3>4. Resolve(m).digest # None /\ Resolve(m).depth > 0
      BY <2>2, <3>2, <3>3, InjectedDeep DEF Resolve, Refers
    <3> HIDE DEF m
    <3>5. Find(m) = None
      BY <3>4 DEF Find
    <3> QED BY <3>1, <3>5 DEF StandsFor, m
  <2>3. Create(h) => UNCHANGED <<ref, target>>  BY DEF Create
  <2> QED BY <1>1, <2>1, <2>2, <2>3 DEF DigestsRunPlain
<1>2. DataTypeOK /\ HandlerInv /\ NameInv /\ Settled /\ DigestsRunPlain /\ [Next]_vars
        => (Settled /\ DigestsRunPlain)'
  BY <1>1 DEF Settled, DigestsRunPlain
<1>3. Init => Settled /\ DigestsRunPlain  BY DEF Init, Settled, DigestsRunPlain
<1>4. TypeOK => DataTypeOK  BY DEF TypeOK
<1> QED BY <1>2, <1>3, <1>4, NamesCorrect, TypeCorrect, PTL DEF Spec
=============================================================================
