--------------------------- MODULE ContainerCreate ---------------------------
(***************************************************************************)
(* POST /containers/create through the proxy: the image policy, the cache  *)
(* of injected images, and the injection of CA certificates by a temporary *)
(* container that is changed and committed (internal/proxy/http.go,        *)
(* internal/image/commit.go, internal/cache/cache.go).                     *)
(*                                                                         *)
(* Each request has a handler of its own; they share the configuration,    *)
(* the cache and the daemon's images.  A step of a handler is one access   *)
(* to one of these, or one call to the daemon, and any call may fail.      *)
(* Meanwhile images are pulled and pruned, certificate files change, the   *)
(* configuration is reloaded, and the proxy may be killed and restarted.   *)
(*                                                                         *)
(* A reference has its parts, not its characters.  An image is known by    *)
(* the name it is a version of, the certificates it trusts and the label.  *)
(***************************************************************************)
EXTENDS Naturals, FiniteSets

CONSTANTS
    Handlers,      \* one per request
    Refs,          \* image references the clients use
    Repos, Tags, Digests,
    Latest,        \* the tag a reference without one means
    None,
    Configs,       \* configurations: the references denied, and whether
                   \* there is a ca_certificates rule
    FirstConfig,
    FirstImages,   \* what the daemon has: name -> image or None
    MaxCerts       \* bound: contents the certificate files may have

(* A reference is a repository, with depth "whalevet-injected/" before it, *)
(* a tag or none, and a digest or none.                                    *)
Refers == [depth : Nat, repo : Repos, tag : Tags \cup {None}, digest : Digests \cup {None}]

(* The daemon looks a digest up whatever the tag says.                     *)
Resolve(r) ==
    IF r.digest # None THEN [r EXCEPT !.tag = None]
    ELSE [r EXCEPT !.tag = IF @ = None THEN Latest ELSE @]

(* The image a name is a version of: its repository without the prefix.    *)
Origin(n) == [n EXCEPT !.depth = 0]

CertVersions == 1 .. MaxCerts
Images == [of : Refers, certs : SUBSET CertVersions, label : {"none", "true"}]

ASSUME ConstantAssumption ==
    /\ Refs \subseteq Refers
    /\ Latest \in Tags
    /\ None \notin Tags \cup Digests \cup Refs \cup Refers \cup Images
    /\ Configs \subseteq [denied : SUBSET Refs, rule : BOOLEAN]
    /\ FirstConfig \in Configs
    /\ MaxCerts \in Nat \ {0}
    /\ DOMAIN FirstImages \subseteq Refers
    /\ \A r \in Refs : [r EXCEPT !.depth = @ + 1, !.digest = None,
                               !.tag = IF @ = None THEN Latest ELSE @] \in DOMAIN FirstImages
    /\ FirstImages \in [DOMAIN FirstImages -> Images \cup {None}]
    /\ \A n \in DOMAIN FirstImages :
           FirstImages[n] # None => /\ FirstImages[n].of = Origin(n)
                                    /\ n.depth > 0 => FirstImages[n].certs # {}

VARIABLES
    config,     \* HTTPProxy.config
    cache,      \* ImageCache.images
    images,     \* the daemon's images, by name
    certFiles,  \* content of the certificate files, 0 if none can be read
    temps,      \* requests whose temporary container exists
    orphans,    \* those whose container nobody will remove any more
    at,         \* at[h]: where the handler of request h is
    ref,        \* ref[h]: the image it asks for
    certs,      \* certs[h]: the certificates it read
    base,       \* base[h]: the image its temporary container was made from
    target,     \* target[h]: the image it will name to the daemon
    answer,     \* answer[h]: what the client is told
    ran,        \* ran[h]: the image the container was created from
    pruned      \* an injected image was pruned

world   == <<config, cache, images, certFiles>>
locals  == <<ref, certs, base, target>>
results == <<answer, ran>>
vars == <<world, temps, orphans, at, locals, results, pruned>>

Places == {"idle", "policy", "config", "cache", "read", "inspect", "create", "extend",
           "commit", "remove", "store", "forward", "done"}
Names == DOMAIN FirstImages

DataTypeOK ==
    /\ config \in Configs
    /\ cache \in [Refs -> Refers \cup {None}]
    /\ images \in [Names -> Images \cup {None}]
    /\ certFiles \in 0 .. MaxCerts
    /\ temps \subseteq Handlers /\ orphans \subseteq temps
    /\ at \in [Handlers -> Places]
    /\ ref \in [Handlers -> Refs \cup {None}]
    /\ certs \in [Handlers -> 0 .. MaxCerts]
    /\ base \in [Handlers -> Images \cup {None}]
    /\ target \in [Handlers -> Refers \cup {None}]
    /\ answer \in [Handlers -> {"none", "created", "missing", "denied", "dropped"}]
    /\ ran \in [Handlers -> Images \cup {None}]

FlagTypeOK == pruned \in BOOLEAN

TypeOK == DataTypeOK /\ FlagTypeOK

Init ==
    /\ config = FirstConfig
    /\ cache = [r \in Refs |-> None]
    /\ images = FirstImages
    /\ certFiles = 1
    /\ temps = {} /\ orphans = {}
    /\ at = [h \in Handlers |-> "idle"]
    /\ ref = [h \in Handlers |-> None]
    /\ certs = [h \in Handlers |-> 0]
    /\ base = [h \in Handlers |-> None]
    /\ target = [h \in Handlers |-> None]
    /\ answer = [h \in Handlers |-> "none"]
    /\ ran = [h \in Handlers |-> None]
    /\ pruned = FALSE

-----------------------------------------------------------------------------
(* References and images.                                                  *)

(* Bug: only the repository of the original is kept.                       *)
ProxyRefOfRepo(r) == [r EXCEPT !.depth = @ + 1, !.tag = None]

MakeProxyRef(r) == [r EXCEPT !.depth = @ + 1]

(* splitRef: the repository and tag to commit as; a digest is dropped.     *)
SplitRef(r) == [r EXCEPT !.digest = None, !.tag = IF @ = None THEN Latest ELSE @]

(* policyAllowed; which references the patterns of a configuration match   *)
(* is given with the configuration.                                        *)
PolicyAllowed(c, r) == r.depth > 0 \/ r \notin c.denied

(* The image at r, if the daemon has one there.                            *)
Find(r) == IF Resolve(r) \in Names THEN images[Resolve(r)] ELSE None

HasProxyLabel(i) == i.label = "true"

Goes(h, place) == at' = [at EXCEPT ![h] = place]

(* Send the request on, naming image r.                                    *)
Forward(h, r) == Goes(h, "forward") /\ target' = [target EXCEPT ![h] = r]

-----------------------------------------------------------------------------
(* handleContainerCreateConn.                                              *)

Request(h, r) ==
    /\ at[h] = "idle"
    /\ ref' = [ref EXCEPT ![h] = r]
    /\ Goes(h, "policy")
    /\ UNCHANGED <<world, temps, orphans, certs, base, target, results, pruned>>

CheckPolicy(h) ==
    /\ at[h] = "policy"
    /\ IF PolicyAllowed(config, ref[h])
       THEN Goes(h, "config") /\ UNCHANGED answer
       ELSE Goes(h, "done") /\ answer' = [answer EXCEPT ![h] = "denied"]
    /\ UNCHANGED <<world, temps, orphans, locals, ran, pruned>>

(* The configuration is read anew for the rules.                           *)
FindRule(h) ==
    /\ at[h] = "config"
    /\ IF config.rule THEN Goes(h, "cache") /\ UNCHANGED target ELSE Forward(h, ref[h])
    /\ UNCHANGED <<world, temps, orphans, ref, certs, base, results, pruned>>

LookUp(h) ==
    /\ at[h] = "cache"
    /\ IF cache[ref[h]] = None THEN Goes(h, "read") /\ UNCHANGED target
                               ELSE Forward(h, cache[ref[h]])
    /\ UNCHANGED <<world, temps, orphans, ref, certs, base, results, pruned>>

(* Bug: the handler goes on with no certificate at all.                    *)
ReadCertsAnyway(h) ==
    /\ at[h] = "read"
    /\ certs' = [certs EXCEPT ![h] = certFiles]
    /\ Goes(h, "inspect")
    /\ UNCHANGED <<world, temps, orphans, ref, base, target, results, pruned>>

(* Those that cannot be read are left out; with none the request goes on.  *)
ReadCerts(h) ==
    /\ at[h] = "read"
    /\ certs' = [certs EXCEPT ![h] = certFiles]
    /\ IF certFiles = 0 THEN Forward(h, ref[h]) ELSE Goes(h, "inspect") /\ UNCHANGED target
    /\ UNCHANGED <<world, temps, orphans, ref, base, results, pruned>>

(* An image the proxy made is used as it is.                               *)
Inspect(h) ==
    /\ at[h] = "inspect" /\ Find(ref[h]) # None
    /\ IF HasProxyLabel(Find(ref[h]))
       THEN Goes(h, "store") /\ target' = [target EXCEPT ![h] = ref[h]]
       ELSE Goes(h, "create") /\ UNCHANGED target
    /\ UNCHANGED <<world, temps, orphans, ref, certs, base, results, pruned>>

(* Bug: an image is cached although the call that makes it failed.         *)
Unchecked(h) == MakeProxyRef(ref[h])

(* What is left to name when a call failed: the original, see Remove.      *)
Failed(h) == None

InspectFails(h) ==
    /\ at[h] = "inspect"
    /\ Forward(h, ref[h])
    /\ UNCHANGED <<world, temps, orphans, ref, certs, base, results, pruned>>

(* The daemon resolves the reference again.                                *)
CreateTemp(h) ==
    /\ at[h] = "create" /\ Find(ref[h]) # None
    /\ base' = [base EXCEPT ![h] = Find(ref[h])]
    /\ temps' = temps \cup {h}
    /\ Goes(h, "extend")
    /\ UNCHANGED <<world, orphans, ref, certs, target, results, pruned>>

(* The answer of the daemon may be lost after it made the container.       *)
CreateTempFails(h) ==
    /\ at[h] = "create"
    /\ \/ UNCHANGED <<temps, orphans>>
       \/ temps' = temps \cup {h} /\ orphans' = orphans \cup {h}
    /\ Forward(h, ref[h])
    /\ UNCHANGED <<world, ref, certs, base, results, pruned>>

(* extendBundles: with nothing to add the original is used.                *)
Extend(h) ==
    /\ at[h] = "extend"
    /\ IF certs[h] \in base[h].certs
       THEN Goes(h, "remove") /\ target' = [target EXCEPT ![h] = ref[h]]
       ELSE Goes(h, "commit") /\ UNCHANGED target
    /\ UNCHANGED <<world, temps, orphans, ref, certs, base, results, pruned>>

(* Bug: an error returns before the removal is deferred.                   *)
ExtendFailsEarly(h) ==
    /\ at[h] = "extend"
    /\ Forward(h, ref[h])
    /\ UNCHANGED <<world, temps, orphans, ref, certs, base, results, pruned>>

ExtendFails(h) ==
    /\ at[h] = "extend"
    /\ target' = [target EXCEPT ![h] = None]
    /\ Goes(h, "remove")
    /\ UNCHANGED <<world, temps, orphans, ref, certs, base, results, pruned>>

Injected(h) == [base[h] EXCEPT !.certs = @ \cup {certs[h]}, !.label = "true"]

CommitImage(h) ==
    images' = [images EXCEPT ![SplitRef(MakeProxyRef(ref[h]))] = Injected(h)]

Commit(h) ==
    /\ at[h] = "commit"
    /\ CommitImage(h)
    /\ target' = [target EXCEPT ![h] = MakeProxyRef(ref[h])]
    /\ Goes(h, "remove")
    /\ UNCHANGED <<config, cache, certFiles, temps, orphans, ref, certs, base, results, pruned>>

(* Here too the daemon may have done what it was asked.                    *)
CommitFails(h) ==
    /\ at[h] = "commit"
    /\ CommitImage(h) \/ UNCHANGED images
    /\ target' = [target EXCEPT ![h] = Failed(h)]
    /\ Goes(h, "remove")
    /\ UNCHANGED <<config, cache, certFiles, temps, orphans, ref, certs, base, results, pruned>>

(* The deferred removeContainer, whose error nobody looks at, and then the *)
(* return to the handler: an error sends the request on as it came.        *)
Remove(h) ==
    /\ at[h] = "remove"
    /\ \/ temps' = temps \ {h} /\ UNCHANGED orphans
       \/ orphans' = orphans \cup {h} /\ UNCHANGED temps
    /\ base' = [base EXCEPT ![h] = None] /\ certs' = [certs EXCEPT ![h] = 0]
    /\ IF target[h] = None THEN Forward(h, ref[h]) ELSE Goes(h, "store") /\ UNCHANGED target
    /\ UNCHANGED <<world, ref, results, pruned>>

Store(h) ==
    /\ at[h] = "store"
    /\ cache' = [cache EXCEPT ![ref[h]] = target[h]]
    /\ Goes(h, "forward")
    /\ UNCHANGED <<config, images, certFiles, temps, orphans, locals, results, pruned>>

(* forwardHTTPConn, up to the daemon's answer.                             *)
Create(h) ==
    /\ at[h] = "forward"
    /\ Goes(h, "done")
    /\ IF Find(target[h]) # None
       THEN /\ answer' = [answer EXCEPT ![h] = "created"]
            /\ ran' = [ran EXCEPT ![h] = Find(target[h])]
       ELSE /\ answer' = [answer EXCEPT ![h] = "missing"]
            /\ UNCHANGED ran
    /\ UNCHANGED <<world, temps, orphans, locals, pruned>>

(* No connection to the daemon: the client's is closed without an answer.  *)
ForwardFails(h) ==
    /\ at[h] = "forward"
    /\ Goes(h, "done")
    /\ answer' = [answer EXCEPT ![h] = "dropped"]
    /\ UNCHANGED <<world, temps, orphans, locals, ran, pruned>>

Handle(h) ==
    \/ CheckPolicy(h) \/ FindRule(h) \/ LookUp(h) \/ ReadCerts(h)
    \/ Inspect(h) \/ InspectFails(h) \/ CreateTemp(h) \/ CreateTempFails(h)
    \/ Extend(h) \/ ExtendFails(h) \/ Commit(h) \/ CommitFails(h)
    \/ Remove(h) \/ Store(h) \/ Create(h) \/ ForwardFails(h)

-----------------------------------------------------------------------------
(* The world around the handlers.                                          *)

(* A pull, that handleImageCreateConn let pass, brings a newer image.      *)
Pull(r) ==
    /\ PolicyAllowed(config, r)
    /\ r.depth = 0 /\ Resolve(r) \in Names
    /\ r.digest # None => Find(r) = None
    /\ images' = [images EXCEPT ![Resolve(r)] =
                     [of |-> Resolve(r), certs |-> {}, label |-> "none"]]
    /\ UNCHANGED <<config, cache, certFiles, temps, orphans, at, locals, results, pruned>>

(* whalevet prune removes the labelled images one by one.                  *)
Prune(n) ==
    /\ images[n] # None /\ HasProxyLabel(images[n])
    /\ images' = [images EXCEPT ![n] = None]
    /\ pruned' = TRUE
    /\ UNCHANGED <<config, cache, certFiles, temps, orphans, at, locals, results>>

ChangeCerts ==
    /\ certFiles' \in (0 .. MaxCerts) \ {certFiles}
    /\ UNCHANGED <<config, cache, images, temps, orphans, at, locals, results, pruned>>

Reload(c) ==
    /\ c # config
    /\ config' = c
    /\ UNCHANGED <<cache, images, certFiles, temps, orphans, at, locals, results, pruned>>

(* The proxy is killed and started again: the cache and the handlers are   *)
(* gone, images and containers are the daemon's and stay.                  *)
Crash ==
    LET busy == {h \in Handlers : at[h] \notin {"idle", "done"}} IN
    /\ cache' = [r \in Refs |-> None]
    /\ at' = [h \in Handlers |-> IF h \in busy THEN "done" ELSE at[h]]
    /\ answer' = [h \in Handlers |-> IF h \in busy THEN "dropped" ELSE answer[h]]
    /\ orphans' = temps
    /\ base' = [h \in Handlers |-> None] /\ certs' = [h \in Handlers |-> 0]
    /\ UNCHANGED <<config, images, certFiles, temps, ref, target, ran, pruned>>

World ==
    \/ \E r \in Refs : Pull(r)
    \/ \E n \in Names : Prune(n)
    \/ ChangeCerts
    \/ \E c \in Configs : Reload(c)
    \/ Crash

Next ==
    \/ \E h \in Handlers : Handle(h) \/ \E r \in Refs : Request(h, r)
    \/ World

Spec == Init /\ [][Next]_vars

-----------------------------------------------------------------------------
(* Properties.                                                             *)

(* The container a client gets runs a version of the image it asked for,   *)
(* by name, and if the proxy named another image in the request that one   *)
(* trusts certificates of the configuration: no interleaving of handlers,  *)
(* pulls, prunes and restarts makes the cache, or an injected name, stand  *)
(* for another image (handleContainerCreateConn, InjectCertsViaCommit).    *)
RunsWhatWasAsked ==
    \A h \in Handlers : answer[h] = "created" =>
        /\ ran[h].of = Origin(Resolve(ref[h]))
        /\ target[h] # ref[h] => ran[h].certs # {}

(* A client is told an image does not exist only if the daemon does not    *)
(* have it, or injected images were pruned behind the cache's back: what   *)
(* InjectCertsViaCommit calls "the new image ref" names an image.          *)
RefusedOnlyIfMissing ==
    [][\A h \in Handlers :
           answer'[h] = "missing" /\ answer[h] # "missing" => pruned \/ Find(ref[h]) = None]_vars

(* Every temporary container is about to be removed by the request that    *)
(* made it, unless the proxy was killed or the daemon failed the call.     *)
TempsAccountedFor ==
    \A h \in temps : h \in orphans \/ at[h] \in {"extend", "commit", "remove"}

(* Two requests at once for one image agree on what is cached for it: the  *)
(* original or the one injected name (InjectCertsViaCommit's results).     *)
CacheKeepsName ==
    \A r \in Refs : cache[r] # None =>
        /\ cache[r] \in {r, MakeProxyRef(r)}
        /\ cache[r] # r /\ ~pruned => Find(cache[r]) # None
=============================================================================
