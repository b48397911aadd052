------------------------------- MODULE EnvFiles -------------------------------
(***************************************************************************)
(* ExpandEnvFiles (internal/config/envfile.go) as builds and sessions call *)
(* it: p.Config() hands every request the same rules, the copy that        *)
(* ExpandEnvFiles makes of them shares their Env maps, and the entries of  *)
(* an env_file are merged into those maps with no lock.  Only a rule       *)
(* without an env table gets a map of the request's own.                   *)
(*                                                                         *)
(* What a request does to a map is therefore not one step: it looks a key  *)
(* up, writes it, and later ranges over the map; and while two requests    *)
(* are at one map the Go runtime may notice and end the process.  A map is *)
(* a function that is Absent at the keys it does not have.                 *)
(***************************************************************************)
EXTENDS Naturals, Sequences

CONSTANTS
    Requests,    \* the requests that use the rules
    Injections,  \* the rules of the configuration, in order
    EnvPaths,    \* the files that rules name
    Keys, Values,
    Contents,    \* what an env_file may hold
    Absent,      \* a key that is not in a map
    Bad,         \* a file that is missing or has a line that is not KEY=VALUE
    NoMap,       \* a nil map
    NoFile,      \* a rule without env_file
    NoKey,
    MaxChanges   \* bound: configurations loaded after the first, and changes of
                 \* env files, together

Rules == DOMAIN Injections
Env == [Keys -> Values \cup {Absent}]
Loads == 0..MaxChanges
Empty == [k \in Keys |-> Absent]

ASSUME EnvAssumption ==
    /\ Contents \subseteq Env /\ Bad \notin Env /\ NoMap \notin Env
    /\ Absent \notin Values /\ NoKey \notin Keys /\ NoFile \notin EnvPaths
    /\ MaxChanges \in Nat
    /\ Injections = [i \in 1..Len(Injections) |-> Injections[i]] /\ Len(Injections) \in Nat
    /\ \A i \in 1..Len(Injections) :
         Injections[i].env \in Env \cup {NoMap} /\ Injections[i].file \in EnvPaths \cup {NoFile}

VARIABLES
    files,      \* what is in each env_file
    edits,      \* how often one was changed
    edited,     \* the loads after which one was changed
    load,       \* the load of the configuration that p.Config() returns
    env,        \* the Env maps of each load, by rule
    phase,      \* where each request is in ExpandEnvFiles
    uses,       \* the load whose rules it took
    rule,       \* the rules before this one it has dealt with
    todo,       \* entries of the file it has still to merge
    key,        \* the key it found missing and is about to write
    own,        \* the maps it made for rules without an env table
    seen,       \* what it read from the file of each rule
    expanded,   \* it goes on with the expanded rules, not with the plain ones
    ranging,    \* it is ranging over the maps
    lines       \* what the last range returned, by rule

envVars == <<files, edits, edited, load, env, phase, uses, rule, todo, key, own, seen,
             expanded, ranging, lines>>
maps == <<load, env, edited, files, edits>>
locals == <<phase, uses, rule, todo, key, own, seen, expanded, ranging, lines>>

HasFile(i) == Injections[i].file # NoFile
Shared(i) == Injections[i].env # NoMap

\* Bug: the rules are read again when they are used.
EnvOfCurrent(r, i) == IF Shared(i) THEN env[load][i]
                      ELSE IF own[r][i] = NoMap THEN Empty ELSE own[r][i]

\* The map that request r sees as rule i's: nil maps are empty.
EnvOf(r, i) == IF Shared(i) THEN env[uses[r]][i]
               ELSE IF own[r][i] = NoMap THEN Empty ELSE own[r][i]

EnvInit ==
    /\ files \in [EnvPaths -> Contents \cup {Bad}]
    /\ edits = 0 /\ edited = {} /\ load = 0
    /\ env = [g \in Loads |-> [i \in Rules |-> Injections[i].env]]
    /\ phase = [r \in Requests |-> "none"]
    /\ uses = [r \in Requests |-> 0]
    /\ rule = [r \in Requests |-> 1]
    /\ todo = [r \in Requests |-> Empty]
    /\ key = [r \in Requests |-> NoKey]
    /\ own = [r \in Requests |-> [i \in Rules |-> NoMap]]
    /\ seen = [r \in Requests |-> [i \in Rules |-> Empty]]
    /\ expanded = [r \in Requests |-> FALSE]
    /\ ranging = [r \in Requests |-> FALSE]
    /\ lines = [r \in Requests |-> [i \in Rules |-> Empty]]

-----------------------------------------------------------------------------
(* One request in ExpandEnvFiles and, later, in the loop that renders the  *)
(* maps.                                                                   *)

TakeRules(r) ==
    /\ phase[r] = "none"
    /\ phase' = [phase EXCEPT ![r] = "rule"]
    /\ uses' = [uses EXCEPT ![r] = load]
    /\ UNCHANGED <<maps, rule, todo, key, own, seen, expanded, ranging, lines>>

\* The rule with an env_file that comes next.
NextWithFile(r, i) ==
    /\ phase[r] = "rule" /\ i >= rule[r] /\ HasFile(i)
    /\ \A j \in Rules : j >= rule[r] /\ HasFile(j) => i <= j

ReadEnvFile(r) == \E i \in Rules :
    LET f == files[Injections[i].file] IN
    /\ NextWithFile(r, i) /\ f # Bad
    /\ phase' = [phase EXCEPT ![r] = "merge"]
    /\ rule' = [rule EXCEPT ![r] = i]
    /\ todo' = [todo EXCEPT ![r] = f]
    /\ seen' = [seen EXCEPT ![r][i] = f]
    /\ own' = IF Shared(i) THEN own ELSE [own EXCEPT ![r][i] = Empty]
    /\ UNCHANGED <<maps, uses, key, expanded, ranging, lines>>

\* Bug: the file is tried again.
ReadFailsAgain(r) ==
    /\ \E i \in Rules : NextWithFile(r, i) /\ files[Injections[i].file] = Bad
    /\ own' = [own EXCEPT ![r] = [i \in Rules |-> NoMap]]
    /\ UNCHANGED <<maps, phase, uses, rule, todo, key, seen, expanded, ranging, lines>>

\* The caller logs the error and goes on with cfg.Injections: the maps made
\* for this request are lost, what was merged into shared maps stays.
ReadFails(r) ==
    /\ \E i \in Rules : NextWithFile(r, i) /\ files[Injections[i].file] = Bad
    /\ phase' = [phase EXCEPT ![r] = "ready"]
    /\ own' = [own EXCEPT ![r] = [i \in Rules |-> NoMap]]
    /\ UNCHANGED <<maps, uses, rule, todo, key, seen, expanded, ranging, lines>>

\* Bug: entries of the file win.
LookUpKeyFileWins(r, k) ==
    /\ phase[r] = "merge" /\ key[r] = NoKey /\ todo[r][k] # Absent
    /\ key' = [key EXCEPT ![r] = k]
    /\ UNCHANGED <<maps, phase, uses, rule, todo, own, seen, expanded, ranging, lines>>

\* A range over fileEnv takes its keys in any order.
LookUpKey(r, k) ==
    /\ phase[r] = "merge" /\ key[r] = NoKey /\ todo[r][k] # Absent
    /\ IF EnvOf(r, rule[r])[k] = Absent
       THEN key' = [key EXCEPT ![r] = k] /\ UNCHANGED todo
       ELSE todo' = [todo EXCEPT ![r][k] = Absent] /\ UNCHANGED key
    /\ UNCHANGED <<maps, phase, uses, rule, own, seen, expanded, ranging, lines>>

WriteKey(r) ==
    LET i == rule[r]  k == key[r] IN
    /\ phase[r] = "merge" /\ k # NoKey
    /\ IF Shared(i)
       THEN env' = [env EXCEPT ![uses[r]][i][k] = todo[r][k]] /\ UNCHANGED own
       ELSE own' = [own EXCEPT ![r][i][k] = todo[r][k]] /\ UNCHANGED env
    /\ todo' = [todo EXCEPT ![r][k] = Absent]
    /\ key' = [key EXCEPT ![r] = NoKey]
    /\ UNCHANGED <<files, edits, edited, load, phase, uses, rule, seen, expanded, ranging, lines>>

\* Bug: the merge stops at a key that is there.
MergedEarly(r) ==
    /\ phase[r] = "merge" /\ key[r] = NoKey
    /\ \A k \in Keys : todo[r][k] # Absent => \E m \in Keys : EnvOf(r, rule[r])[m] # Absent
    /\ phase' = [phase EXCEPT ![r] = "rule"]
    /\ rule' = [rule EXCEPT ![r] = @ + 1]
    /\ todo' = [todo EXCEPT ![r] = Empty]
    /\ UNCHANGED <<maps, uses, key, own, seen, expanded, ranging, lines>>

Merged(r) ==
    /\ phase[r] = "merge" /\ key[r] = NoKey /\ todo[r] = Empty
    /\ phase' = [phase EXCEPT ![r] = "rule"]
    /\ rule' = [rule EXCEPT ![r] = @ + 1]
    /\ UNCHANGED <<maps, uses, todo, key, own, seen, expanded, ranging, lines>>

Expanded(r) ==
    /\ phase[r] = "rule" /\ \A i \in Rules : i >= rule[r] => ~HasFile(i)
    /\ phase' = [phase EXCEPT ![r] = "ready"]
    /\ expanded' = [expanded EXCEPT ![r] = TRUE]
    /\ UNCHANGED <<maps, uses, rule, todo, key, own, seen, ranging, lines>>

StartRange(r) ==
    /\ phase[r] = "ready" /\ ~ranging[r]
    /\ ranging' = [ranging EXCEPT ![r] = TRUE]
    /\ lines' = [lines EXCEPT ![r] = [i \in Rules |-> EnvOf(r, i)]]
    /\ UNCHANGED <<maps, phase, uses, rule, todo, key, own, seen, expanded>>

\* An entry written meanwhile is in the result, or is not.
EndRange(r) ==
    LET now == [i \in Rules |-> EnvOf(r, i)]
        changed == {p \in Rules \X Keys : lines[r][p[1]][p[2]] # now[p[1]][p[2]]} IN
    /\ ranging[r]
    /\ ranging' = [ranging EXCEPT ![r] = FALSE]
    /\ \E late \in SUBSET changed :
         lines' = [lines EXCEPT ![r] = [i \in Rules |-> [k \in Keys |->
                     IF <<i, k>> \in late THEN now[i][k] ELSE lines[r][i][k]]]]
    /\ UNCHANGED <<maps, phase, uses, rule, todo, key, own, seen, expanded>>

Expand(r) ==
    \/ ReadEnvFile(r) \/ ReadFails(r)
    \/ \E k \in Keys : LookUpKey(r, k)
    \/ WriteKey(r) \/ Merged(r) \/ Expanded(r)

\* Of the requests in S nothing is left.
Forgotten(S) ==
    LET Blank(f, v) == [r \in Requests |-> IF r \in S THEN v ELSE f[r]]
        noMaps == [i \in Rules |-> NoMap]
        empty == [i \in Rules |-> Empty] IN
    /\ phase' = [r \in Requests |-> IF r \in S /\ phase[r] # "none" THEN "over" ELSE phase[r]]
    /\ uses' = Blank(uses, 0) /\ rule' = Blank(rule, 1)
    /\ todo' = Blank(todo, Empty) /\ key' = Blank(key, NoKey)
    /\ own' = Blank(own, noMaps) /\ seen' = Blank(seen, empty)
    /\ expanded' = Blank(expanded, FALSE) /\ ranging' = Blank(ranging, FALSE)
    /\ lines' = Blank(lines, empty)

\* The handler of r returns.
Return(r) ==
    /\ phase[r] \in {"none", "ready"} /\ ~ranging[r]
    /\ Forgotten({r}) /\ UNCHANGED maps

-----------------------------------------------------------------------------
(* What happens around the requests.                                       *)

\* SetConfig with a configuration that was parsed anew.
LoadConfig ==
    /\ load + edits < MaxChanges /\ load' = load + 1
    /\ UNCHANGED <<env, edited, files, edits, locals>>

EditFile ==
    /\ load + edits < MaxChanges /\ edits' = edits + 1
    /\ \E f \in EnvPaths, c \in Contents \cup {Bad} :
         c # files[f] /\ files' = [files EXCEPT ![f] = c]
    /\ edited' = edited \cup 0..load
    /\ UNCHANGED <<load, env, locals>>

\* r writes to a map that s reads or writes too.
Collide(r, s) ==
    /\ r # s /\ uses[r] = uses[s]
    /\ phase[r] = "merge" /\ key[r] # NoKey /\ Shared(rule[r])
    /\ ranging[s] \/ (phase[s] = "merge" /\ rule[s] = rule[r])

\* fatal error: concurrent map writes (or read, or iteration, and write).  The
\* service manager starts the proxy again, which loads the configuration.
Fault ==
    /\ \E r, s \in Requests : Collide(r, s)
    /\ load + edits < MaxChanges /\ load' = load + 1
    /\ Forgotten(Requests)
    /\ UNCHANGED <<env, edited, files, edits>>

EnvNext ==
    \/ \E r \in Requests : TakeRules(r) \/ Expand(r) \/ StartRange(r) \/ EndRange(r) \/ Return(r)
    \/ LoadConfig \/ EditFile \/ Fault

EnvSpec == EnvInit /\ [][EnvNext]_envVars

-----------------------------------------------------------------------------
(* Properties.                                                             *)

EnvTypeOK ==
    /\ files \in [EnvPaths -> Contents \cup {Bad}]
    /\ edits \in 0..MaxChanges /\ edited \subseteq Loads /\ load \in Loads
    /\ env \in [Loads -> [Rules -> Env \cup {NoMap}]]
    /\ phase \in [Requests -> {"none", "rule", "merge", "ready", "over"}]
    /\ uses \in [Requests -> Loads]
    /\ rule \in [Requests -> 1..Len(Injections) + 1]
    /\ todo \in [Requests -> Env]
    /\ key \in [Requests -> Keys \cup {NoKey}]
    /\ own \in [Requests -> [Rules -> Env \cup {NoMap}]]
    /\ seen \in [Requests -> [Rules -> Env]]
    /\ expanded \in [Requests -> BOOLEAN]
    /\ ranging \in [Requests -> BOOLEAN]
    /\ lines \in [Requests -> [Rules -> Env]]

(* "Inline Env values win over file entries" (envfile.go:36-39), whoever   *)
(* else is merging into the same map; and the rules that a request goes on *)
(* with have every key of the files it read, and, where nothing is inline, *)
(* exactly what it read.                                                   *)
ExpandedAsDocumented ==
    \A r \in Requests : phase[r] = "ready" => \A i \in Rules :
        /\ \A k \in Keys : Shared(i) /\ Injections[i].env[k] # Absent
                             => EnvOf(r, i)[k] = Injections[i].env[k]
        /\ expanded[r] =>
             /\ \A k \in Keys : seen[r][i][k] # Absent => EnvOf(r, i)[k] # Absent
             /\ ~Shared(i) => EnvOf(r, i) = seen[r][i]

(* "config reloads mid-build cannot change behavior mid-stream"            *)
(* (buildkit.go:20-21): while no env file changes, what an expanded        *)
(* request uses stays as it is, though it shares its maps with requests    *)
(* that are still merging and reloads go on.  Once a file changes this is  *)
(* no longer so: the next expansion may add keys to the maps of an earlier *)
(* session.                                                                *)
SnapshotStable ==
    [][\A r \in Requests :
         /\ phase[r] = "ready" /\ phase'[r] = "ready" /\ expanded[r]
         /\ uses[r] \notin edited'
         => \A i \in Rules : EnvOf(r, i)' = EnvOf(r, i)]_envVars

(* The fatal collision of two requests is a hazard of the first expansions *)
(* after a load: once one has succeeded, and until a file changes, nobody  *)
(* finds a key missing any more.                                           *)
FirstExpansionSettles ==
    \A r, s \in Requests :
        /\ phase[r] = "ready" /\ expanded[r] /\ uses[r] \notin edited
        /\ phase[s] = "merge" /\ uses[s] = uses[r] /\ Shared(rule[s])
        => \A k \in Keys : todo[s][k] # Absent => EnvOf(s, rule[s])[k] # Absent

=============================================================================
