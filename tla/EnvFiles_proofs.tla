--------------------------- MODULE EnvFiles_proofs ---------------------------
(***************************************************************************)
(* Proofs about EnvFiles, for any number of requests, rules, files and     *)
(* loads.                                                                  *)
(*                                                                         *)
(* A request that has looked up a key writes it whatever has happened      *)
(* since.  That this does no harm rests on two facts: nobody finds a key   *)
(* missing that is inline (KeyInv), and while no file changes all that is  *)
(* ever written to a key is what the file says (ValueInv).  The rest of an *)
(* expansion is its own affair: no step of another request adds to it      *)
(* (ExpansionShrinks).                                                     *)
(***************************************************************************)
EXTENDS EnvFiles, TLAPS

LEMMA RulesFacts ==
    /\ Rules = 1..Len(Injections) /\ Rules \subseteq Nat /\ Len(Injections) \in Nat
    /\ \A i \in Rules : Injections[i].env \in Env \cup {NoMap}
    /\ \A i \in Rules : HasFile(i) => Injections[i].file \in EnvPaths
    /\ Empty \in Env /\ NoMap \notin Env
BY EnvAssumption DEF Rules, HasFile, Empty, Env

LEMMA LoadsFacts == Loads \subseteq Nat /\ 0 \in Loads
BY EnvAssumption DEF Loads

-----------------------------------------------------------------------------
(* Types, and which maps are nil.                                          *)

MapsInv == \A g \in Loads, i \in Rules : env[g][i] = NoMap <=> ~Shared(i)

ThreadInv ==
    \A r \in Requests :
        /\ uses[r] <= load
        /\ phase[r] = "merge" =>
             /\ rule[r] \in Rules /\ HasFile(rule[r])
             /\ ~Shared(rule[r]) => own[r][rule[r]] # NoMap
        /\ key[r] # NoKey => phase[r] = "merge" /\ todo[r][key[r]] # Absent

TypeInv == EnvTypeOK /\ MapsInv /\ ThreadInv

LEMMA EnvOfType ==
    ASSUME TypeInv, NEW r \in Requests, NEW i \in Rules
    PROVE  EnvOf(r, i) \in Env
<1>1. env[uses[r]][i] \in Env \cup {NoMap} /\ own[r][i] \in Env \cup {NoMap}
  BY DEF TypeInv, EnvTypeOK
<1>2. uses[r] \in Loads  BY DEF TypeInv, EnvTypeOK
<1> QED BY <1>1, <1>2, RulesFacts DEF EnvOf, TypeInv, MapsInv

LEMMA TypeInit == EnvInit => TypeInv
<1> SUFFICES ASSUME EnvInit PROVE TypeInv  OBVIOUS
<1>1. EnvTypeOK
  <2>1. 1 \in 1..Len(Injections) + 1  BY RulesFacts
  <2>2. env \in [Loads -> [Rules -> Env \cup {NoMap}]]  BY RulesFacts DEF EnvInit
  <2>3. 0 \in 0..MaxChanges  BY EnvAssumption
  <2> QED BY <2>1, <2>2, <2>3, RulesFacts, LoadsFacts DEF EnvInit, EnvTypeOK
<1>2. MapsInv  BY DEF EnvInit, MapsInv, Shared
<1>3. ThreadInv
  <2>1. \A r \in Requests : uses[r] = load /\ phase[r] = "none" /\ key[r] = NoKey
    BY DEF EnvInit
  <2>2. load <= load  BY DEF EnvInit
  <2> QED BY <2>1, <2>2 DEF ThreadInv
<1> QED BY <1>1, <1>2, <1>3 DEF TypeInv

LEMMA NextRule ==
    ASSUME TypeInv, NEW r \in Requests, NEW i \in Rules, NextWithFile(r, i)
    PROVE  /\ i \in 1..Len(Injections) + 1 /\ Injections[i].file \in EnvPaths
           /\ files[Injections[i].file] # Bad => files[Injections[i].file] \in Env
<1>1. i \in 1..Len(Injections) + 1  BY RulesFacts
<1>2. Injections[i].file \in EnvPaths  BY RulesFacts DEF NextWithFile
<1>3. files[Injections[i].file] \in Contents \cup {Bad}  BY <1>2 DEF TypeInv, EnvTypeOK
<1> QED BY <1>1, <1>2, <1>3, EnvAssumption

LEMMA TakeTypes ==
    ASSUME TypeInv, NEW r \in Requests, TakeRules(r)
    PROVE  TypeInv'
<1> USE DEF TakeRules, maps, TypeInv
<1>1. EnvTypeOK'  BY DEF EnvTypeOK
<1>2. MapsInv'  BY DEF MapsInv
<1>3. ThreadInv'  BY LoadsFacts DEF ThreadInv, EnvTypeOK
<1> QED BY <1>1, <1>2, <1>3

LEMMA ReadTypes ==
    ASSUME TypeInv, NEW r \in Requests, ReadEnvFile(r)
    PROVE  TypeInv'
<1> PICK i \in Rules :
      /\ NextWithFile(r, i) /\ files[Injections[i].file] # Bad
      /\ phase' = [phase EXCEPT ![r] = "merge"]
      /\ rule' = [rule EXCEPT ![r] = i]
      /\ todo' = [todo EXCEPT ![r] = files[Injections[i].file]]
      /\ seen' = [seen EXCEPT ![r][i] = files[Injections[i].file]]
      /\ own' = IF Shared(i) THEN own ELSE [own EXCEPT ![r][i] = Empty]
      /\ UNCHANGED <<maps, uses, key, expanded, ranging, lines>>
  BY DEF ReadEnvFile
<1> USE DEF maps, TypeInv
<1>1. files[Injections[i].file] \in Env /\ i \in 1..Len(Injections) + 1  BY NextRule
<1>2. EnvTypeOK'
  <2>1. own' \in [Requests -> [Rules -> Env \cup {NoMap}]]  BY RulesFacts DEF EnvTypeOK
  <2>2. seen' \in [Requests -> [Rules -> Env]]  BY <1>1 DEF EnvTypeOK
  <2> QED BY <1>1, <2>1, <2>2 DEF EnvTypeOK
<1>3. MapsInv'  BY DEF MapsInv
<1>4. key[r] = NoKey  BY DEF ThreadInv, NextWithFile
<1>5. own'[r][i] # NoMap \/ Shared(i)  BY RulesFacts DEF EnvTypeOK
<1>6. ThreadInv'  BY <1>4, <1>5 DEF ThreadInv, EnvTypeOK, NextWithFile
<1> QED BY <1>2, <1>3, <1>6

LEMMA FailTypes ==
    ASSUME TypeInv, NEW r \in Requests, ReadFails(r)
    PROVE  TypeInv'
<1> USE DEF ReadFails, maps, TypeInv
<1>1. EnvTypeOK'  BY DEF EnvTypeOK
<1>2. MapsInv'  BY DEF MapsInv
<1>3. key[r] = NoKey  BY DEF ThreadInv, NextWithFile
<1>4. ThreadInv'  BY <1>3 DEF ThreadInv, EnvTypeOK
<1> QED BY <1>1, <1>2, <1>4

LEMMA LookTypes ==
    ASSUME TypeInv, NEW r \in Requests, NEW k \in Keys, LookUpKey(r, k)
    PROVE  TypeInv'
<1> USE DEF LookUpKey, maps, TypeInv
<1>1. EnvTypeOK'
  <2>1. todo' = todo \/ todo' = [todo EXCEPT ![r] = [@ EXCEPT ![k] = Absent]]  OBVIOUS
  <2>3. [todo[r] EXCEPT ![k] = Absent] \in Env  BY DEF EnvTypeOK, Env
  <2>4. todo' \in [Requests -> Env]  BY <2>1, <2>3 DEF EnvTypeOK
  <2>2. key' \in [Requests -> Keys \cup {NoKey}]  BY DEF EnvTypeOK
  <2> QED BY <2>2, <2>4 DEF EnvTypeOK
<1>2. MapsInv'  BY DEF MapsInv
<1>3. ThreadInv'  BY DEF ThreadInv, EnvTypeOK
<1> QED BY <1>1, <1>2, <1>3

(* What WriteKey writes to.                                                *)
LEMMA WriteFacts ==
    ASSUME TypeInv, NEW r \in Requests, WriteKey(r)
    PROVE  /\ rule[r] \in Rules /\ key[r] \in Keys /\ uses[r] \in Loads
           /\ todo[r][key[r]] \in Values /\ todo[r][key[r]] # Absent
           /\ Shared(rule[r]) => env[uses[r]][rule[r]] \in Env
           /\ ~Shared(rule[r]) => own[r][rule[r]] \in Env
<1> USE DEF TypeInv, WriteKey
<1>1. rule[r] \in Rules /\ todo[r][key[r]] # Absent  BY DEF ThreadInv
<1>2. key[r] \in Keys /\ uses[r] \in Loads  BY DEF EnvTypeOK
<1>3. todo[r][key[r]] \in Values  BY <1>1, <1>2 DEF EnvTypeOK, Env
<1>4. env[uses[r]][rule[r]] \in Env \cup {NoMap} /\ own[r][rule[r]] \in Env \cup {NoMap}
  BY <1>1, <1>2 DEF EnvTypeOK
<1>5. Shared(rule[r]) => env[uses[r]][rule[r]] \in Env  BY <1>1, <1>2, <1>4 DEF MapsInv
<1>6. ~Shared(rule[r]) => own[r][rule[r]] \in Env  BY <1>4 DEF ThreadInv
<1> QED BY <1>1, <1>2, <1>3, <1>5, <1>6

LEMMA WriteTypes ==
    ASSUME TypeInv, NEW r \in Requests, WriteKey(r)
    PROVE  TypeInv'
<1> USE DEF TypeInv
<1> DEFINE i == rule[r]  k == key[r]  v == todo[r][key[r]]
<1>1. ASSUME NEW m \in Env PROVE [m EXCEPT ![k] = v] \in Env
  BY <1>1, WriteFacts DEF Env
<1>2. /\ todo' = [todo EXCEPT ![r][k] = Absent] /\ key' = [key EXCEPT ![r] = NoKey]
      /\ UNCHANGED <<files, edits, edited, load, phase, uses, rule, seen, expanded, ranging, lines>>
      /\ phase[r] = "merge"
  BY DEF WriteKey
<1>3. todo' \in [Requests -> Env]  BY <1>2, WriteFacts DEF EnvTypeOK, Env
<1>4. CASE Shared(i)
  <2>1. env' = [env EXCEPT ![uses[r]][i] = [@ EXCEPT ![k] = v]] /\ own' = own
    BY <1>4 DEF WriteKey
  <2>2. [env[uses[r]][i] EXCEPT ![k] = v] \in Env  BY <1>1, <1>4, WriteFacts
  <2>3. EnvTypeOK'  BY <1>2, <1>3, <2>1, <2>2, WriteFacts DEF EnvTypeOK
  <2>4. MapsInv'
    BY <1>4, <2>1, <2>2, WriteFacts, RulesFacts DEF MapsInv, EnvTypeOK
  <2>5. ThreadInv'  BY <1>2, <2>1, WriteFacts DEF ThreadInv, EnvTypeOK
  <2> QED BY <2>3, <2>4, <2>5
<1>5. CASE ~Shared(i)
  <2>1. own' = [own EXCEPT ![r][i] = [@ EXCEPT ![k] = v]] /\ env' = env
    BY <1>5 DEF WriteKey
  <2>2. [own[r][i] EXCEPT ![k] = v] \in Env  BY <1>1, <1>5, WriteFacts
  <2>3. EnvTypeOK'  BY <1>2, <1>3, <2>1, <2>2, WriteFacts DEF EnvTypeOK
  <2>4. MapsInv'  BY <2>1 DEF MapsInv
  <2>5. own'[r][i] # NoMap /\ \A s \in Requests : s # r => own'[s] = own[s]
    BY <2>1, <2>2, WriteFacts, RulesFacts DEF EnvTypeOK
  <2>6. ThreadInv'  BY <1>2, <2>5, WriteFacts DEF ThreadInv, EnvTypeOK
  <2> QED BY <2>3, <2>4, <2>6
<1> QED BY <1>4, <1>5

LEMMA MergedTypes ==
    ASSUME TypeInv, NEW r \in Requests, Merged(r)
    PROVE  TypeInv'
<1> USE DEF Merged, maps, TypeInv
<1>1. rule[r] \in Rules  BY DEF ThreadInv
<1>2. rule[r] + 1 \in 1..Len(Injections) + 1  BY <1>1, RulesFacts
<1>3. EnvTypeOK'  BY <1>2 DEF EnvTypeOK
<1>4. MapsInv'  BY DEF MapsInv
<1>5. ThreadInv'  BY DEF ThreadInv, EnvTypeOK
<1> QED BY <1>3, <1>4, <1>5

LEMMA ExpandedTypes ==
    ASSUME TypeInv, NEW r \in Requests, Expanded(r)
    PROVE  TypeInv'
<1> USE DEF Expanded, maps, TypeInv
<1>1. EnvTypeOK'  BY DEF EnvTypeOK
<1>2. MapsInv'  BY DEF MapsInv
<1>3. ThreadInv'  BY DEF ThreadInv, EnvTypeOK
<1> QED BY <1>1, <1>2, <1>3

LEMMA RangeTypes ==
    ASSUME TypeInv, NEW r \in Requests, StartRange(r) \/ EndRange(r)
    PROVE  TypeInv'
<1> DEFINE now == [i \in Rules |-> EnvOf(r, i)]
<1>1. now \in [Rules -> Env]  BY EnvOfType
<1>2. ranging' \in [Requests -> BOOLEAN]
  BY DEF TypeInv, EnvTypeOK, StartRange, EndRange
<1>3. lines' \in [Requests -> [Rules -> Env]]
  <2>1. CASE StartRange(r)  BY <1>1, <2>1 DEF StartRange, TypeInv, EnvTypeOK
  <2>2. CASE EndRange(r)
    <3>1. PICK late \in SUBSET (Rules \X Keys) :
            lines' = [lines EXCEPT ![r] = [i \in Rules |-> [k \in Keys |->
                        IF <<i, k>> \in late THEN now[i][k] ELSE lines[r][i][k]]]]
      <4> DEFINE changed == {p \in Rules \X Keys : lines[r][p[1]][p[2]] # now[p[1]][p[2]]}
      <4>1. \E late \in SUBSET changed :
              lines' = [lines EXCEPT ![r] = [i \in Rules |-> [k \in Keys |->
                        IF <<i, k>> \in late THEN now[i][k] ELSE lines[r][i][k]]]]
        BY <2>2, Zenon DEF EndRange
      <4>2. SUBSET changed \subseteq SUBSET (Rules \X Keys)  OBVIOUS
      <4> HIDE DEF changed, now
      <4> QED BY <4>1, <4>2, Zenon
    <3>2. [i \in Rules |-> [k \in Keys |->
              IF <<i, k>> \in late THEN now[i][k] ELSE lines[r][i][k]]] \in [Rules -> Env]
      BY <1>1 DEF TypeInv, EnvTypeOK, Env
    <3> QED BY <3>1, <3>2 DEF TypeInv, EnvTypeOK
  <2> QED BY <2>1, <2>2
<1>4. UNCHANGED <<maps, phase, uses, rule, todo, key, own, seen, expanded>>
  BY DEF StartRange, EndRange
<1>5. EnvTypeOK'  BY <1>2, <1>3, <1>4 DEF TypeInv, EnvTypeOK, maps
<1>6. MapsInv' /\ ThreadInv'  BY <1>4 DEF TypeInv, MapsInv, ThreadInv, maps
<1> QED BY <1>5, <1>6 DEF TypeInv

LEMMA ForgottenTypes ==
    ASSUME TypeInv, NEW S \in SUBSET Requests, Forgotten(S), UNCHANGED <<env, edited, files, edits>>,
           load' \in Loads, load' >= load
    PROVE  TypeInv'
<1> USE DEF TypeInv, Forgotten
<1>1. 1 \in 1..Len(Injections) + 1  BY RulesFacts
<1>2. phase' \in [Requests -> {"none", "rule", "merge", "ready", "over"}]  BY DEF EnvTypeOK
<1>3. uses' \in [Requests -> Loads]  BY LoadsFacts DEF EnvTypeOK
<1>4. rule' \in [Requests -> 1..Len(Injections) + 1]  BY <1>1 DEF EnvTypeOK
<1>5. todo' \in [Requests -> Env]  BY RulesFacts DEF EnvTypeOK
<1>6. key' \in [Requests -> Keys \cup {NoKey}]  BY DEF EnvTypeOK
<1>7. own' \in [Requests -> [Rules -> Env \cup {NoMap}]]  BY DEF EnvTypeOK
<1>8. seen' \in [Requests -> [Rules -> Env]]  BY RulesFacts DEF EnvTypeOK
<1>9. expanded' \in [Requests -> BOOLEAN]  BY DEF EnvTypeOK
<1>10. ranging' \in [Requests -> BOOLEAN]  BY DEF EnvTypeOK
<1>11. lines' \in [Requests -> [Rules -> Env]]  BY RulesFacts DEF EnvTypeOK
<1>12. EnvTypeOK'
  BY <1>2, <1>3, <1>4, <1>5, <1>6, <1>7, <1>8, <1>9, <1>10, <1>11 DEF EnvTypeOK
<1>13. MapsInv'  BY DEF MapsInv
<1>14. ThreadInv'
  <2> SUFFICES ASSUME NEW r \in Requests
               PROVE /\ uses'[r] <= load'
                     /\ phase'[r] = "merge" =>
                          /\ rule'[r] \in Rules /\ HasFile(rule'[r])
                          /\ ~Shared(rule'[r]) => own'[r][rule'[r]] # NoMap
                     /\ key'[r] # NoKey => phase'[r] = "merge" /\ todo'[r][key'[r]] # Absent
    BY DEF ThreadInv, HasFile, Shared
  <2>1. CASE r \in S  BY <2>1, LoadsFacts DEF EnvTypeOK, ThreadInv
  <2>2. CASE r \notin S
    <3>1. /\ uses'[r] = uses[r] /\ phase'[r] = phase[r] /\ rule'[r] = rule[r]
          /\ own'[r] = own[r] /\ key'[r] = key[r] /\ todo'[r] = todo[r]
      BY <2>2
    <3>2. uses[r] <= load'
      <4>1. uses[r] \in Nat /\ load \in Nat /\ load' \in Nat /\ uses[r] <= load
        BY LoadsFacts DEF EnvTypeOK, ThreadInv
      <4> QED BY <4>1
    <3> QED BY <3>1, <3>2 DEF ThreadInv
  <2> QED BY <2>1, <2>2
<1> QED BY <1>12, <1>13, <1>14

LEMMA WorldTypes ==
    ASSUME TypeInv, LoadConfig \/ EditFile \/ Fault
    PROVE  TypeInv'
<1>1. load \in Loads /\ load \in Nat /\ edits \in Nat  BY LoadsFacts, EnvAssumption DEF TypeInv, EnvTypeOK
<1>2. CASE LoadConfig
  <2>1. load' \in Loads /\ load' >= load  BY <1>1, <1>2, EnvAssumption DEF LoadConfig, Loads
  <2>2. EnvTypeOK'  BY <1>2, <2>1 DEF LoadConfig, locals, TypeInv, EnvTypeOK
  <2>3. MapsInv'  BY <1>2 DEF LoadConfig, TypeInv, MapsInv
  <2>4. ThreadInv'
    <3>1. \A r \in Requests : uses[r] \in Nat /\ uses[r] <= load
      BY LoadsFacts DEF TypeInv, ThreadInv, EnvTypeOK
    <3>2. \A r \in Requests : uses[r] <= load'  BY <1>1, <2>1, <3>1, LoadsFacts
    <3> QED BY <1>2, <3>2 DEF LoadConfig, locals, TypeInv, ThreadInv
  <2> QED BY <2>2, <2>3, <2>4 DEF TypeInv
<1>3. CASE EditFile
  <2>1. edits' \in 0..MaxChanges  BY <1>1, <1>3, EnvAssumption DEF EditFile
  <2>2. edited' \subseteq Loads  
    <3>1. load \in 0..MaxChanges /\ edited \subseteq Loads  BY DEF TypeInv, EnvTypeOK, Loads
    <3>2. 0..load \subseteq Loads  BY <1>1, <3>1, EnvAssumption DEF Loads
    <3> QED BY <1>3, <3>1, <3>2 DEF EditFile
  <2>3. files' \in [EnvPaths -> Contents \cup {Bad}]  BY <1>3 DEF EditFile, TypeInv, EnvTypeOK
  <2>4. EnvTypeOK'  BY <1>3, <2>1, <2>2, <2>3 DEF EditFile, locals, TypeInv, EnvTypeOK
  <2>5. MapsInv' /\ ThreadInv'  BY <1>3 DEF EditFile, locals, TypeInv, MapsInv, ThreadInv
  <2> QED BY <2>4, <2>5 DEF TypeInv
<1>4. CASE Fault
  <2>1. load' \in Loads /\ load' >= load  BY <1>1, <1>4, EnvAssumption DEF Fault, Loads
  <2> QED BY <1>4, <2>1, ForgottenTypes DEF Fault
<1> QED BY <1>2, <1>3, <1>4

LEMMA TypeStep ==
    ASSUME TypeInv, [EnvNext]_envVars
    PROVE  TypeInv'
<1>1. CASE UNCHANGED envVars
  BY <1>1 DEF envVars, TypeInv, EnvTypeOK, MapsInv, ThreadInv
<1>2. ASSUME NEW r \in Requests, Expand(r) PROVE TypeInv'
  BY <1>2, ReadTypes, FailTypes, LookTypes, WriteTypes, MergedTypes, ExpandedTypes DEF Expand
<1>3. ASSUME NEW r \in Requests, Return(r) PROVE TypeInv'
  <2>1. load' = load /\ load \in Loads /\ load >= load
    BY <1>3, LoadsFacts DEF Return, maps, TypeInv, EnvTypeOK
  <2> QED BY <1>3, <2>1, ForgottenTypes DEF Return, maps
<1> QED BY <1>1, <1>2, <1>3, TakeTypes, RangeTypes, WorldTypes DEF EnvNext

(* Every reachable state of the requests and of their maps is well typed.  *)
THEOREM EnvTypeCorrect == EnvSpec => []EnvTypeOK
<1>1. TypeInv /\ [EnvNext]_envVars => TypeInv'  BY TypeStep
<1>2. TypeInv => EnvTypeOK  BY DEF TypeInv
<1> QED BY <1>1, <1>2, TypeInit, PTL DEF EnvSpec

-----------------------------------------------------------------------------
(* What steps leave alone.                                                 *)

Act(r) == TakeRules(r) \/ Expand(r) \/ StartRange(r) \/ EndRange(r) \/ Return(r)

(* The state of one request, but for its range.                            *)
Of(r) == <<phase[r], uses[r], rule[r], todo[r], key[r], own[r], seen[r], expanded[r]>>

(* A request before it begins, and when it is over.                        *)
Blank(r) ==
    /\ phase[r] \in {"none", "over"} /\ rule[r] = 1 /\ key[r] = NoKey /\ ~expanded[r]
    /\ \A i \in Rules : seen[r][i] = Empty /\ own[r][i] = NoMap

LEMMA OthersStay ==
    ASSUME TypeInv, NEW r \in Requests, NEW d \in Requests, d # r, Act(r)
    PROVE  UNCHANGED Of(d)
<1> USE DEF Of, TypeInv, EnvTypeOK, maps
<1>1. CASE TakeRules(r)  BY <1>1 DEF TakeRules
<1>2. CASE ReadEnvFile(r)  BY <1>2 DEF ReadEnvFile
<1>3. CASE ReadFails(r)  BY <1>3 DEF ReadFails
<1>4. ASSUME NEW k \in Keys, LookUpKey(r, k) PROVE UNCHANGED Of(d)  BY <1>4 DEF LookUpKey
<1>5. CASE WriteKey(r)  BY <1>5 DEF WriteKey
<1>6. CASE Merged(r)  BY <1>6 DEF Merged
<1>7. CASE Expanded(r)  BY <1>7 DEF Expanded
<1>8. CASE StartRange(r) \/ EndRange(r)  BY <1>8 DEF StartRange, EndRange
<1>9. CASE Return(r)  BY <1>9 DEF Return, Forgotten
<1> QED BY <1>1, <1>2, <1>3, <1>4, <1>5, <1>6, <1>7, <1>8, <1>9 DEF Act, Expand

LEMMA ForgottenBlank ==
    ASSUME NEW S \in SUBSET Requests, Forgotten(S), NEW d \in S
    PROVE  Blank(d)'
BY DEF Forgotten, Blank

LEMMA MapsStay ==
    ASSUME NEW r \in Requests, Act(r)
    PROVE  /\ UNCHANGED <<files, edits, edited, load>>
           /\ env' = env \/ WriteKey(r)
BY DEF Act, Expand, TakeRules, ReadEnvFile, ReadFails, LookUpKey, WriteKey, Merged, Expanded,
       StartRange, EndRange, Return, maps

(* The one entry of a shared map that WriteKey changes.                    *)
LEMMA WriteEffect ==
    ASSUME TypeInv, NEW r \in Requests, WriteKey(r),
           NEW g \in Loads, NEW i \in Rules, NEW k \in Keys, Shared(i)
    PROVE  env'[g][i][k] = IF g = uses[r] /\ i = rule[r] /\ k = key[r] THEN todo[r][k]
                           ELSE env[g][i][k]
<1>1. CASE ~Shared(rule[r])  BY <1>1 DEF WriteKey
<1>2. CASE Shared(rule[r])
  <2>1. env' = [env EXCEPT ![uses[r]][rule[r]] = [@ EXCEPT ![key[r]] = todo[r][key[r]]]]
    BY <1>2 DEF WriteKey
  <2>2. env[uses[r]][rule[r]] \in Env  BY <1>2, WriteFacts
  <2>3. env[g][i] \in Env \cup {NoMap} /\ env[g][i] # NoMap
    BY DEF TypeInv, EnvTypeOK, MapsInv
  <2> QED BY <2>1, <2>2, <2>3, WriteFacts DEF TypeInv, EnvTypeOK, Env
<1> QED BY <1>1, <1>2

(* Keys come and never go.                                                 *)
LEMMA KeysStay ==
    ASSUME TypeInv, [EnvNext]_envVars, NEW g \in Loads, NEW i \in Rules, NEW k \in Keys,
           Shared(i), env[g][i][k] # Absent
    PROVE  env'[g][i][k] # Absent
<1>1. ASSUME NEW r \in Requests, Act(r) PROVE env'[g][i][k] # Absent
  <2>1. CASE env' = env  BY <2>1
  <2>2. CASE WriteKey(r)  BY <2>2, WriteEffect, WriteFacts
  <2> QED BY <1>1, <2>1, <2>2, MapsStay
<1>2. CASE LoadConfig \/ EditFile \/ Fault  BY <1>2 DEF LoadConfig, EditFile, Fault
<1>3. CASE UNCHANGED envVars  BY <1>3 DEF envVars
<1> QED BY <1>1, <1>2, <1>3 DEF EnvNext, Act

-----------------------------------------------------------------------------
(* Inline entries.                                                         *)

InlineInv ==
    \A g \in Loads, i \in Rules, k \in Keys :
        Shared(i) /\ Injections[i].env[k] # Absent => env[g][i][k] = Injections[i].env[k]

KeyInv(r) ==
    key[r] # NoKey /\ Shared(rule[r]) => Injections[rule[r]].env[key[r]] = Absent

LEMMA InlineStep ==
    ASSUME TypeInv, InlineInv, \A r \in Requests : KeyInv(r), [EnvNext]_envVars
    PROVE  InlineInv'
<1> SUFFICES ASSUME NEW g \in Loads, NEW i \in Rules, NEW k \in Keys,
                    Shared(i), Injections[i].env[k] # Absent
             PROVE  env'[g][i][k] = Injections[i].env[k]
  BY DEF InlineInv, Shared
<1>1. env[g][i][k] = Injections[i].env[k]  BY DEF InlineInv
<1>2. ASSUME NEW r \in Requests, Act(r) PROVE env'[g][i][k] = Injections[i].env[k]
  <2>1. CASE env' = env  BY <1>1, <2>1
  <2>2. CASE WriteKey(r)
    <3>1. key[r] # NoKey  BY <2>2 DEF WriteKey
    <3>2. ~(i = rule[r] /\ k = key[r])  BY <3>1 DEF KeyInv
    <3> QED BY <1>1, <2>2, <3>2, WriteEffect
  <2> QED BY <1>2, <2>1, <2>2, MapsStay
<1>3. CASE LoadConfig \/ EditFile \/ Fault  BY <1>1, <1>3 DEF LoadConfig, EditFile, Fault
<1>4. CASE UNCHANGED envVars  BY <1>1, <1>4 DEF envVars
<1> QED BY <1>2, <1>3, <1>4 DEF EnvNext, Act

LEMMA KeyStep ==
    ASSUME TypeInv, InlineInv, [EnvNext]_envVars, NEW d \in Requests, KeyInv(d)
    PROVE  KeyInv(d)'
<1>1. ASSUME UNCHANGED Of(d) PROVE KeyInv(d)'  BY <1>1 DEF Of, KeyInv, Shared
<1>2. ASSUME Blank(d)' PROVE KeyInv(d)'  BY <1>2 DEF Blank, KeyInv
<1>3. ASSUME key'[d] = NoKey PROVE KeyInv(d)'  BY <1>3 DEF KeyInv
<1>4. ASSUME NEW k \in Keys, LookUpKey(d, k) PROVE KeyInv(d)'
  <2>1. CASE EnvOf(d, rule[d])[k] # Absent
    BY <1>4, <2>1 DEF LookUpKey, KeyInv, Shared
  <2>2. CASE EnvOf(d, rule[d])[k] = Absent
    <3>1. rule[d] \in Rules /\ uses[d] \in Loads
      BY <1>4 DEF LookUpKey, TypeInv, ThreadInv, EnvTypeOK
    <3>2. Shared(rule[d]) => Injections[rule[d]].env[k] = Absent
      BY <2>2, <3>1 DEF EnvOf, InlineInv
    <3>3. key' = [key EXCEPT ![d] = k] /\ rule' = rule  BY <1>4, <2>2 DEF LookUpKey
    <3> QED BY <3>2, <3>3 DEF KeyInv, Shared, TypeInv, EnvTypeOK
  <2> QED BY <2>1, <2>2
<1>5. CASE Expand(d)
  <2>1. CASE ReadEnvFile(d) \/ ReadFails(d) \/ Merged(d) \/ Expanded(d)
    <3>1. key[d] = NoKey  BY <2>1 DEF ReadEnvFile, ReadFails, NextWithFile, Merged, Expanded,
                                     TypeInv, ThreadInv
    <3> QED BY <1>3, <2>1, <3>1 DEF ReadEnvFile, ReadFails, Merged, Expanded
  <2>2. CASE WriteKey(d)
    BY <1>3, <2>2 DEF WriteKey, TypeInv, EnvTypeOK
  <2> QED BY <1>4, <1>5, <2>1, <2>2 DEF Expand
<1>6. CASE TakeRules(d) \/ StartRange(d) \/ EndRange(d)
  BY <1>6 DEF TakeRules, StartRange, EndRange, KeyInv, Shared
<1>7. CASE Return(d)
  BY <1>2, <1>7, ForgottenBlank DEF Return
<1>8. ASSUME NEW r \in Requests, r # d, Act(r) PROVE KeyInv(d)'
  BY <1>1, <1>8, OthersStay
<1>9. CASE LoadConfig \/ EditFile  BY <1>1, <1>9 DEF LoadConfig, EditFile, locals, Of
<1>10. CASE Fault  BY <1>2, <1>10, ForgottenBlank DEF Fault
<1>11. CASE UNCHANGED envVars  BY <1>1, <1>11 DEF envVars, Of
<1> QED BY <1>5, <1>6, <1>7, <1>8, <1>9, <1>10, <1>11 DEF EnvNext, Act

-----------------------------------------------------------------------------
(* What a request has merged.                                              *)

Live(r) == phase[r] # "ready" \/ expanded[r]
Pending(r, i, k) == phase[r] = "merge" /\ rule[r] = i /\ todo[r][k] # Absent

FreshInv(r) ==
    /\ phase[r] = "none" => Blank(r)
    /\ expanded[r] => phase[r] = "ready"

TodoInv(r) ==
    \A k \in Keys : phase[r] = "merge" /\ todo[r][k] # Absent => todo[r][k] = seen[r][rule[r]][k]

PresentInv(r) ==
    Live(r) => \A i \in Rules, k \in Keys :
        Shared(i) /\ seen[r][i][k] # Absent /\ ~Pending(r, i, k) => env[uses[r]][i][k] # Absent

OwnInv(r) ==
    Live(r) => \A i \in Rules, k \in Keys :
        ~Shared(i) => EnvOf(r, i)[k] = IF Pending(r, i, k) THEN Absent ELSE seen[r][i][k]

MergeInv(r) == FreshInv(r) /\ TodoInv(r) /\ PresentInv(r) /\ OwnInv(r)

LEMMA BlankMerge ==
    ASSUME NEW r \in Requests, Blank(r)
    PROVE  MergeInv(r)
<1>1. \A i \in Rules, k \in Keys : seen[r][i][k] = Absent  BY DEF Blank, Empty
<1>2. \A i \in Rules, k \in Keys : ~Shared(i) => EnvOf(r, i)[k] = Absent
  BY DEF Blank, EnvOf, Empty
<1>3. \A i \in Rules, k \in Keys : ~Pending(r, i, k)  BY DEF Blank, Pending
<1> QED BY <1>1, <1>2, <1>3 DEF Blank, MergeInv, FreshInv, TodoInv, PresentInv, OwnInv

LEMMA BlankMergeNext ==
    ASSUME NEW r \in Requests, Blank(r)'
    PROVE  MergeInv(r)'
<1>1. \A i \in Rules, k \in Keys : seen'[r][i][k] = Absent  BY DEF Blank, Empty
<1>2. \A i \in Rules, k \in Keys : ~Shared(i) => EnvOf(r, i)'[k] = Absent
  BY DEF Blank, EnvOf, Empty, Shared
<1>3. \A i \in Rules, k \in Keys : ~Pending(r, i, k)'  BY DEF Blank, Pending
<1> QED BY <1>1, <1>2, <1>3 DEF Blank, MergeInv, FreshInv, TodoInv, PresentInv, OwnInv, Shared

(* Nothing a request knows changes by the steps of others, who only add    *)
(* keys to shared maps.                                                    *)
LEMMA MergeStays ==
    ASSUME TypeInv, [EnvNext]_envVars, NEW d \in Requests, MergeInv(d), UNCHANGED Of(d)
    PROVE  MergeInv(d)'
<1> USE DEF MergeInv, Of, Live, Pending
<1>1. FreshInv(d)' /\ TodoInv(d)'  BY DEF FreshInv, TodoInv, Blank
<1>2. uses[d] \in Loads  BY DEF TypeInv, EnvTypeOK
<1>3. PresentInv(d)'  BY <1>2, KeysStay DEF PresentInv, Shared
<1>4. OwnInv(d)'  BY DEF OwnInv, EnvOf, Shared
<1> QED BY <1>1, <1>3, <1>4

LEMMA MergeTake ==
    ASSUME TypeInv, NEW r \in Requests, MergeInv(r), TakeRules(r)
    PROVE  MergeInv(r)'
<1>1. Blank(r)  BY DEF MergeInv, FreshInv, TakeRules
<1>2. /\ phase'[r] = "rule" /\ expanded'[r] = expanded[r]
      /\ seen' = seen /\ own' = own
  BY DEF TakeRules, TypeInv, EnvTypeOK
<1>3. \A i \in Rules, k \in Keys : seen[r][i][k] = Absent  BY <1>1 DEF Blank, Empty
<1>4. \A i \in Rules, k \in Keys : ~Shared(i) => EnvOf(r, i)'[k] = Absent
  BY <1>1, <1>2 DEF Blank, EnvOf, Empty, Shared
<1> QED BY <1>1, <1>2, <1>3, <1>4
  DEF Blank, MergeInv, FreshInv, TodoInv, PresentInv, OwnInv, Pending, Shared

LEMMA MergeRead ==
    ASSUME TypeInv, NEW r \in Requests, MergeInv(r), ReadEnvFile(r)
    PROVE  MergeInv(r)'
<1> PICK i \in Rules :
      /\ NextWithFile(r, i) /\ files[Injections[i].file] # Bad
      /\ phase' = [phase EXCEPT ![r] = "merge"]
      /\ rule' = [rule EXCEPT ![r] = i]
      /\ todo' = [todo EXCEPT ![r] = files[Injections[i].file]]
      /\ seen' = [seen EXCEPT ![r][i] = files[Injections[i].file]]
      /\ own' = IF Shared(i) THEN own ELSE [own EXCEPT ![r][i] = Empty]
      /\ UNCHANGED <<maps, uses, key, expanded, ranging, lines>>
  BY DEF ReadEnvFile
<1> DEFINE f == files[Injections[i].file]
<1>1. /\ phase'[r] = "merge" /\ rule'[r] = i /\ todo'[r] = f /\ seen'[r][i] = f
      /\ \A j \in Rules : j # i => seen'[r][j] = seen[r][j] /\ own'[r][j] = own[r][j]
      /\ ~Shared(i) => own'[r][i] = Empty
      /\ uses' = uses /\ env' = env /\ expanded' = expanded
  BY DEF TypeInv, EnvTypeOK, maps
<1>2. ~expanded[r] /\ Live(r) /\ \A j \in Rules, k \in Keys : ~Pending(r, j, k)
  BY DEF NextWithFile, MergeInv, FreshInv, Live, Pending
<1>3. FreshInv(r)' /\ TodoInv(r)'  BY <1>1, <1>2 DEF FreshInv, TodoInv
<1>4. PresentInv(r)'
  BY <1>1, <1>2 DEF MergeInv, PresentInv, Pending, Shared
<1>5. OwnInv(r)'
  <2> SUFFICES ASSUME NEW j \in Rules, NEW k \in Keys, ~Shared(j)
               PROVE  EnvOf(r, j)'[k] = IF Pending(r, j, k)' THEN Absent ELSE seen'[r][j][k]
    BY DEF OwnInv, Shared
  <2>1. CASE j = i
    <3>1. EnvOf(r, j)'[k] = Absent  BY <1>1, <2>1 DEF EnvOf, Shared, Empty
    <3> QED BY <1>1, <2>1, <3>1 DEF Pending
  <2>2. CASE j # i
    <3>1. EnvOf(r, j)' = EnvOf(r, j)  BY <1>1, <2>2 DEF EnvOf, Shared
    <3> QED BY <1>1, <1>2, <2>2, <3>1 DEF Pending, MergeInv, OwnInv
  <2> QED BY <2>1, <2>2
<1> QED BY <1>3, <1>4, <1>5 DEF MergeInv

LEMMA MergeFail ==
    ASSUME TypeInv, NEW r \in Requests, MergeInv(r), ReadFails(r)
    PROVE  MergeInv(r)'
<1>1. phase'[r] = "ready" /\ ~expanded'[r]
  BY DEF ReadFails, NextWithFile, MergeInv, FreshInv, TypeInv, EnvTypeOK
<1> QED BY <1>1 DEF MergeInv, FreshInv, TodoInv, PresentInv, OwnInv, Live

LEMMA MergeLook ==
    ASSUME TypeInv, NEW r \in Requests, MergeInv(r), NEW k \in Keys, LookUpKey(r, k)
    PROVE  MergeInv(r)'
<1> DEFINE i == rule[r]
<1>1. i \in Rules /\ phase[r] = "merge" /\ Live(r) /\ todo[r][k] # Absent
  BY DEF LookUpKey, TypeInv, ThreadInv, Live
<1>2. UNCHANGED <<maps, phase, uses, rule, own, seen, expanded>>  BY DEF LookUpKey
<1>3. \A j \in Rules : EnvOf(r, j)' = EnvOf(r, j)  BY <1>2 DEF EnvOf, maps, Shared
<1>4. CASE EnvOf(r, i)[k] = Absent
  <2>1. todo' = todo  BY <1>4 DEF LookUpKey
  <2> QED BY <1>2, <1>3, <2>1
    DEF MergeInv, FreshInv, Blank, LookUpKey, TodoInv, PresentInv, OwnInv, Live, Pending, Shared,
        maps
<1>5. CASE EnvOf(r, i)[k] # Absent
  <2>1. todo' = [todo EXCEPT ![r][k] = Absent]  BY <1>5 DEF LookUpKey
  <2>2. \A m \in Keys : todo'[r][m] = IF m = k THEN Absent ELSE todo[r][m]
    BY <2>1 DEF TypeInv, EnvTypeOK, Env
  <2>3. FreshInv(r)'  BY <1>1, <1>2 DEF MergeInv, FreshInv
  <2>4. TodoInv(r)'  BY <1>2, <2>2 DEF MergeInv, TodoInv
  <2>5. Shared(i)
    BY <1>1, <1>5 DEF MergeInv, OwnInv, Pending
  <2>6. env[uses[r]][i][k] # Absent  BY <1>5, <2>5 DEF EnvOf
  <2>7. PresentInv(r)'
    BY <1>1, <1>2, <2>2, <2>6 DEF MergeInv, PresentInv, Pending, Shared, maps
  <2>8. OwnInv(r)'
    BY <1>1, <1>2, <1>3, <2>2, <2>5 DEF MergeInv, OwnInv, Pending, Shared
  <2> QED BY <2>3, <2>4, <2>7, <2>8 DEF MergeInv
<1> QED BY <1>4, <1>5

LEMMA MergeWrite ==
    ASSUME TypeInv, [EnvNext]_envVars, NEW r \in Requests, MergeInv(r), WriteKey(r)
    PROVE  MergeInv(r)'
<1> DEFINE i == rule[r]  k == key[r]
<1>1. /\ i \in Rules /\ k \in Keys /\ uses[r] \in Loads
      /\ phase[r] = "merge" /\ Live(r) /\ todo[r][k] # Absent
  BY WriteFacts DEF WriteKey, Live
<1>2. UNCHANGED <<phase, uses, rule, seen, expanded>>  BY DEF WriteKey
<1>3. todo' = [todo EXCEPT ![r][k] = Absent]  BY DEF WriteKey
<1>4. \A m \in Keys : todo'[r][m] = IF m = k THEN Absent ELSE todo[r][m]
  BY <1>1, <1>3 DEF TypeInv, EnvTypeOK, Env
<1>5. FreshInv(r)'  BY <1>1, <1>2 DEF MergeInv, FreshInv
<1>6. TodoInv(r)'  BY <1>2, <1>4 DEF MergeInv, TodoInv
<1>7. Shared(i) => env'[uses[r]][i][k] # Absent  BY <1>1, WriteEffect
<1>8. PresentInv(r)'
  <2> SUFFICES ASSUME NEW j \in Rules, NEW m \in Keys, Shared(j), seen[r][j][m] # Absent,
                      ~Pending(r, j, m)'
               PROVE  env'[uses[r]][j][m] # Absent
    BY <1>2 DEF PresentInv, Shared
  <2>1. CASE j = i /\ m = k  BY <1>7, <2>1
  <2>2. CASE ~(j = i /\ m = k)
    <3>1. ~Pending(r, j, m)  BY <1>2, <1>4, <2>2 DEF Pending
    <3>2. env[uses[r]][j][m] # Absent  BY <1>1, <3>1 DEF MergeInv, PresentInv
    <3> QED BY <1>1, <3>2, KeysStay
  <2> QED BY <2>1, <2>2
<1>9. OwnInv(r)'
  <2> SUFFICES ASSUME NEW j \in Rules, NEW m \in Keys, ~Shared(j)
               PROVE  EnvOf(r, j)'[m] = IF Pending(r, j, m)' THEN Absent ELSE seen[r][j][m]
    BY <1>2 DEF OwnInv, Shared
  <2>1. CASE j = i /\ m = k
    <3>1. own' = [own EXCEPT ![r][i] = [@ EXCEPT ![k] = todo[r][k]]]
      BY <2>1 DEF WriteKey
    <3>2. own[r][i] \in Env  BY <2>1, WriteFacts
    <3>3. own'[r][i] = [own[r][i] EXCEPT ![k] = todo[r][k]]
      BY <1>1, <3>1 DEF TypeInv, EnvTypeOK
    <3>4. own'[r][i] \in Env /\ own'[r][i][k] = todo[r][k]
      BY <1>1, <3>2, <3>3, WriteFacts DEF Env
    <3>5. EnvOf(r, j)'[m] = todo[r][k]  BY <2>1, <3>4, RulesFacts DEF EnvOf, Shared
    <3>6. todo[r][k] = seen[r][i][k]  BY <1>1 DEF MergeInv, TodoInv
    <3> QED BY <1>1, <1>4, <2>1, <3>5, <3>6 DEF Pending
  <2>2. CASE ~(j = i /\ m = k)
    <3>1. Pending(r, j, m)' = Pending(r, j, m)  BY <1>2, <1>4, <2>2 DEF Pending
    <3>2. EnvOf(r, j)[m] = IF Pending(r, j, m) THEN Absent ELSE seen[r][j][m]
      BY <1>1 DEF MergeInv, OwnInv
    <3>3. EnvOf(r, j)'[m] = EnvOf(r, j)[m]
      <4>1. CASE j # i
        <5>1. own'[r][j] = own[r][j]  BY <4>1 DEF WriteKey, TypeInv, EnvTypeOK
        <5> QED BY <5>1 DEF EnvOf, Shared
      <4>2. CASE j = i
        <5>1. own' = [own EXCEPT ![r][i] = [@ EXCEPT ![k] = todo[r][k]]]
          BY <4>2 DEF WriteKey
        <5>2. own[r][i] \in Env  BY <4>2, WriteFacts
        <5>3. own'[r][i] = [own[r][i] EXCEPT ![k] = todo[r][k]]
          BY <1>1, <5>1 DEF TypeInv, EnvTypeOK
        <5>4. own'[r][i] \in Env /\ own'[r][i][m] = own[r][i][m]
          BY <1>1, <2>2, <4>2, <5>2, <5>3, WriteFacts DEF Env
        <5> QED BY <4>2, <5>2, <5>4, RulesFacts DEF EnvOf, Shared
      <4> QED BY <4>1, <4>2
    <3> QED BY <3>1, <3>2, <3>3
  <2> QED BY <2>1, <2>2
<1> QED BY <1>5, <1>6, <1>8, <1>9 DEF MergeInv

LEMMA MergeEnds ==
    ASSUME TypeInv, NEW r \in Requests, MergeInv(r), Merged(r) \/ Expanded(r)
    PROVE  MergeInv(r)'
<1>1. UNCHANGED <<maps, uses, todo, own, seen>>  BY DEF Merged, Expanded
<1>2. \A i \in Rules : EnvOf(r, i)' = EnvOf(r, i)  BY <1>1 DEF EnvOf, maps, Shared
<1>3. \A i \in Rules, k \in Keys : ~Pending(r, i, k)
  BY DEF Pending, Merged, Expanded, Empty
<1>4. phase'[r] \in {"rule", "ready"} /\ Live(r)
      /\ (expanded'[r] => phase'[r] = "ready")
  BY DEF Merged, Expanded, Live, MergeInv, FreshInv, TypeInv, EnvTypeOK
<1>5. \A i \in Rules, k \in Keys : ~Pending(r, i, k)'  BY <1>4 DEF Pending
<1> QED BY <1>1, <1>2, <1>3, <1>4, <1>5
  DEF MergeInv, FreshInv, TodoInv, PresentInv, OwnInv, Shared, maps

LEMMA MergeStep ==
    ASSUME TypeInv, [EnvNext]_envVars, NEW d \in Requests, MergeInv(d)
    PROVE  MergeInv(d)'
<1>1. CASE Expand(d)
  BY <1>1, MergeRead, MergeFail, MergeLook, MergeWrite, MergeEnds DEF Expand
<1>2. CASE StartRange(d) \/ EndRange(d)
  BY <1>2, MergeStays DEF StartRange, EndRange, Of
<1>3. CASE Return(d)  BY <1>3, ForgottenBlank, BlankMergeNext DEF Return
<1>4. ASSUME NEW r \in Requests, r # d, Act(r) PROVE MergeInv(d)'
  BY <1>4, OthersStay, MergeStays
<1>5. CASE LoadConfig \/ EditFile  BY <1>5, MergeStays DEF LoadConfig, EditFile, locals, Of
<1>6. CASE Fault  BY <1>6, ForgottenBlank, BlankMergeNext DEF Fault
<1>7. CASE UNCHANGED envVars  BY <1>7, MergeStays DEF envVars, Of
<1> QED BY <1>1, <1>2, <1>3, <1>4, <1>5, <1>6, <1>7, MergeTake DEF EnvNext, Act

-----------------------------------------------------------------------------
(* While no file changes.                                                  *)

(* The rules whose file a request has read.                                *)
HasRead(r, i) ==
    IF phase[r] = "ready" THEN expanded[r]
    ELSE i < rule[r] \/ (phase[r] = "merge" /\ i = rule[r])

FilesInv(r) ==
    phase[r] \in {"rule", "merge", "ready"} /\ uses[r] \notin edited =>
        \A i \in Rules : HasFile(i) /\ HasRead(r, i) => seen[r][i] = files[Injections[i].file]

ValueInv ==
    \A g \in Loads, i \in Rules, k \in Keys :
        Shared(i) /\ g \notin edited /\ env[g][i][k] # Injections[i].env[k]
            => HasFile(i) /\ env[g][i][k] = files[Injections[i].file][k]

(* Maps of a configuration that is not yet loaded are as it was written.   *)
FutureInv ==
    \A g \in Loads, i \in Rules, k \in Keys :
        Shared(i) /\ g > load => env[g][i][k] = Injections[i].env[k]

LEMMA FilesStay ==
    ASSUME NEW d \in Requests, FilesInv(d), UNCHANGED Of(d), UNCHANGED <<files, edited>>
    PROVE  FilesInv(d)'
BY DEF FilesInv, Of, HasRead, HasFile

LEMMA FilesOwn ==
    ASSUME TypeInv, NEW d \in Requests, MergeInv(d), FilesInv(d), TakeRules(d) \/ Expand(d)
    PROVE  FilesInv(d)'
<1>1. UNCHANGED <<files, edited>>
  BY DEF Expand, TakeRules, ReadEnvFile, ReadFails, LookUpKey, WriteKey, Merged, Expanded, maps
<1>2. rule[d] \in Nat  BY EnvAssumption DEF TypeInv, EnvTypeOK
<1>3. CASE TakeRules(d)
  <2>1. phase'[d] = "rule" /\ rule'[d] = 1
    BY <1>3 DEF TakeRules, MergeInv, FreshInv, Blank, TypeInv, EnvTypeOK
  <2>2. \A i \in Rules : ~(i < 1)  BY RulesFacts
  <2> QED BY <2>1, <2>2 DEF FilesInv, HasRead
<1>4. CASE ReadEnvFile(d)
  <2> PICK i \in Rules :
        /\ NextWithFile(d, i) /\ files[Injections[i].file] # Bad
        /\ phase' = [phase EXCEPT ![d] = "merge"]
        /\ rule' = [rule EXCEPT ![d] = i]
        /\ seen' = [seen EXCEPT ![d][i] = files[Injections[i].file]]
        /\ UNCHANGED <<maps, uses>>
    BY <1>4 DEF ReadEnvFile
  <2>1. /\ phase'[d] = "merge" /\ rule'[d] = i /\ uses' = uses
        /\ seen'[d][i] = files[Injections[i].file]
        /\ \A j \in Rules : j # i => seen'[d][j] = seen[d][j]
    BY DEF TypeInv, EnvTypeOK
  <2>2. ASSUME NEW j \in Rules, HasFile(j), j < i PROVE HasRead(d, j)
    <3>1. phase[d] = "rule" /\ ~(j >= rule[d])
      BY <2>2, RulesFacts DEF NextWithFile
    <3> QED BY <1>2, <2>2, <3>1, RulesFacts DEF HasRead
  <2>3. phase[d] = "rule"  BY DEF NextWithFile
  <2>4. \A j \in Rules : j < i => j # i  BY RulesFacts
  <2> QED BY <1>1, <2>1, <2>2, <2>3, <2>4 DEF FilesInv, HasRead, HasFile
<1>5. CASE ReadFails(d)
  <2>1. phase'[d] = "ready" /\ ~expanded'[d]
    BY <1>5 DEF ReadFails, NextWithFile, MergeInv, FreshInv, TypeInv, EnvTypeOK
  <2> QED BY <2>1 DEF FilesInv, HasRead
<1>6. ASSUME UNCHANGED <<phase, uses, rule, seen, expanded>> PROVE FilesInv(d)'
  BY <1>1, <1>6 DEF FilesInv, HasRead, HasFile
<1>7. CASE WriteKey(d) \/ \E k \in Keys : LookUpKey(d, k)
  BY <1>6, <1>7 DEF WriteKey, LookUpKey
<1>8. CASE Merged(d)
  <2>1. phase[d] = "merge" /\ phase'[d] = "rule" /\ rule'[d] = rule[d] + 1
        /\ uses' = uses /\ seen' = seen
    BY <1>8 DEF Merged, TypeInv, EnvTypeOK
  <2>2. \A j \in Rules : j < rule[d] + 1 => j < rule[d] \/ j = rule[d]  BY <1>2, RulesFacts
  <2> QED BY <1>1, <2>1, <2>2 DEF FilesInv, HasRead, HasFile
<1>9. CASE Expanded(d)
  <2>1. phase[d] = "rule" /\ phase'[d] = "ready" /\ uses' = uses /\ seen' = seen
    BY <1>9 DEF Expanded, TypeInv, EnvTypeOK
  <2>2. \A j \in Rules : HasFile(j) => j < rule[d]
    BY <1>2, <1>9, RulesFacts DEF Expanded
  <2> QED BY <1>1, <2>1, <2>2 DEF FilesInv, HasRead, HasFile
<1> QED BY <1>3, <1>4, <1>5, <1>7, <1>8, <1>9 DEF Expand

LEMMA FilesStep ==
    ASSUME TypeInv, [EnvNext]_envVars, NEW d \in Requests, MergeInv(d), FilesInv(d)
    PROVE  FilesInv(d)'
<1>1. ASSUME Blank(d)' PROVE FilesInv(d)'  BY <1>1 DEF Blank, FilesInv
<1>2. CASE StartRange(d) \/ EndRange(d)
  BY <1>2, FilesStay DEF StartRange, EndRange, Of, maps
<1>3. CASE Return(d)  BY <1>1, <1>3, ForgottenBlank DEF Return
<1>4. ASSUME NEW r \in Requests, r # d, Act(r) PROVE FilesInv(d)'
  BY <1>4, OthersStay, MapsStay, FilesStay
<1>5. CASE LoadConfig  BY <1>5, FilesStay DEF LoadConfig, locals, Of
<1>6. CASE EditFile
  <2>1. uses[d] \in 0..load
    <3>1. uses[d] \in Nat /\ load \in Nat /\ uses[d] <= load
      BY LoadsFacts DEF TypeInv, ThreadInv, EnvTypeOK
    <3> QED BY <3>1
  <2>2. uses'[d] \in edited'  BY <1>6, <2>1 DEF EditFile, locals
  <2> QED BY <2>2 DEF FilesInv
<1>7. CASE Fault  BY <1>1, <1>7, ForgottenBlank DEF Fault
<1>8. CASE UNCHANGED envVars  BY <1>8, FilesStay DEF envVars, Of
<1> QED BY <1>2, <1>3, <1>4, <1>5, <1>6, <1>7, <1>8, FilesOwn DEF EnvNext, Act

(* What a write puts into a map is what the file says.                     *)
LEMMA WriteValue ==
    ASSUME TypeInv, NEW r \in Requests, MergeInv(r), FilesInv(r), WriteKey(r),
           uses[r] \notin edited
    PROVE  /\ HasFile(rule[r])
           /\ todo[r][key[r]] = files[Injections[rule[r]].file][key[r]]
<1>1. rule[r] \in Rules /\ key[r] \in Keys /\ todo[r][key[r]] # Absent  BY WriteFacts
<1>2. HasFile(rule[r]) /\ phase[r] = "merge"  BY DEF WriteKey, TypeInv, ThreadInv
<1>3. todo[r][key[r]] = seen[r][rule[r]][key[r]]  BY <1>1, <1>2 DEF MergeInv, TodoInv
<1>4. seen[r][rule[r]] = files[Injections[rule[r]].file]
  BY <1>1, <1>2 DEF FilesInv, HasRead
<1> QED BY <1>2, <1>3, <1>4

LEMMA ValueStep ==
    ASSUME TypeInv, ValueInv, FutureInv, [EnvNext]_envVars,
           \A r \in Requests : MergeInv(r) /\ FilesInv(r)
    PROVE  ValueInv'
<1> SUFFICES ASSUME NEW g \in Loads, NEW i \in Rules, NEW k \in Keys,
                    Shared(i), g \notin edited', env'[g][i][k] # Injections[i].env[k]
             PROVE  HasFile(i) /\ env'[g][i][k] = files'[Injections[i].file][k]
  BY DEF ValueInv, Shared, HasFile
<1>1. ASSUME UNCHANGED <<env, files, edited>>
      PROVE  HasFile(i) /\ env'[g][i][k] = files'[Injections[i].file][k]
  BY <1>1 DEF ValueInv
<1>2. ASSUME NEW r \in Requests, Act(r)
      PROVE  HasFile(i) /\ env'[g][i][k] = files'[Injections[i].file][k]
  <2>1. UNCHANGED <<files, edited>>  BY <1>2, MapsStay
  <2>2. CASE env' = env  BY <1>1, <2>1, <2>2
  <2>3. CASE WriteKey(r)
    <3>1. CASE g = uses[r] /\ i = rule[r] /\ k = key[r]
      BY <2>1, <2>3, <3>1, WriteEffect, WriteValue
    <3>2. CASE ~(g = uses[r] /\ i = rule[r] /\ k = key[r])
      BY <2>1, <2>3, <3>2, WriteEffect DEF ValueInv
    <3> QED BY <3>1, <3>2
  <2> QED BY <1>2, <2>2, <2>3, MapsStay
<1>3. CASE LoadConfig \/ Fault  BY <1>1, <1>3 DEF LoadConfig, Fault
<1>4. CASE EditFile
  <2>1. g \notin 0..load /\ env' = env  BY <1>4 DEF EditFile
  <2>2. g \in Nat /\ load \in Nat  BY LoadsFacts DEF TypeInv, EnvTypeOK
  <2>3. g > load  BY <2>1, <2>2
  <2> QED BY <2>1, <2>3 DEF FutureInv
<1>5. CASE UNCHANGED envVars  BY <1>1, <1>5 DEF envVars
<1> QED BY <1>2, <1>3, <1>4, <1>5 DEF EnvNext, Act

LEMMA FutureStep ==
    ASSUME TypeInv, FutureInv, [EnvNext]_envVars
    PROVE  FutureInv'
<1> SUFFICES ASSUME NEW g \in Loads, NEW i \in Rules, NEW k \in Keys, Shared(i), g > load'
             PROVE  env'[g][i][k] = Injections[i].env[k]
  BY DEF FutureInv, Shared
<1>1. g \in Nat /\ load \in Nat  BY LoadsFacts DEF TypeInv, EnvTypeOK
<1>2. ASSUME env' = env, load' = load \/ load' = load + 1
      PROVE  env'[g][i][k] = Injections[i].env[k]
  <2>1. g > load  BY <1>1, <1>2
  <2> QED BY <1>2, <2>1 DEF FutureInv
<1>3. ASSUME NEW r \in Requests, Act(r) PROVE env'[g][i][k] = Injections[i].env[k]
  <2>1. CASE env' = env  BY <1>2, <1>3, <2>1, MapsStay
  <2>2. CASE WriteKey(r)
    <3>1. uses[r] \in Nat /\ uses[r] <= load /\ load' = load
      BY <1>3, LoadsFacts, MapsStay DEF TypeInv, ThreadInv, EnvTypeOK
    <3>2. g # uses[r] /\ g > load  BY <1>1, <3>1
    <3> QED BY <2>2, <3>2, WriteEffect DEF FutureInv
  <2> QED BY <1>3, <2>1, <2>2, MapsStay
<1>4. CASE LoadConfig \/ EditFile \/ Fault  BY <1>2, <1>4 DEF LoadConfig, EditFile, Fault
<1>5. CASE UNCHANGED envVars  BY <1>2, <1>5 DEF envVars
<1> QED BY <1>3, <1>4, <1>5 DEF EnvNext, Act

-----------------------------------------------------------------------------
(* The theorems.                                                           *)

Inv ==
    /\ TypeInv /\ InlineInv /\ ValueInv /\ FutureInv
    /\ \A r \in Requests : KeyInv(r) /\ MergeInv(r) /\ FilesInv(r)

LEMMA InvInit == EnvInit => Inv
<1> SUFFICES ASSUME EnvInit PROVE Inv  OBVIOUS
<1>1. TypeInv  BY TypeInit
<1>2. InlineInv /\ ValueInv /\ FutureInv
  BY DEF EnvInit, InlineInv, ValueInv, FutureInv
<1>3. \A r \in Requests : Blank(r)  BY DEF EnvInit, Blank
<1>4. \A r \in Requests : KeyInv(r) /\ FilesInv(r)  BY <1>3 DEF Blank, KeyInv, FilesInv
<1> QED BY <1>1, <1>2, <1>3, <1>4, BlankMerge DEF Inv

LEMMA InvStep ==
    ASSUME Inv, [EnvNext]_envVars
    PROVE  Inv'
BY TypeStep, InlineStep, KeyStep, MergeStep, FilesStep, ValueStep, FutureStep DEF Inv

LEMMA Invariance == EnvSpec => []Inv
<1>1. Inv /\ [EnvNext]_envVars => Inv'  BY InvStep
<1> QED BY <1>1, InvInit, PTL DEF EnvSpec

LEMMA Documented == Inv => ExpandedAsDocumented
<1> SUFFICES ASSUME Inv, NEW r \in Requests, phase[r] = "ready", NEW i \in Rules
             PROVE  /\ \A k \in Keys : Shared(i) /\ Injections[i].env[k] # Absent
                                       => EnvOf(r, i)[k] = Injections[i].env[k]
                    /\ expanded[r] =>
                         /\ \A k \in Keys : seen[r][i][k] # Absent => EnvOf(r, i)[k] # Absent
                         /\ ~Shared(i) => EnvOf(r, i) = seen[r][i]
  BY DEF ExpandedAsDocumented
<1>1. uses[r] \in Loads /\ seen[r][i] \in Env  BY DEF Inv, TypeInv, EnvTypeOK
<1>2. \A k \in Keys : Shared(i) /\ Injections[i].env[k] # Absent
                        => EnvOf(r, i)[k] = Injections[i].env[k]
  BY <1>1 DEF Inv, InlineInv, EnvOf
<1>3. \A k \in Keys : ~Pending(r, i, k)  BY DEF Pending
<1>4. ASSUME expanded[r], ~Shared(i) PROVE EnvOf(r, i) = seen[r][i]
  <2>1. \A k \in Keys : EnvOf(r, i)[k] = seen[r][i][k]
    BY <1>3, <1>4 DEF Inv, MergeInv, OwnInv, Live
  <2>2. EnvOf(r, i) \in Env  BY EnvOfType DEF Inv
  <2> QED BY <1>1, <2>1, <2>2 DEF Env
<1>5. ASSUME expanded[r], NEW k \in Keys, seen[r][i][k] # Absent PROVE EnvOf(r, i)[k] # Absent
  <2>1. CASE Shared(i)
    BY <1>3, <1>5, <2>1 DEF Inv, MergeInv, PresentInv, Live, EnvOf
  <2>2. CASE ~Shared(i)  BY <1>4, <1>5, <2>2
  <2> QED BY <2>1, <2>2
<1> QED BY <1>2, <1>4, <1>5

LEMMA Settles == Inv => FirstExpansionSettles
<1> SUFFICES ASSUME Inv, NEW r \in Requests, NEW s \in Requests,
                    phase[r] = "ready", expanded[r], uses[r] \notin edited,
                    phase[s] = "merge", uses[s] = uses[r], Shared(rule[s]),
                    NEW k \in Keys, todo[s][k] # Absent
             PROVE  EnvOf(s, rule[s])[k] # Absent
  BY DEF FirstExpansionSettles
<1> DEFINE i == rule[s]
<1>1. i \in Rules /\ HasFile(i)  BY DEF Inv, TypeInv, ThreadInv
<1>2. seen[s][i] = seen[r][i]  BY <1>1 DEF Inv, FilesInv, HasRead
<1>3. seen[r][i][k] # Absent  BY <1>2 DEF Inv, MergeInv, TodoInv
<1>4. env[uses[r]][i][k] # Absent
  BY <1>1, <1>3 DEF Inv, MergeInv, PresentInv, Live, Pending
<1> QED BY <1>4 DEF EnvOf

(* A key of a map that an expanded request uses is written only with the   *)
(* value that it has.                                                      *)
LEMMA Stable ==
    ASSUME Inv, [EnvNext]_envVars, NEW r \in Requests,
           phase[r] = "ready", phase'[r] = "ready", expanded[r], uses[r] \notin edited',
           NEW i \in Rules
    PROVE  EnvOf(r, i)' = EnvOf(r, i)
<1> USE DEF Inv
<1>1. ASSUME UNCHANGED Of(r), env' = env PROVE EnvOf(r, i)' = EnvOf(r, i)
  BY <1>1 DEF Of, EnvOf, Shared
<1>2. CASE Act(r)
  <2>1. ~WriteKey(r) /\ ~TakeRules(r) /\ ~Expand(r)
    BY DEF WriteKey, TakeRules, Expand, ReadEnvFile, ReadFails, NextWithFile, LookUpKey, Merged,
           Expanded
  <2>2. CASE Return(r)  BY <2>2, ForgottenBlank DEF Return, Blank
  <2>3. CASE StartRange(r) \/ EndRange(r)
    BY <1>1, <2>3 DEF StartRange, EndRange, Of, maps
  <2> QED BY <1>2, <2>1, <2>2, <2>3 DEF Act
<1>3. ASSUME NEW s \in Requests, s # r, Act(s) PROVE EnvOf(r, i)' = EnvOf(r, i)
  <2>1. UNCHANGED Of(r) /\ UNCHANGED <<files, edited>>  BY <1>3, OthersStay, MapsStay
  <2>2. CASE env' = env  BY <1>1, <2>1, <2>2
  <2>3. CASE ~Shared(i)  BY <2>1, <2>3 DEF EnvOf, Of, Shared
  <2>4. CASE WriteKey(s) /\ Shared(i)
    <3>1. uses[r] \in Loads  BY DEF TypeInv, EnvTypeOK
    <3>2. ASSUME NEW k \in Keys PROVE env'[uses[r]][i][k] = env[uses[r]][i][k]
      <4>1. CASE ~(uses[r] = uses[s] /\ i = rule[s] /\ k = key[s])
        BY <2>4, <3>1, <4>1, WriteEffect
      <4>2. CASE uses[r] = uses[s] /\ i = rule[s] /\ k = key[s]
        <5>1. HasFile(i) /\ todo[s][k] = files[Injections[i].file][k] /\ todo[s][k] # Absent
          BY <2>1, <2>4, <4>2, WriteValue, WriteFacts
        <5>2. seen[r][i] = files[Injections[i].file]
          BY <2>1, <5>1 DEF FilesInv, HasRead
        <5>3. env[uses[r]][i][k] # Absent
          BY <2>4, <5>1, <5>2 DEF MergeInv, PresentInv, Live, Pending
        <5>4. key[s] # NoKey  BY <2>4 DEF WriteKey
        <5>5. Injections[i].env[k] = Absent  BY <2>4, <4>2, <5>4 DEF KeyInv
        <5>6. env[uses[r]][i][k] = files[Injections[i].file][k]
          BY <2>1, <2>4, <3>1, <5>3, <5>5 DEF ValueInv
        <5> QED BY <2>4, <3>1, <4>2, <5>1, <5>6, WriteEffect
      <4> QED BY <4>1, <4>2
    <3>3. env[uses[r]][i] \in Env /\ env'[uses[r]][i] \in Env
      <4>1. TypeInv'  BY TypeStep
      <4> QED BY <2>4, <3>1, <4>1 DEF TypeInv, EnvTypeOK, MapsInv, Shared
    <3>4. env'[uses[r]][i] = env[uses[r]][i]  BY <3>2, <3>3 DEF Env
    <3>5. uses'[r] = uses[r]  BY <2>1 DEF Of
    <3> QED BY <2>4, <3>4, <3>5 DEF EnvOf, Shared
  <2> QED BY <1>3, <2>2, <2>3, <2>4, MapsStay
<1>4. CASE LoadConfig \/ EditFile
  BY <1>1, <1>4 DEF LoadConfig, EditFile, locals, Of
<1>5. CASE Fault  BY <1>5, ForgottenBlank DEF Fault, Blank
<1>6. CASE UNCHANGED envVars  BY <1>1, <1>6 DEF envVars, Of
<1> QED BY <1>2, <1>3, <1>4, <1>5, <1>6 DEF EnvNext, Act

(* Whatever requests merge at once, an inline entry keeps its value, and   *)
(* an expanded request finds every key of the files it read.               *)
THEOREM ExpansionCorrect == EnvSpec => []ExpandedAsDocumented
BY Invariance, Documented, PTL

(* After one successful expansion of a load nobody writes to its maps      *)
(* until a file changes.                                                   *)
THEOREM SettlingCorrect == EnvSpec => []FirstExpansionSettles
BY Invariance, Settles, PTL

(* The rules of a session stay what they were when it began, whatever is   *)
(* reloaded and whoever expands, as long as no env file changes.           *)
THEOREM SnapshotCorrect == EnvSpec => SnapshotStable
<1>1. ASSUME Inv, [EnvNext]_envVars
      PROVE  [\A r \in Requests :
                 /\ phase[r] = "ready" /\ phase'[r] = "ready" /\ expanded[r]
                 /\ uses[r] \notin edited'
                 => \A i \in Rules : EnvOf(r, i)' = EnvOf(r, i)]_envVars
  BY <1>1, Stable
<1> QED BY <1>1, Invariance, PTL DEF EnvSpec, SnapshotStable

-----------------------------------------------------------------------------
(* An expansion runs down.                                                 *)

ToMerge(r) == {k \in Keys : todo[r][k] # Absent}

(* A step towards the end of an expansion: the next file is read, or there *)
(* is none or it is Bad; a key is found missing, or dealt with; or the     *)
(* file is done with.                                                      *)
ExpandAdvances(r) ==
    \/ /\ phase[r] = "rule"
       /\ phase'[r] = "ready" \/ (phase'[r] = "merge" /\ rule'[r] >= rule[r])
    \/ phase[r] = "merge" /\ phase'[r] = "rule" /\ rule'[r] = rule[r] + 1
    \/ /\ phase[r] = "merge" /\ UNCHANGED <<phase[r], rule[r]>>
       /\ \/ UNCHANGED todo[r] /\ key[r] = NoKey /\ key'[r] \in ToMerge(r)
          \/ key'[r] = NoKey /\ \E k \in ToMerge(r) : ToMerge(r)' = ToMerge(r) \ {k}

(* What a request has still to merge shrinks with its own steps, and no    *)
(* other request, reload or change of a file gives it more to do.          *)
ExpansionShrinks ==
    \A r \in Requests : phase[r] \in {"rule", "merge"} =>
        \/ UNCHANGED <<phase[r], rule[r], todo[r], key[r]>>
        \/ ExpandAdvances(r) \/ phase'[r] = "over"

LEMMA OwnAdvances ==
    ASSUME TypeInv, NEW r \in Requests, Expand(r)
    PROVE  ExpandAdvances(r)
<1> USE DEF TypeInv, EnvTypeOK, ExpandAdvances
<1>1. ASSUME NEW i \in Rules, NextWithFile(r, i),
             phase' = [phase EXCEPT ![r] = "merge"], rule' = [rule EXCEPT ![r] = i]
      PROVE  ExpandAdvances(r)
  BY <1>1 DEF NextWithFile
<1>2. CASE ReadEnvFile(r)  BY <1>1, <1>2 DEF ReadEnvFile
<1>3. CASE ReadFails(r)  BY <1>3 DEF ReadFails, NextWithFile
<1>4. ASSUME NEW k \in Keys, LookUpKey(r, k) PROVE ExpandAdvances(r)
  <2>1. k \in ToMerge(r) /\ phase[r] = "merge" /\ key[r] = NoKey /\ UNCHANGED <<phase, rule>>
    BY <1>4 DEF LookUpKey, ToMerge
  <2>2. CASE key' = [key EXCEPT ![r] = k] /\ UNCHANGED todo  BY <2>1, <2>2
  <2>3. CASE todo' = [todo EXCEPT ![r][k] = Absent] /\ UNCHANGED key
    <3>1. todo[r] \in Env  OBVIOUS
    <3>2. todo'[r] = [todo[r] EXCEPT ![k] = Absent]  BY <2>3
    <3>3. ToMerge(r)' = ToMerge(r) \ {k}  BY <3>1, <3>2 DEF ToMerge, Env
    <3> QED BY <2>1, <2>3, <3>3
  <2> QED BY <1>4, <2>2, <2>3 DEF LookUpKey
<1>5. CASE WriteKey(r)
  <2>1. key[r] \in Keys /\ key[r] \in ToMerge(r)
    BY <1>5 DEF WriteKey, ThreadInv, ToMerge
  <2>2. /\ phase[r] = "merge" /\ UNCHANGED <<phase, rule>>
        /\ todo' = [todo EXCEPT ![r][key[r]] = Absent] /\ key'[r] = NoKey
    BY <1>5 DEF WriteKey
  <2>3. todo[r] \in Env /\ todo'[r] = [todo[r] EXCEPT ![key[r]] = Absent]  BY <2>2
  <2>4. ToMerge(r)' = ToMerge(r) \ {key[r]}  BY <2>3 DEF ToMerge, Env
  <2> QED BY <2>1, <2>2, <2>4
<1>6. CASE Merged(r)  BY <1>6 DEF Merged
<1>7. CASE Expanded(r)  BY <1>7 DEF Expanded
<1> QED BY <1>2, <1>3, <1>4, <1>5, <1>6, <1>7 DEF Expand

LEMMA ShrinksStepOf ==
    ASSUME TypeInv, [EnvNext]_envVars
    PROVE  ExpansionShrinks
<1> SUFFICES ASSUME NEW r \in Requests, phase[r] \in {"rule", "merge"}
             PROVE  \/ UNCHANGED <<phase[r], rule[r], todo[r], key[r]>>
                    \/ ExpandAdvances(r) \/ phase'[r] = "over"
  BY DEF ExpansionShrinks
<1>1. CASE Act(r)
  <2>1. CASE Expand(r)  BY <2>1, OwnAdvances
  <2>2. CASE StartRange(r) \/ EndRange(r)  BY <2>2 DEF StartRange, EndRange
  <2> QED BY <1>1, <2>1, <2>2 DEF Act, TakeRules, Return
<1>2. ASSUME NEW s \in Requests, s # r, Act(s)
      PROVE  UNCHANGED <<phase[r], rule[r], todo[r], key[r]>>
  BY <1>2, OthersStay DEF Of
<1>3. CASE LoadConfig \/ EditFile  BY <1>3 DEF LoadConfig, EditFile, locals
<1>4. CASE Fault  BY <1>4 DEF Fault, Forgotten
<1>5. CASE UNCHANGED envVars  BY <1>5 DEF envVars
<1> QED BY <1>1, <1>2, <1>3, <1>4, <1>5 DEF EnvNext, Act

(* However many requests are merging, an expansion takes no more steps     *)
(* than the rules and the entries of the files it reads ask for: nobody    *)
(* can make another one run on.                                            *)
THEOREM ExpansionRunsDown == EnvSpec => [][ExpansionShrinks]_envVars
<1>1. TypeInv /\ [EnvNext]_envVars => [ExpansionShrinks]_envVars  BY ShrinksStepOf
<1> QED BY <1>1, Invariance, PTL DEF EnvSpec, Inv
=============================================================================
