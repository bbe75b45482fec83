---------------------------- MODULE DeployProofs ----------------------------
(***************************************************************************)
(* Proofs about Deploy, for every set of agents and every bound on edits,  *)
(* clicks and failures: the type invariant, DeployedOnce and               *)
(* KeyMeansPayload.                                                        *)
(***************************************************************************)
EXTENDS Deploy, SequenceTheorems, TLAPS

Dialog    == [id : Nat, fields : FieldValues, agents : SUBSET Agent, key : Nat, config : Nat,
              submitting : BOOLEAN, error : BOOLEAN]
Payloads  == (SUBSET Agent) \X Kinds \X {"enforcing", "permissive", "", "a"}
Working   == {"claimed", "executed", "refused"}
Call      == [n : Nat, from : Nat, key : Nat, config : Nat, payload : Payloads,
              st : {"sent", "ok", "failed"} \cup Working, open : BOOLEAN]
Claimable == [key : Nat, payload : Payloads, st : {"in_progress", "ok", "failed"}]

\* The page, the master and the requests between them keep their types.
ServerTyped == server \in [agents : SUBSET Agent, keys : Seq(Claimable), deployed : Seq(Nat)]
UITyped     == ui \in [agents : SUBSET Agent, selected : SUBSET Agent,
                       dialog : {<<>>} \cup {<<d>> : d \in Dialog}, permissive : BOOLEAN]
CallsTyped  == calls \subseteq Call
LogTyped    == log \in [edits : Nat, submits : Nat, faults : Nat, config : Nat, key : Nat]
TypeOK      == ServerTyped /\ UITyped /\ CallsTyped /\ LogTyped

-----------------------------------------------------------------------------
(* A use of a key: by the dialog that holds it, or by a request that was     *)
(* sent with it.                                                             *)

Use(key, config, payload) == [key |-> key, config |-> config, payload |-> payload]
Asked   == {Use(c.key, c.config, c.payload) : c \in calls}
Offered == IF ui.dialog = <<>> THEN {}
           ELSE {Use(ui.dialog[1].key, ui.dialog[1].config, Payload(ui.dialog[1]))}
Uses    == Asked \cup Offered

\* what the master keeps: which request a key was claimed for
Claims      == {[key |-> server.keys[i].key, payload |-> server.keys[i].payload] :
                  i \in DOMAIN server.keys}
IsClaimed(k) == \E r \in Claims : r.key = k
WasDeployed(g) == \E i \in DOMAIN server.deployed : server.deployed[i] = g

\* A key goes with one configuration, and with one request, at every place
\* that still uses it; both were given out before.
UsesAgree ==
  /\ \A u, w \in Uses : (u.key = w.key \/ u.config = w.config) => u = w
  /\ \A u \in Uses : u.key <= log.key /\ u.config <= log.config

\* What the master knows a key for is what it is used for.
ClaimsAgree ==
  /\ \A u \in Uses : \A r \in Claims : r.key = u.key => r.payload = u.payload
  /\ \A r \in Claims : r.key <= log.key

\* A request the master works on holds its key, alone, and has not deployed
\* anything as long as it has only claimed it.
OneRuns ==
  /\ \A c \in calls : c.st \in Working => IsClaimed(c.key)
  /\ \A c, e \in calls : c.st \in Working /\ e.st \in Working /\ c.key = e.key => c = e
  /\ \A c \in calls : c.st = "claimed" => ~WasDeployed(c.config)

\* What was deployed and can still be submitted has its key claimed.
DeployedWasClaimed ==
  /\ \A u \in Uses : WasDeployed(u.config) => IsClaimed(u.key)
  /\ \A g \in Nat : WasDeployed(g) => g <= log.config

DeployedDistinct ==
  \A i, j \in DOMAIN server.deployed : server.deployed[i] = server.deployed[j] => i = j

IInv ==
  /\ page = "agents"
  /\ TypeOK
  /\ UsesAgree
  /\ ClaimsAgree
  /\ OneRuns
  /\ DeployedWasClaimed
  /\ DeployedDistinct

LEMMA KeyRow ==
  ASSUME ServerTyped, NEW i \in DOMAIN server.keys
  PROVE  server.keys[i] \in Claimable
<1>1. server.keys \in Seq(Claimable)
  BY DEF ServerTyped
<1> QED BY <1>1, LenProperties

LEMMA ClaimTypes ==
  ASSUME ServerTyped
  PROVE  \A r \in Claims : r.key \in Nat
  BY KeyRow DEF Claims, Claimable

LEMMA InitIInv == Init => IInv
<1> SUFFICES ASSUME Init PROVE IInv
  OBVIOUS
<1> USE DEF Init
<1>1. TypeOK
  BY EmptySeq DEF TypeOK, ServerTyped, UITyped, CallsTyped, LogTyped
<1>2. Uses = {} /\ Claims = {} /\ \A g : ~WasDeployed(g)
  BY DEF Uses, Asked, Offered, Claims, WasDeployed
<1>3. UsesAgree /\ ClaimsAgree /\ OneRuns /\ DeployedWasClaimed /\ DeployedDistinct
  BY <1>2 DEF UsesAgree, ClaimsAgree, OneRuns, DeployedWasClaimed, DeployedDistinct
<1> QED BY <1>1, <1>3 DEF IInv

-----------------------------------------------------------------------------
(* What a step may do to uses, claims and deployments                      *)

\* A key that was never given out, for a configuration that is new too.
FreshUse(u) == u.key = log.key + 1 /\ u.config = log.config + 1 /\ log'.key = log.key + 1
               /\ log'.config = log.config + 1

\* Whatever is used afterwards was used before, or has a key and a
\* configuration of its own; the master learns nothing.
LEMMA UsesKept ==
  ASSUME IInv, TypeOK',
         Claims' = Claims, server'.deployed = server.deployed,
         log'.key >= log.key, log'.config >= log.config,
         NEW u, Uses' \subseteq Uses \/ (Uses' \subseteq Uses \cup {u} /\ FreshUse(u))
  PROVE  UsesAgree' /\ ClaimsAgree' /\ DeployedWasClaimed' /\ DeployedDistinct'
<1> USE DEF IInv
<1>1. log.key \in Nat /\ log.config \in Nat /\ log'.key \in Nat /\ log'.config \in Nat
  BY DEF TypeOK, LogTyped
<1>2. \A w \in Uses : w.key <= log.key /\ w.config <= log.config
  BY DEF UsesAgree
<1>3. \A g : WasDeployed(g)' <=> WasDeployed(g)
  BY DEF WasDeployed
<1>4. \A k : IsClaimed(k)' <=> IsClaimed(k)
  BY DEF IsClaimed
<1>5. \A w \in Uses' : w \in Uses \/ (w = u /\ FreshUse(u))
  OBVIOUS
<1>6. \A w \in Uses : w.key \in Int /\ w.config \in Int
  BY DEF Uses, Asked, Offered, Use, TypeOK, UITyped, CallsTyped, Call, Dialog
<1>7. UsesAgree'
  BY <1>1, <1>2, <1>5, <1>6 DEF UsesAgree, FreshUse
<1>8. \A r \in Claims : r.key <= log.key /\ r.key \in Int
  BY ClaimTypes DEF ClaimsAgree, TypeOK
<1>9. ClaimsAgree'
  BY <1>1, <1>5, <1>8 DEF ClaimsAgree, FreshUse
<1>10. \A g \in Nat : WasDeployed(g) => g <= log.config
  BY DEF DeployedWasClaimed
<1>11. DeployedWasClaimed'
  BY <1>1, <1>3, <1>4, <1>5, <1>10 DEF DeployedWasClaimed, FreshUse
<1>12. DeployedDistinct'
  BY DEF DeployedDistinct
<1> QED BY <1>7, <1>9, <1>11, <1>12

\* The requests stay, or their working ones do: nobody new works on a key.
LEMMA CallsKept ==
  ASSUME IInv, Claims' = Claims, server'.deployed = server.deployed,
         \A c \in calls' : c.st \in Working => c \in calls
  PROVE  OneRuns'
  BY DEF IInv, OneRuns, IsClaimed, WasDeployed, Working

-----------------------------------------------------------------------------
(* The page                                                                *)

\* A failure is counted, and nothing else.
LEMMA OneFault ==
  ASSUME LogTyped, log' = [log EXCEPT !.faults = @ + 1]
  PROVE  LogTyped' /\ log'.key = log.key /\ log'.config = log.config
<1>1. log.faults + 1 \in Nat
  BY DEF LogTyped
<1> QED BY <1>1 DEF LogTyped

LEMMA SelectionSteps ==
  ASSUME IInv, (\E a \in Agent : Toggle(a) \/ AgentLeaves(a)) \/ ToggleAllVisible \/ Poll \/ CloseDialog
  PROVE  IInv'
<1>1. /\ UNCHANGED <<page, calls>>
      /\ server'.keys = server.keys /\ server'.deployed = server.deployed
      /\ log'.key = log.key /\ log'.config = log.config
      /\ ui'.dialog = ui.dialog \/ ui'.dialog = <<>>
      /\ TypeOK'
  <2> USE DEF IInv, TypeOK, ServerTyped, UITyped, CallsTyped, LogTyped
  <2>1. CASE \E a \in Agent : Toggle(a)
    <3>1. PICK a \in Agent : a \in ui.agents /\ Toggle(a)
      BY <2>1 DEF Toggle
    <3>2. ui.selected \cup {a} \in SUBSET Agent /\ ui.selected \ {a} \in SUBSET Agent
      OBVIOUS
    <3>3. /\ \/ ui' = [ui EXCEPT !.selected = ui.selected \cup {a}]
             \/ ui' = [ui EXCEPT !.selected = ui.selected \ {a}]
          /\ UNCHANGED <<page, server, calls, log>>
      BY <3>1 DEF Toggle
    <3>4. UITyped' /\ ui'.dialog = ui.dialog
      <4>1. CASE ui' = [ui EXCEPT !.selected = ui.selected \cup {a}]
        BY <3>2, <4>1
      <4>2. CASE ui' = [ui EXCEPT !.selected = ui.selected \ {a}]
        BY <3>2, <4>2
      <4> QED BY <3>3, <4>1, <4>2
    <3>5. ServerTyped' /\ CallsTyped' /\ LogTyped'
      BY <3>3
    <3> HIDE DEF ServerTyped, UITyped, CallsTyped, LogTyped
    <3> QED BY <3>3, <3>4, <3>5
  <2>2. CASE \E a \in Agent : AgentLeaves(a)
    <3>1. PICK a \in Agent : AgentLeaves(a)
      BY <2>2
    <3>2. UNCHANGED <<page, ui, calls>> /\ server' = [server EXCEPT !.agents = @ \ {a}]
      BY <3>1 DEF AgentLeaves
    <3>3. LogTyped' /\ log'.key = log.key /\ log'.config = log.config
      BY <3>1, OneFault DEF AgentLeaves
    <3>4. ServerTyped' /\ server'.keys = server.keys /\ server'.deployed = server.deployed
      BY <3>2
    <3>5. UITyped' /\ CallsTyped'
      BY <3>2
    <3> HIDE DEF ServerTyped, UITyped, CallsTyped, LogTyped
    <3> QED BY <3>2, <3>3, <3>4, <3>5
  <2>3. CASE ToggleAllVisible
    BY <2>3 DEF ToggleAllVisible
  <2>4. CASE Poll
    BY <2>4 DEF Poll
  <2>5. CASE CloseDialog
    BY <2>5 DEF CloseDialog
  <2> QED BY <2>1, <2>2, <2>3, <2>4, <2>5
<1>2. Claims' = Claims /\ Uses' \subseteq Uses
  BY <1>1 DEF Claims, Uses, Asked, Offered
<1>3. log.key \in Nat /\ log.config \in Nat
  BY DEF IInv, TypeOK, LogTyped
<1>4. UsesAgree' /\ ClaimsAgree' /\ DeployedWasClaimed' /\ DeployedDistinct'
  BY <1>1, <1>2, <1>3, UsesKept
<1>5. OneRuns'
  BY <1>1, <1>2, CallsKept
<1> QED BY <1>1, <1>4, <1>5 DEF IInv

\* Fields, configurations and keys are counted.
LEMMA LogCounts ==
  ASSUME LogTyped, NEW a \in Nat, NEW b \in Nat, NEW c \in Nat, NEW n \in Nat,
         log' = [log EXCEPT !.edits = a, !.submits = n, !.key = b, !.config = c]
  PROVE  LogTyped' /\ log'.key = b /\ log'.config = c
  BY DEF LogTyped

LEMMA OneDialog ==
  ASSUME TypeOK, ui.dialog # <<>>
  PROVE  /\ ui.dialog[1] \in Dialog
         /\ ui.dialog = <<ui.dialog[1]>>
  BY DEF TypeOK, UITyped

\* The dialog afterwards: what the page changes in it.
LEMMA DialogBecomes ==
  ASSUME TypeOK, NEW d \in Dialog, ui' \in [agents : SUBSET Agent, selected : SUBSET Agent,
                                            dialog : {<<d>>}, permissive : BOOLEAN]
  PROVE  UITyped' /\ Offered' = {Use(d.key, d.config, Payload(d))}
  BY DEF UITyped, Offered

LEMMA PayloadTyped ==
  ASSUME NEW d \in Dialog
  PROVE  Payload(d) \in Payloads
<1> DEFINE f == d.fields
<1>1. f.kind \in Kinds /\ {f.mode, f.name, f.path} \subseteq {"enforcing", "permissive", "", "a"}
  BY DEF Dialog, FieldValues
<1>2. d.agents \in SUBSET Agent
  BY DEF Dialog
<1> QED BY <1>1, <1>2 DEF Payload, Payloads, Kinds

LEMMA OpenDialogStep ==
  ASSUME IInv, OpenDialog
  PROVE  IInv'
<1> DEFINE d == [id |-> log.edits + 1, fields |-> Fields, agents |-> ui.selected, key |-> log.key + 1,
                 config |-> log.config + 1, submitting |-> FALSE, error |-> FALSE]
<1>1. TypeOK /\ ui' = [ui EXCEPT !.dialog = <<d>>]
  BY DEF IInv, OpenDialog
<1>2. d \in Dialog
  <2>1. log.edits + 1 \in Nat /\ log.key + 1 \in Nat /\ log.config + 1 \in Nat
    BY <1>1 DEF TypeOK, LogTyped
  <2>2. Fields \in FieldValues
    BY DEF Fields, FieldValues, Kinds
  <2>3. ui.selected \in SUBSET Agent
    BY <1>1 DEF TypeOK, UITyped
  <2> QED BY <2>1, <2>2, <2>3 DEF Dialog
<1> HIDE DEF d
<1>3. UITyped' /\ Offered' = {Use(d.key, d.config, Payload(d))}
  <2>1. ui' \in [agents : SUBSET Agent, selected : SUBSET Agent, dialog : {<<d>>}, permissive : BOOLEAN]
    BY <1>1 DEF TypeOK, UITyped
  <2> QED BY <1>1, <1>2, <2>1, DialogBecomes
<1>4. /\ UNCHANGED <<page, server, calls>>
      /\ log'.key = log.key + 1 /\ log'.config = log.config + 1
      /\ LogTyped'
  <2>1. /\ LogTyped /\ log.edits + 1 \in Nat /\ log.key + 1 \in Nat /\ log.config + 1 \in Nat
        /\ log.submits \in Nat
    BY <1>1 DEF TypeOK, LogTyped
  <2>2. log' = [log EXCEPT !.edits = log.edits + 1, !.submits = log.submits,
                           !.key = log.key + 1, !.config = log.config + 1]
    BY <2>1 DEF OpenDialog, LogTyped
  <2>3. LogTyped' /\ log'.key = log.key + 1 /\ log'.config = log.config + 1
    BY <2>1, <2>2, LogCounts
  <2> QED BY <2>3 DEF OpenDialog
<1>5. TypeOK'
  BY <1>1, <1>3, <1>4 DEF TypeOK, ServerTyped, CallsTyped
<1> DEFINE u == Use(d.key, d.config, Payload(d))
<1>6. u.key = log.key + 1 /\ u.config = log.config + 1
  BY DEF d, Use
<1>7. Uses' \subseteq Uses \cup {u} /\ FreshUse(u)
  BY <1>3, <1>4, <1>6 DEF Uses, Asked, FreshUse
<1>8. Claims' = Claims
  BY <1>4 DEF Claims
<1>9. log.key \in Nat /\ log.config \in Nat
  BY <1>1 DEF TypeOK, LogTyped
<1> HIDE DEF u
<1>10. UsesAgree' /\ ClaimsAgree' /\ DeployedWasClaimed' /\ DeployedDistinct'
  BY <1>4, <1>5, <1>7, <1>8, <1>9, UsesKept
<1>11. OneRuns'
  BY <1>4, <1>8, CallsKept
<1> QED BY <1>4, <1>5, <1>10, <1>11 DEF IInv

\* A change of a field takes another key.
LEMMA ChangeFieldStep ==
  ASSUME IInv, NEW f \in FieldValues, ChangeField(f)
  PROVE  IInv'
<1> DEFINE d == ui.dialog[1]
           e == [d EXCEPT !.fields = f, !.key = log.key + 1, !.config = log.config + 1]
<1>1. TypeOK /\ ui.dialog # <<>>
  BY DEF IInv, ChangeField
<1>2. d \in Dialog /\ ui.dialog = <<d>>
  BY <1>1, OneDialog
<1>3. /\ ui' = [ui EXCEPT !.dialog[1].fields = f, !.dialog[1].key = log.key + 1,
                          !.dialog[1].config = log.config + 1]
      /\ log' = [log EXCEPT !.edits = @ + 1, !.key = log.key + 1, !.config = @ + 1]
      /\ UNCHANGED <<page, server, calls>>
  BY DEF ChangeField, NewKey
<1>4. ui'.dialog = <<e>>
  <2> HIDE DEF d
  <2>1. ui'.dialog = [ui.dialog EXCEPT ![1].fields = f, ![1].key = log.key + 1,
                                       ![1].config = log.config + 1]
    BY <1>1, <1>3 DEF TypeOK, UITyped
  <2> QED BY <1>2, <2>1
<1>5. e \in Dialog
  <2>1. log.key + 1 \in Nat /\ log.config + 1 \in Nat
    BY <1>1 DEF TypeOK, LogTyped
  <2> QED BY <1>2, <2>1 DEF Dialog
<1>6. e.key = log.key + 1 /\ e.config = log.config + 1
  BY <1>2 DEF Dialog
<1> HIDE DEF d, e
<1>7. UITyped' /\ Offered' = {Use(e.key, e.config, Payload(e))}
  <2>1. ui' \in [agents : SUBSET Agent, selected : SUBSET Agent, dialog : {<<e>>}, permissive : BOOLEAN]
    BY <1>1, <1>3, <1>4 DEF TypeOK, UITyped
  <2> QED BY <1>1, <1>5, <2>1, DialogBecomes
<1>8. /\ log'.key = log.key + 1 /\ log'.config = log.config + 1
      /\ LogTyped'
  <2>1. /\ LogTyped /\ log.edits + 1 \in Nat /\ log.key + 1 \in Nat /\ log.config + 1 \in Nat
        /\ log.submits \in Nat
    BY <1>1 DEF TypeOK, LogTyped
  <2>2. log' = [log EXCEPT !.edits = log.edits + 1, !.submits = log.submits,
                           !.key = log.key + 1, !.config = log.config + 1]
    BY <1>3, <2>1 DEF LogTyped
  <2> QED BY <2>1, <2>2, LogCounts
<1>9. TypeOK'
  BY <1>1, <1>3, <1>7, <1>8 DEF TypeOK, ServerTyped, CallsTyped
<1> DEFINE u == Use(e.key, e.config, Payload(e))
<1>10. Uses' \subseteq Uses \cup {u} /\ FreshUse(u)
  BY <1>3, <1>6, <1>7, <1>8 DEF Uses, Asked, FreshUse, Use
<1>11. Claims' = Claims
  BY <1>3 DEF Claims
<1>12. log.key \in Nat /\ log.config \in Nat
  BY <1>1 DEF TypeOK, LogTyped
<1> HIDE DEF u
<1>13. UsesAgree' /\ ClaimsAgree' /\ DeployedWasClaimed' /\ DeployedDistinct'
  BY <1>3, <1>8, <1>9, <1>10, <1>11, <1>12, UsesKept
<1>14. OneRuns'
  BY <1>3, <1>11, CallsKept
<1> QED BY <1>3, <1>9, <1>13, <1>14 DEF IInv

\* "Submitting" and the error are no part of a use.
LEMMA FlagsChange ==
  ASSUME TypeOK, ui.dialog # <<>>, NEW a \in BOOLEAN, NEW b \in BOOLEAN,
         ui' = [ui EXCEPT !.dialog[1].submitting = a, !.dialog[1].error = b]
  PROVE  UITyped' /\ Offered' = Offered
<1> DEFINE d == ui.dialog[1]
           e == [d EXCEPT !.submitting = a, !.error = b]
<1>1. d \in Dialog /\ ui.dialog = <<d>>
  BY OneDialog
<1>2. Offered = {Use(d.key, d.config, Payload(d))}
  BY DEF Offered
<1> HIDE DEF d
<1>3. ui'.dialog = <<e>>
  <2>1. ui'.dialog = [ui.dialog EXCEPT ![1].submitting = a, ![1].error = b]
    BY DEF TypeOK, UITyped
  <2> QED BY <1>1, <2>1
<1>4. e \in Dialog /\ e.key = d.key /\ e.config = d.config /\ e.agents = d.agents /\ e.fields = d.fields
  BY <1>1 DEF Dialog
<1> HIDE DEF e
<1>5. ui' \in [agents : SUBSET Agent, selected : SUBSET Agent, dialog : {<<e>>}, permissive : BOOLEAN]
  BY <1>3 DEF TypeOK, UITyped
<1>6. Payload(e) = Payload(d)
  BY <1>4 DEF Payload
<1> QED BY <1>2, <1>4, <1>5, <1>6, DialogBecomes

\* A request is sent.
LEMMA RequestSent ==
  ASSUME TypeOK, NEW from \in Nat, NEW key \in Nat, NEW config \in Nat, NEW payload \in Payloads,
         Sent(from, key, config, payload)
  PROVE  /\ CallsTyped'
         /\ Asked' = Asked \cup {Use(key, config, payload)}
         /\ \A c \in calls' : c.st \in Working => c \in calls
<1> DEFINE c == [n |-> log.submits, from |-> from, key |-> key, config |-> config, payload |-> payload,
                 st |-> "sent", open |-> TRUE]
<1>1. calls' = calls \cup {c}
  BY DEF Sent
<1>2. c \in Call
  BY DEF TypeOK, LogTyped, Call
<1>3. c.st \notin Working /\ c.key = key /\ c.config = config /\ c.payload = payload
  BY DEF Working
<1> HIDE DEF c
<1> QED BY <1>1, <1>2, <1>3 DEF TypeOK, CallsTyped, Asked

\* What is sent is what the dialog holds, under the dialog's key.
LEMMA SubmitStep ==
  ASSUME IInv, Submit
  PROVE  IInv'
<1> DEFINE d == ui.dialog[1]
<1>1. TypeOK /\ ui.dialog # <<>>
  BY DEF IInv, Submit
<1>2. d \in Dialog
  BY <1>1, OneDialog
<1>3. UITyped' /\ Offered' = Offered /\ UNCHANGED <<page, server>>
  BY <1>1, FlagsChange DEF Submit
<1>4. LogTyped' /\ log'.key = log.key /\ log'.config = log.config
  <2>1. /\ LogTyped /\ log.edits \in Nat /\ log.key \in Nat /\ log.config \in Nat
        /\ log.submits + 1 \in Nat
    BY <1>1 DEF TypeOK, LogTyped
  <2>2. log' = [log EXCEPT !.edits = log.edits, !.submits = log.submits + 1,
                           !.key = log.key, !.config = log.config]
    BY <2>1 DEF Submit, LogTyped
  <2> DEFINE n == log.submits + 1
  <2> HIDE DEF n
  <2>3. n \in Nat /\ log' = [log EXCEPT !.edits = log.edits, !.submits = n,
                                      !.key = log.key, !.config = log.config]
    BY <2>1, <2>2 DEF n
  <2> QED BY Zenon, <2>1, <2>3, LogCounts
<1>5. /\ CallsTyped'
      /\ Asked' = Asked \cup {Use(d.key, d.config, Payload(d))}
      /\ \A c \in calls' : c.st \in Working => c \in calls
  <2>1. d.id \in Nat /\ d.key \in Nat /\ d.config \in Nat
    BY <1>2 DEF Dialog
  <2>2. Payload(d) \in Payloads
    BY <1>2, PayloadTyped
  <2>3. Sent(d.id, d.key, d.config, Payload(d))
    BY DEF Submit
  <2> HIDE DEF d
  <2> QED BY <1>1, <2>1, <2>2, <2>3, RequestSent
<1>6. TypeOK'
  BY <1>1, <1>3, <1>4, <1>5 DEF TypeOK, ServerTyped
<1>7. Claims' = Claims /\ Uses' \subseteq Uses
  BY <1>1, <1>3, <1>5 DEF Claims, Uses, Offered
<1>8. UsesAgree' /\ ClaimsAgree' /\ DeployedWasClaimed' /\ DeployedDistinct'
  <2>1. log.key \in Nat /\ log.config \in Nat
    BY <1>1 DEF TypeOK, LogTyped
  <2> QED BY <1>3, <1>4, <1>6, <1>7, <2>1, UsesKept
<1>9. OneRuns'
  BY <1>3, <1>5, <1>7, CallsKept
<1> QED BY <1>3, <1>6, <1>8, <1>9 DEF IInv

\* The button takes a key of its own.
LEMMA SetPermissiveStep ==
  ASSUME IInv, SetPermissive
  PROVE  IInv'
<1> DEFINE p == <<ui.selected, "set_mode", "permissive">>
           u == Use(log.key + 1, log.config + 1, p)
<1>1. TypeOK
  BY DEF IInv
<1>2. /\ log.edits \in Nat /\ log.key + 1 \in Nat /\ log.config + 1 \in Nat
      /\ log.submits + 1 \in Nat /\ log.key \in Nat /\ log.config \in Nat
  BY <1>1 DEF TypeOK, LogTyped
<1>3. LogTyped' /\ log'.key = log.key + 1 /\ log'.config = log.config + 1
  <2>1. log' = [log EXCEPT !.edits = log.edits, !.submits = log.submits + 1,
                           !.key = log.key + 1, !.config = log.config + 1]
    BY <1>1 DEF SetPermissive, TypeOK, LogTyped
  <2> QED BY <1>1, <1>2, <2>1, LogCounts DEF TypeOK
<1>4. p \in Payloads
  BY <1>1 DEF TypeOK, UITyped, Payloads, Kinds
<1>5. /\ CallsTyped'
      /\ Asked' = Asked \cup {u}
      /\ \A c \in calls' : c.st \in Working => c \in calls
  <2>1. Sent(0, log.key + 1, log.config + 1, p)
    BY DEF SetPermissive
  <2> HIDE DEF p
  <2> QED BY <1>1, <1>2, <1>4, <2>1, RequestSent
<1>6. UITyped' /\ Offered' = Offered /\ UNCHANGED <<page, server>>
  BY <1>1 DEF SetPermissive, TypeOK, UITyped, Offered
<1>7. TypeOK'
  BY <1>1, <1>3, <1>5, <1>6 DEF TypeOK, ServerTyped
<1>8. Claims' = Claims /\ Uses' \subseteq Uses \cup {u} /\ FreshUse(u)
  BY <1>3, <1>5, <1>6 DEF Claims, Uses, FreshUse, Use
<1> HIDE DEF u
<1>9. UsesAgree' /\ ClaimsAgree' /\ DeployedWasClaimed' /\ DeployedDistinct'
  BY <1>2, <1>3, <1>6, <1>7, <1>8, UsesKept
<1>10. OneRuns'
  BY <1>5, <1>6, <1>8, CallsKept
<1> QED BY <1>6, <1>7, <1>9, <1>10 DEF IInv

-----------------------------------------------------------------------------
(* The master                                                              *)

\* A request goes on to another step under the same key.
GoesOn(c, e) ==
  /\ calls' = (calls \ {c}) \cup {e} /\ e \in Call
  /\ e.key = c.key /\ e.config = c.config /\ e.payload = c.payload

LEMMA StepGoesOn ==
  ASSUME TypeOK, NEW c \in calls, NEW st \in {"sent", "ok", "failed"} \cup Working, Step(c, st)
  PROVE  /\ GoesOn(c, [c EXCEPT !.st = st])
         /\ [c EXCEPT !.st = st].st = st
  BY DEF Step, GoesOn, TypeOK, CallsTyped, Call

LEMMA CallGoesOn ==
  ASSUME TypeOK, NEW c \in calls, NEW e, GoesOn(c, e)
  PROVE  CallsTyped' /\ Asked' \subseteq Asked
  BY DEF TypeOK, CallsTyped, GoesOn, Asked

\* Claim: the key is nobody's yet, so no request with it is at work, and
\* nothing was deployed for it.
LEMMA ClaimStep ==
  ASSUME IInv, NEW c \in calls, Claim(c)
  PROVE  IInv'
<1> DEFINE e == [c EXCEPT !.st = "claimed"]
           r == [key |-> c.key, payload |-> c.payload, st |-> "in_progress"]
           k == [key |-> c.key, payload |-> c.payload]
<1>1. TypeOK /\ c \in Call
  BY DEF IInv, TypeOK, CallsTyped
<1>2. GoesOn(c, e) /\ e.st = "claimed"
  BY <1>1, StepGoesOn DEF Claim, Working
<1>3. CallsTyped' /\ Asked' \subseteq Asked
  BY <1>1, <1>2, CallGoesOn
<1>4. /\ server' = [server EXCEPT !.keys = Append(server.keys, r)]
      /\ UNCHANGED <<page, ui, log>>
  BY DEF Claim
<1>5. server.keys \in Seq(Claimable) /\ r \in Claimable
  BY <1>1 DEF TypeOK, ServerTyped, Call, Claimable
<1>6. /\ server'.keys = Append(server.keys, r) /\ server'.deployed = server.deployed
      /\ ServerTyped'
  BY <1>1, <1>4, <1>5, AppendProperties DEF TypeOK, ServerTyped
<1>7. Claims' = Claims \cup {k}
  <2>1. /\ DOMAIN server'.keys = DOMAIN server.keys \cup {Len(server.keys) + 1}
        /\ \A i \in DOMAIN server.keys : server'.keys[i] = server.keys[i]
        /\ server'.keys[Len(server.keys) + 1] = r
    BY <1>5, <1>6, AppendProperties, LenProperties
  <2> HIDE DEF r, k
  <2>2. r.key = k.key /\ r.payload = k.payload /\ k = [key |-> r.key, payload |-> r.payload]
    BY DEF r, k
  <2> QED BY <2>1, <2>2 DEF Claims
<1>8. TypeOK'
  BY <1>1, <1>3, <1>4, <1>6 DEF TypeOK, UITyped, LogTyped
<1>9. ~IsClaimed(c.key)
  BY DEF Claim, Claimed, IsClaimed, Claims
<1>10. Uses' \subseteq Uses /\ Use(c.key, c.config, c.payload) \in Uses
  BY <1>3, <1>4 DEF Uses, Offered, Asked
<1>11. \A u \in Uses : u.key = c.key => u = Use(c.key, c.config, c.payload)
  BY <1>10 DEF IInv, UsesAgree, Use
<1>12. UsesAgree'
  BY <1>4, <1>10 DEF IInv, UsesAgree
<1>13. ClaimsAgree'
  BY <1>4, <1>7, <1>10, <1>11 DEF IInv, ClaimsAgree, UsesAgree, Use
<1>14. \A g : WasDeployed(g)' <=> WasDeployed(g)
  BY <1>6 DEF WasDeployed
<1>15. \A j : IsClaimed(j)' <=> (IsClaimed(j) \/ j = c.key)
  <2>1. k.key = c.key
    OBVIOUS
  <2> HIDE DEF k
  <2> QED BY <1>7, <2>1 DEF IsClaimed
<1>16. DeployedWasClaimed' /\ DeployedDistinct'
  BY <1>4, <1>6, <1>10, <1>14, <1>15 DEF IInv, DeployedWasClaimed, DeployedDistinct
<1>17. \A b \in calls : b.st \in Working => b.key # c.key
  BY <1>9 DEF IInv, OneRuns
<1>18. ~WasDeployed(c.config)
  BY <1>9, <1>10 DEF IInv, DeployedWasClaimed, Use
<1> HIDE DEF e
<1>19. OneRuns'
  BY <1>2, <1>14, <1>15, <1>17, <1>18 DEF IInv, OneRuns, GoesOn
<1> QED BY <1>4, <1>8, <1>12, <1>13, <1>16, <1>19 DEF IInv

\* A request that does not deploy goes on: it does not start work either.
LEMMA AnsweredGoesOn ==
  ASSUME IInv, NEW c \in calls, NEW e, GoesOn(c, e),
         e.st \in Working => (c.st \in Working /\ e.st # "claimed") \/ e.st = c.st,
         UITyped', Offered' \subseteq Offered, ServerTyped', LogTyped', page' = page,
         Claims' = Claims, server'.deployed = server.deployed,
         log'.key = log.key, log'.config = log.config
  PROVE  IInv'
<1>1. TypeOK /\ CallsTyped' /\ Asked' \subseteq Asked
  BY CallGoesOn DEF IInv
<1>2. TypeOK' /\ Uses' \subseteq Uses
  BY <1>1 DEF TypeOK, Uses
<1>3. log.key \in Nat /\ log.config \in Nat
  BY <1>1 DEF TypeOK, LogTyped
<1>4. UsesAgree' /\ ClaimsAgree' /\ DeployedWasClaimed' /\ DeployedDistinct'
  BY <1>2, <1>3, UsesKept
<1>5. (\A g : WasDeployed(g)' <=> WasDeployed(g)) /\ (\A k : IsClaimed(k)' <=> IsClaimed(k))
  BY DEF WasDeployed, IsClaimed
<1>6. OneRuns'
  <2>1. OneRuns
    BY DEF IInv
  <2>2. \A b \in calls' : b = e \/ (b \in calls /\ b # c)
    BY DEF GoesOn
  <2>3. e.key = c.key /\ e.config = c.config
    BY DEF GoesOn
  <2>4. e.st \in Working => c.st \in Working
    OBVIOUS
  <2>5. e.st = "claimed" => c.st = "claimed"
    BY DEF Working
  <2>6. \A b \in calls' : b.st \in Working => IsClaimed(b.key)'
    BY <1>5, <2>1, <2>2, <2>3, <2>4 DEF OneRuns
  <2>7. \A b, d \in calls' : b.st \in Working /\ d.st \in Working /\ b.key = d.key => b = d
    BY <2>1, <2>2, <2>3, <2>4 DEF OneRuns
  <2>8. \A b \in calls' : b.st = "claimed" => ~WasDeployed(b.config)'
    BY <1>5, <2>1, <2>2, <2>3, <2>5 DEF OneRuns
  <2> QED BY <2>6, <2>7, <2>8 DEF OneRuns
<1> QED BY <1>2, <1>4, <1>6 DEF IInv

LEMMA KnownStep ==
  ASSUME IInv, NEW c \in calls, Known(c)
  PROVE  IInv'
<1>1. TypeOK
  BY DEF IInv
<1>2. PICK st \in {"ok", "failed"} : Step(c, st)
  BY DEF Known
<1> DEFINE e == [c EXCEPT !.st = st]
<1>3. GoesOn(c, e) /\ e.st = st
  BY <1>1, <1>2, StepGoesOn
<1>4. UNCHANGED <<page, server, ui, log>>
  BY DEF Known
<1>5. UITyped' /\ Offered' = Offered /\ ServerTyped' /\ LogTyped' /\ Claims' = Claims
  BY <1>1, <1>4 DEF TypeOK, UITyped, Offered, ServerTyped, LogTyped, Claims
<1>6. e.st \notin Working
  BY <1>3 DEF Working
<1> HIDE DEF e
<1> QED BY <1>3, <1>4, <1>5, <1>6, AnsweredGoesOn

LEMMA CannotExecuteStep ==
  ASSUME IInv, NEW c \in calls, CannotExecute(c)
  PROVE  IInv'
<1> DEFINE e == [c EXCEPT !.st = "refused"]
<1>1. TypeOK
  BY DEF IInv
<1>2. GoesOn(c, e) /\ e.st = "refused"
  BY <1>1, StepGoesOn DEF CannotExecute, Working
<1>3. UNCHANGED <<page, server, ui>> /\ log' = [log EXCEPT !.faults = @ + 1]
  BY DEF CannotExecute
<1>4. LogTyped' /\ log'.key = log.key /\ log'.config = log.config
  BY <1>1, <1>3, OneFault DEF TypeOK
<1>5. UITyped' /\ Offered' = Offered /\ ServerTyped' /\ Claims' = Claims
  BY <1>1, <1>3 DEF TypeOK, UITyped, Offered, ServerTyped, Claims
<1>6. c.st \in Working /\ e.st # "claimed"
  BY <1>2 DEF CannotExecute, Working
<1> HIDE DEF e
<1> QED BY <1>2, <1>3, <1>4, <1>5, <1>6, AnsweredGoesOn

\* The outcome is written to the key's rows: what they are for stays.
LEMMA OutcomeKept ==
  ASSUME TypeOK, NEW k, NEW st \in {"ok", "failed"},
         server' = [server EXCEPT !.keys =
                      [i \in DOMAIN @ |-> IF @[i].key = k THEN [@[i] EXCEPT !.st = st] ELSE @[i]]]
  PROVE  ServerTyped' /\ Claims' = Claims /\ server'.deployed = server.deployed
<1> DEFINE ks == server.keys
           f  == [i \in DOMAIN ks |-> IF ks[i].key = k THEN [ks[i] EXCEPT !.st = st] ELSE ks[i]]
<1>1. ks \in Seq(Claimable) /\ ServerTyped
  BY DEF TypeOK, ServerTyped
<1>2. \A i \in DOMAIN ks : ks[i] \in Claimable
  BY <1>1, KeyRow
<1>3. /\ server'.keys = f /\ server'.deployed = server.deployed /\ server'.agents = server.agents
      /\ server' = [server EXCEPT !.keys = f]
  BY <1>1 DEF ServerTyped
<1>4. DOMAIN ks = 1..Len(ks) /\ Len(ks) \in Nat
  BY <1>1, LenProperties
<1> HIDE DEF ks
<1>5. \A i \in DOMAIN ks : f[i] \in Claimable /\ f[i].key = ks[i].key /\ f[i].payload = ks[i].payload
  BY <1>2 DEF Claimable
<1>6. DOMAIN f = DOMAIN ks
  OBVIOUS
<1> HIDE DEF f
<1>7. f \in Seq(Claimable)
  <2>1. f \in [1..Len(ks) -> Claimable]
    BY <1>4, <1>5, <1>6 DEF f
  <2> QED BY <1>4, <2>1, SeqDef
<1>8. ServerTyped'
  BY <1>1, <1>3, <1>7 DEF ServerTyped
<1>9. Claims' = Claims
  <2>1. DOMAIN server'.keys = DOMAIN server.keys
    BY <1>3, <1>6 DEF ks
  <2>2. \A i \in DOMAIN server.keys : /\ server'.keys[i].key = server.keys[i].key
                                      /\ server'.keys[i].payload = server.keys[i].payload
    BY <1>3, <1>5 DEF ks
  <2> QED BY <2>1, <2>2 DEF Claims
<1> QED BY <1>3, <1>8, <1>9

LEMMA KeepOutcomeStep ==
  ASSUME IInv, NEW c \in calls, KeepOutcome(c)
  PROVE  IInv'
<1> DEFINE st == IF c.st = "executed" THEN "ok" ELSE "failed"
           e  == [c EXCEPT !.st = st]
<1>1. TypeOK /\ st \in {"ok", "failed"}
  BY DEF IInv
<1>2. GoesOn(c, e) /\ e.st \notin Working
  <2>1. Step(c, st)
    BY DEF KeepOutcome
  <2> HIDE DEF st
  <2>2. GoesOn(c, e) /\ e.st = st
    BY <1>1, <2>1, StepGoesOn
  <2> QED BY <1>1, <2>2 DEF Working
<1>3. UNCHANGED <<page, ui>>
  BY DEF KeepOutcome
<1>4. UITyped' /\ Offered' = Offered
  BY <1>1, <1>3 DEF TypeOK, UITyped, Offered
<1>5. /\ ServerTyped' /\ LogTyped' /\ Claims' = Claims /\ server'.deployed = server.deployed
      /\ log'.key = log.key /\ log'.config = log.config
  <2>1. CASE UNCHANGED server
    <3>1. UNCHANGED log \/ log' = [log EXCEPT !.faults = @ + 1]
      BY <2>1 DEF KeepOutcome
    <3>2. LogTyped' /\ log'.key = log.key /\ log'.config = log.config
      BY <1>1, <3>1, OneFault DEF TypeOK, LogTyped
    <3> QED BY <1>1, <2>1, <3>2 DEF TypeOK, ServerTyped, Claims
  <2>2. CASE server' # server
    <3>1. UNCHANGED log /\ server' = [server EXCEPT !.keys =
            [i \in DOMAIN @ |-> IF @[i].key = c.key THEN [@[i] EXCEPT !.st = st] ELSE @[i]]]
      BY <2>2 DEF KeepOutcome
    <3> HIDE DEF st
    <3>2. ServerTyped' /\ Claims' = Claims /\ server'.deployed = server.deployed
      BY <1>1, <3>1, OutcomeKept
    <3> QED BY <1>1, <3>1, <3>2 DEF TypeOK, LogTyped
  <2> QED BY <2>1, <2>2
<1> HIDE DEF e, st
<1> QED BY <1>2, <1>3, <1>4, <1>5, AnsweredGoesOn

\* The one request at work on a key that has only claimed it deploys.
LEMMA ExecuteStep ==
  ASSUME IInv, NEW c \in calls, Execute(c)
  PROVE  IInv'
<1> DEFINE e == [c EXCEPT !.st = "executed"]
           u == Use(c.key, c.config, c.payload)
<1>1. TypeOK /\ c \in Call
  BY DEF IInv, TypeOK, CallsTyped
<1>2. GoesOn(c, e) /\ e.st = "executed" /\ c.st = "claimed"
  BY <1>1, StepGoesOn DEF Execute, Working
<1>3. CallsTyped' /\ Asked' \subseteq Asked
  BY <1>1, <1>2, CallGoesOn
<1>4. server' = [server EXCEPT !.deployed = Append(server.deployed, c.config)] /\ UNCHANGED <<page, ui, log>>
  BY DEF Execute
<1>5. server.deployed \in Seq(Nat) /\ c.config \in Nat
  BY <1>1 DEF TypeOK, ServerTyped, Call
<1>6. server'.deployed = Append(server.deployed, c.config) /\ server'.keys = server.keys /\ ServerTyped'
  BY <1>1, <1>4, <1>5, AppendProperties DEF TypeOK, ServerTyped
<1>7. TypeOK'
  BY <1>1, <1>3, <1>4, <1>6 DEF TypeOK, UITyped, LogTyped
<1>8. /\ DOMAIN server'.deployed = DOMAIN server.deployed \cup {Len(server.deployed) + 1}
      /\ \A i \in DOMAIN server.deployed : server'.deployed[i] = server.deployed[i]
      /\ server'.deployed[Len(server.deployed) + 1] = c.config
  BY <1>5, <1>6, AppendProperties, LenProperties
<1>9. \A g : WasDeployed(g)' <=> (WasDeployed(g) \/ g = c.config)
  BY <1>8 DEF WasDeployed
<1>10. Claims' = Claims /\ \A k : IsClaimed(k)' <=> IsClaimed(k)
  BY <1>6 DEF Claims, IsClaimed
<1>11. Uses' \subseteq Uses /\ u \in Uses
  BY <1>3, <1>4 DEF Uses, Offered, Asked
<1>12. \A w \in Uses : w.config = c.config => w = u
  BY <1>11 DEF IInv, UsesAgree, Use
<1>13. UsesAgree' /\ ClaimsAgree'
  BY <1>4, <1>10, <1>11 DEF IInv, UsesAgree, ClaimsAgree
<1>14. IsClaimed(c.key) /\ ~WasDeployed(c.config) /\ c.config <= log.config
  BY <1>2, <1>11 DEF IInv, OneRuns, UsesAgree, Use, Working
<1>15. DeployedWasClaimed'
  <2>1. u.key = c.key
    BY DEF Use
  <2> HIDE DEF u
  <2> QED BY <1>4, <1>9, <1>10, <1>11, <1>12, <1>14, <2>1 DEF IInv, DeployedWasClaimed
<1>16. DeployedDistinct'
  BY <1>8, <1>14 DEF IInv, DeployedDistinct, WasDeployed
<1> HIDE DEF e
<1>17. OneRuns'
  <2>1. OneRuns
    BY DEF IInv
  <2>2. \A b \in calls' : b = e \/ (b \in calls /\ b # c)
    BY <1>2 DEF GoesOn
  <2>3. e.key = c.key /\ e.config = c.config /\ c.st \in Working
    BY <1>2 DEF GoesOn, Working
  <2>4. \A b \in calls' : b.st \in Working => IsClaimed(b.key)'
    BY <1>10, <2>1, <2>2, <2>3 DEF OneRuns
  <2>5. \A b, d \in calls' : b.st \in Working /\ d.st \in Working /\ b.key = d.key => b = d
    BY <2>1, <2>2, <2>3 DEF OneRuns
  <2>6. \A b \in calls : b.config = c.config => b.key = c.key
    <3> SUFFICES ASSUME NEW b \in calls, b.config = c.config PROVE b.key = c.key
      OBVIOUS
    <3>1. Use(b.key, b.config, b.payload) \in Uses
      BY DEF Uses, Asked
    <3> QED BY <1>12, <3>1 DEF Use
  <2>7. \A b \in calls' : b.st = "claimed" => b.config # c.config
    BY <1>2, <2>1, <2>2, <2>3, <2>6 DEF OneRuns, Working
  <2>8. \A b \in calls' : b.st = "claimed" => ~WasDeployed(b.config)'
    BY <1>2, <1>9, <2>1, <2>2, <2>7 DEF OneRuns
  <2> QED BY <2>4, <2>5, <2>8 DEF OneRuns
<1> QED BY <1>4, <1>7, <1>13, <1>15, <1>16, <1>17 DEF IInv

\* After a crash nothing is at work; the keys stay claimed.
LEMMA CrashStep ==
  ASSUME IInv, Crash
  PROVE  IInv'
<1>1. TypeOK
  BY DEF IInv
<1>2. /\ calls' = {IF c.st \in Working THEN [c EXCEPT !.st = "failed"] ELSE c : c \in calls}
      /\ UNCHANGED <<page, server, ui>> /\ log' = [log EXCEPT !.faults = @ + 1]
  BY DEF Crash, Working
<1>3. \A e \in calls' : \E c \in calls :
        /\ e \in Call /\ e.st \notin Working
        /\ e.key = c.key /\ e.config = c.config /\ e.payload = c.payload
  BY <1>1, <1>2 DEF TypeOK, CallsTyped, Call, Working
<1>4. LogTyped' /\ log'.key = log.key /\ log'.config = log.config
  BY <1>1, <1>2, OneFault DEF TypeOK
<1>5. TypeOK'
  BY <1>1, <1>2, <1>3, <1>4 DEF TypeOK, CallsTyped, ServerTyped, UITyped
<1>6. Asked' \subseteq Asked
  BY <1>3 DEF Asked
<1>7. Uses' \subseteq Uses /\ Claims' = Claims
  BY <1>2, <1>6 DEF Uses, Offered, Claims
<1>8. UsesAgree' /\ ClaimsAgree' /\ DeployedWasClaimed' /\ DeployedDistinct'
  <2>1. log.key \in Nat /\ log.config \in Nat
    BY <1>1 DEF TypeOK, LogTyped
  <2> QED BY <1>2, <1>4, <1>5, <1>7, <2>1, UsesKept
<1>9. OneRuns'
  BY <1>2, <1>3, <1>7, CallsKept
<1> QED BY <1>2, <1>5, <1>8, <1>9 DEF IInv

-----------------------------------------------------------------------------
(* Answers                                                                 *)

LEMMA ShownKeeps ==
  ASSUME TypeOK, NEW c, NEW ok \in BOOLEAN, ui' = Shown(c, ok)
  PROVE  UITyped' /\ Offered' \subseteq Offered
<1>1. CASE c.from = 0
  BY <1>1 DEF Shown, TypeOK, UITyped, Offered
<1>2. CASE c.from # 0 /\ ok
  BY <1>2 DEF Shown, TypeOK, UITyped, Offered
<1>3. CASE c.from # 0 /\ ~ok /\ ui.dialog # <<>> /\ ui.dialog[1].id = c.from
  <2>1. ui' = [ui EXCEPT !.dialog[1].submitting = FALSE, !.dialog[1].error = TRUE]
    BY <1>3 DEF Shown
  <2> QED BY <1>3, <2>1, FlagsChange
<1>4. CASE c.from # 0 /\ ~ok /\ ~(ui.dialog # <<>> /\ ui.dialog[1].id = c.from)
  BY <1>4 DEF Shown, TypeOK, UITyped, Offered
<1> QED BY <1>1, <1>2, <1>3, <1>4

LEMMA AnsweredStep ==
  ASSUME IInv, NEW c \in calls, Answered(c)
  PROVE  IInv'
<1>1. TypeOK
  BY DEF IInv
<1>2. UITyped' /\ Offered' \subseteq Offered
  <2>1. CASE c.open
    <3>1. ui' = Shown(c, c.st = "ok") /\ (c.st = "ok") \in BOOLEAN
      BY <2>1 DEF Answered
    <3> QED BY <1>1, <3>1, ShownKeeps
  <2>2. CASE ~c.open
    BY <1>1, <2>2 DEF Answered, TypeOK, UITyped, Offered
  <2> QED BY <2>1, <2>2
<1>3. calls' \subseteq calls /\ UNCHANGED <<page, server, log>>
  BY DEF Answered
<1>4. TypeOK'
  BY <1>1, <1>2, <1>3 DEF TypeOK, CallsTyped, ServerTyped, LogTyped
<1>5. Uses' \subseteq Uses /\ Claims' = Claims
  BY <1>2, <1>3 DEF Uses, Asked, Claims
<1>6. UsesAgree' /\ ClaimsAgree' /\ DeployedWasClaimed' /\ DeployedDistinct'
  <2>1. log.key \in Nat /\ log.config \in Nat
    BY <1>1 DEF TypeOK, LogTyped
  <2> QED BY <1>3, <1>4, <1>5, <2>1, UsesKept
<1>7. OneRuns'
  BY <1>3, <1>5, CallsKept
<1> QED BY <1>3, <1>4, <1>6, <1>7 DEF IInv

\* The browser gives up, the master goes on.
LEMMA GivesUpStep ==
  ASSUME IInv, NEW c \in calls, GivesUp(c)
  PROVE  IInv'
<1> DEFINE e == [c EXCEPT !.open = FALSE]
<1>1. TypeOK /\ c \in Call
  BY DEF IInv, TypeOK, CallsTyped
<1>2. GoesOn(c, e) /\ e.st = c.st
  BY <1>1 DEF GivesUp, GoesOn, Call
<1>3. UITyped' /\ Offered' \subseteq Offered
  BY <1>1, ShownKeeps DEF GivesUp
<1>4. UNCHANGED <<page, server>> /\ log' = [log EXCEPT !.faults = @ + 1]
  BY DEF GivesUp
<1>5. LogTyped' /\ log'.key = log.key /\ log'.config = log.config
  BY <1>1, <1>4, OneFault DEF TypeOK
<1>6. ServerTyped' /\ Claims' = Claims
  BY <1>1, <1>4 DEF TypeOK, ServerTyped, Claims
<1> HIDE DEF e
<1> QED BY <1>2, <1>3, <1>4, <1>5, <1>6, AnsweredGoesOn

LEMMA NextIInv == IInv /\ [Next]_vars => IInv'
<1> SUFFICES ASSUME IInv, [Next]_vars PROVE IInv'
  OBVIOUS
<1>1. CASE \/ \E a \in Agent : Toggle(a) \/ AgentLeaves(a)
           \/ ToggleAllVisible \/ Poll \/ CloseDialog
  BY <1>1, SelectionSteps
<1>2. CASE OpenDialog
  BY <1>2, OpenDialogStep
<1>3. CASE \E f \in FieldValues : ChangeField(f)
  BY <1>3, ChangeFieldStep
<1>4. CASE Submit \/ SetPermissive
  BY <1>4, SubmitStep, SetPermissiveStep
<1>5. CASE Crash
  BY <1>5, CrashStep
<1>6. CASE \E c \in calls : \/ Claim(c) \/ Known(c) \/ Execute(c) \/ CannotExecute(c)
                            \/ KeepOutcome(c) \/ Answered(c) \/ GivesUp(c)
  BY <1>6, ClaimStep, KnownStep, ExecuteStep, CannotExecuteStep, KeepOutcomeStep, AnsweredStep,
     GivesUpStep
<1>7. CASE UNCHANGED vars
  BY <1>7 DEF vars, IInv, TypeOK, ServerTyped, UITyped, CallsTyped, LogTyped, UsesAgree, Uses,
              Asked, Offered, ClaimsAgree, Claims, OneRuns, IsClaimed, WasDeployed,
              DeployedWasClaimed, DeployedDistinct
<1> QED BY <1>1, <1>2, <1>3, <1>4, <1>5, <1>6, <1>7 DEF Next

-----------------------------------------------------------------------------
(* The theorems                                                            *)

\* Every state the page and the master can reach on the agents page satisfies
\* the inductive invariant: a key goes with one configuration and one request
\* wherever it is used, and one request at a time works under it.
THEOREM InductiveInvariant == Spec => []IInv
  BY InitIInv, NextIInv, PTL DEF Spec

\* The invariants of the page follow from it.
LEMMA IInvImplies == IInv => DeployedOnce /\ KeyMeansPayload
<1> SUFFICES ASSUME IInv PROVE DeployedOnce /\ KeyMeansPayload
  OBVIOUS
<1>1. DeployedOnce
  BY DEF IInv, DeployedDistinct, DeployedOnce
<1>2. KeyMeansPayload
  <2> SUFFICES ASSUME NEW c \in calls, NEW r \in Claimed(c.key)
               PROVE  r.payload = c.payload
    BY DEF KeyMeansPayload
  <2>1. PICK i \in DOMAIN server.keys : r = server.keys[i]
    BY DEF Claimed
  <2>2. r.key = c.key
    BY DEF Claimed
  <2> DEFINE k == [key |-> r.key, payload |-> r.payload]
             u == Use(c.key, c.config, c.payload)
  <2>3. k \in Claims /\ u \in Uses
    BY <2>1 DEF Claims, Uses, Asked
  <2>4. k.key = r.key /\ k.payload = r.payload /\ u.key = c.key /\ u.payload = c.payload
    BY DEF Use
  <2> HIDE DEF k, u
  <2> QED BY <2>2, <2>3, <2>4 DEF IInv, ClaimsAgree
<1> QED BY <1>1, <1>2

=============================================================================
