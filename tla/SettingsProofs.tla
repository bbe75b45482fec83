--------------------------- MODULE SettingsProofs ---------------------------
(***************************************************************************)
(* Proofs about SettingsPage, for every set of integrations, every set of  *)
(* secrets and every bound: the type invariant, SecretKept and             *)
(* SourcesFollow.                                                          *)
(***************************************************************************)
EXTENDS SettingsPage, TLAPS

SecretValues == Secrets \cup {"", "old"}
Setting  == [enabled : BOOLEAN, secret : SecretValues]
FormType == [enabled : BOOLEAN, typed : Secrets \cup {""}, busy : BOOLEAN, saved : BOOLEAN]
UIType   == [loaded : BOOLEAN, form : [Integration -> FormType], error : BOOLEAN]
Of       == Integration \cup {CHOOSE i \in Integration : TRUE}
Call     == [kind : {"get", "reread", "test", "save"}, i : Of,
             st : {"sent", "resolved", "stored", "half read", "read", "ok", "failed"},
             enabled : BOOLEAN, secret : SecretValues, seen : SUBSET Integration]

\* The page, the master and the requests between them keep their types.
ServerTyped == server \in [stored : [Integration -> Setting], sources : SUBSET Integration]
UITyped     == ui \in UIType
CallsTyped  == calls \subseteq Call
LogTyped    == log \in [moves : Nat, faults : Nat, typed : SUBSET (Integration \X Secrets),
                        unread : SUBSET Of, stale : SUBSET Of, outdated : BOOLEAN]
TypeOK      == ServerTyped /\ UITyped /\ CallsTyped /\ LogTyped

\* An integration has one request at a time, and its form is busy meanwhile.
Asks(c) == c.kind \in {"test", "save", "reread"}
OneEach ==
  /\ \A c, d \in calls : Asks(c) /\ Asks(d) /\ c.i = d.i => c = d
  /\ \A c \in calls : Asks(c) => c.i \in Integration /\ ui.form[c.i].busy

\* What a field holds, and what is sent of it, was typed there or is empty.
TypedKnown ==
  /\ \A i \in Integration : ui.form[i].typed = "" \/ <<i, ui.form[i].typed>> \in log.typed
  /\ \A c \in calls : c.kind = "save" /\ c.st = "sent" =>
       c.secret = "" \/ <<c.i, c.secret>> \in log.typed

\* A save about to store has the secret that is stored, or one typed, unless the
\* stored one could not be read.
CarriedKnown ==
  \A c \in calls : c.kind = "save" /\ c.st = "resolved" =>
    \/ c.i \in log.unread /\ c.secret = ""
    \/ c.secret = server.stored[c.i].secret
    \/ <<c.i, c.secret>> \in log.typed

\* A save between storing and replacing the connectors.
Rebuilding(c) == c.kind = "save" /\ c.st \in {"stored", "half read", "read"}

\* The connectors are those enabled but for a save that is replacing them, and
\* what a save has read is what is stored, but for what was stored since.
SourcesKnown ==
  /\ ~log.outdated /\ (\A c \in calls : ~Rebuilding(c)) => server.sources = Enabled(Stored)
  /\ \A c \in calls : Rebuilding(c) /\ c.i \notin log.stale =>
       /\ c.st = "half read" => c.seen = Enabled(Stored) \cap {"siem"}
       /\ c.st = "read" => c.seen = Enabled(Stored)

IInv ==
  /\ page = "settings"
  /\ TypeOK
  /\ OneEach
  /\ TypedKnown
  /\ CarriedKnown
  /\ SourcesKnown

LEMMA InitIInv == Init => IInv
<1> SUFFICES ASSUME Init PROVE IInv
  OBVIOUS
<1> DEFINE first == CHOOSE i \in Integration : TRUE
           c == Req("get", first, FALSE, "")
<1>1. PICK enabled \in SUBSET Integration :
        server = [stored |-> [i \in Integration |-> [enabled |-> i \in enabled, secret |-> "old"]],
                  sources |-> enabled]
  BY DEF Init
<1>2. ServerTyped
  BY <1>1 DEF ServerTyped, Setting, SecretValues
<1>3. UITyped /\ LogTyped
  BY DEF Init, UITyped, UIType, LogTyped, FormType, Form
<1>4. calls = {c} /\ c.kind = "get"
  BY DEF Init, Req
<1>5. c \in Call
  <2>1. first \in Of
    BY DEF Of
  <2> HIDE DEF first
  <2> QED BY <2>1 DEF Req, Call, SecretValues
<1> HIDE DEF c
<1>6. TypeOK
  BY <1>2, <1>3, <1>4, <1>5 DEF TypeOK, CallsTyped
<1>7. OneEach /\ CarriedKnown
  BY <1>4 DEF OneEach, Asks, CarriedKnown
<1>8. TypedKnown
  BY <1>4 DEF TypedKnown, Init, Form
<1>9. Enabled(Stored) = enabled
  BY <1>1 DEF Enabled, Stored
<1>10. SourcesKnown
  BY <1>1, <1>4, <1>9 DEF SourcesKnown, Rebuilding
<1> QED BY <1>6, <1>7, <1>8, <1>10 DEF IInv, Init

-----------------------------------------------------------------------------
(* What steps have in common                                               *)

\* The operator's moves and the failures are counted.
LEMMA OneMore ==
  ASSUME LogTyped
  PROVE  log.moves + 1 \in Nat /\ log.faults + 1 \in Nat /\ log.faults + 1 # 0
  BY DEF LogTyped

\* A request goes on, or is followed by the reading back.
GoesOn(c, e) ==
  /\ calls' = (calls \ {c}) \cup {e} /\ e \in Call
  /\ e.i = c.i /\ (e.kind = c.kind \/ (c.kind = "save" /\ e.kind = "reread"))

LEMMA StepGoesOn ==
  ASSUME TypeOK, NEW c \in calls,
         NEW st \in {"sent", "resolved", "stored", "half read", "read", "ok", "failed"}, Step(c, st)
  PROVE  LET e == [c EXCEPT !.st = st] IN
         /\ GoesOn(c, e)
         /\ e.st = st /\ e.kind = c.kind /\ e.secret = c.secret /\ e.seen = c.seen
  BY DEF Step, GoesOn, TypeOK, CallsTyped, Call

\* Fewer requests, no form less busy for those left.
LEMMA OneEachGoesOn ==
  ASSUME OneEach, NEW c \in calls, NEW e, GoesOn(c, e),
         \A i \in Integration : ui.form[i].busy => ui'.form[i].busy
  PROVE  OneEach'
  BY DEF OneEach, GoesOn, Asks

\* Nothing is stored, typed or replaced, no request goes on: what is known of
\* those that remain stays.
LEMMA KnownStays ==
  ASSUME IInv, calls' \subseteq calls, server' = server, log'.unread = log.unread,
         log'.stale = log.stale, log'.outdated = log.outdated, log.typed \subseteq log'.typed
  PROVE  /\ CarriedKnown'
         /\ \A c \in calls' : c.kind = "save" /\ c.st = "sent" =>
              c.secret = "" \/ <<c.i, c.secret>> \in log'.typed
         /\ (\A c \in calls \ calls' : ~Rebuilding(c)) => SourcesKnown'
  BY DEF IInv, CarriedKnown, TypedKnown, SourcesKnown, Rebuilding, Enabled, Stored
-----------------------------------------------------------------------------
(* The page                                                                *)

LEMMA SetEnabledStep ==
  ASSUME IInv, NEW i \in Integration, SetEnabled(i)
  PROVE  IInv'
<1>1. TypeOK /\ UNCHANGED <<page, server, calls>> /\ ui \in UIType
  BY DEF IInv, SetEnabled, TypeOK, UITyped
<1>2. /\ LogTyped' /\ log'.typed = log.typed
      /\ log'.unread = log.unread /\ log'.stale = log.stale /\ log'.outdated = log.outdated
  BY <1>1, OneMore DEF TypeOK, LogTyped, SetEnabled, Moved
<1>3. /\ UITyped'
      /\ \A j \in Integration : /\ ui'.form[j].busy = ui.form[j].busy
                                /\ ui'.form[j].typed = ui.form[j].typed
  <2> DEFINE f == [ui.form[i] EXCEPT !.enabled = ~@]
             g == [ui.form EXCEPT ![i] = f]
  <2>1. f \in FormType /\ f.busy = ui.form[i].busy /\ f.typed = ui.form[i].typed
    BY <1>1 DEF UIType, FormType
  <2>2. ui' = [ui EXCEPT !.form = g]
    BY DEF SetEnabled
  <2> HIDE DEF f
  <2>3. g \in [Integration -> FormType] /\ g[i] = f /\ \A j \in Integration \ {i} : g[j] = ui.form[j]
    BY <1>1, <2>1 DEF UIType
  <2> HIDE DEF g
  <2> QED BY <1>1, <2>1, <2>2, <2>3 DEF UITyped, UIType
<1>4. TypeOK'
  BY <1>1, <1>2, <1>3 DEF TypeOK, ServerTyped, CallsTyped
<1>5. OneEach'
  BY <1>1, <1>3 DEF IInv, OneEach
<1>6. CarriedKnown' /\ SourcesKnown'
  BY <1>1, <1>2, KnownStays
<1>7. TypedKnown'
  <2>1. \A j \in Integration : ui.form[j].typed = "" \/ <<j, ui.form[j].typed>> \in log.typed
    BY DEF IInv, TypedKnown
  <2>2. ASSUME NEW j \in Integration
        PROVE  ui'.form[j].typed = "" \/ <<j, ui'.form[j].typed>> \in log'.typed
    <3>1. ui'.form[j].typed = ui.form[j].typed /\ log'.typed = log.typed
      BY <1>2, <1>3
    <3> QED BY <2>1, <3>1
  <2> QED BY <1>1, <1>2, <2>2 DEF IInv, TypedKnown
<1> QED BY <1>1, <1>4, <1>5, <1>6, <1>7 DEF IInv

LEMMA TypeSecretStep ==
  ASSUME IInv, NEW i \in Integration, NEW s \in Secrets, TypeSecret(i, s)
  PROVE  IInv'
<1>1. TypeOK /\ UNCHANGED <<page, server, calls>> /\ ui \in UIType
  BY DEF IInv, TypeSecret, TypeOK, UITyped
<1>2. /\ LogTyped' /\ log'.typed = log.typed \cup ({<<i, s>>} \ {<<i, "">>})
      /\ log'.unread = log.unread /\ log'.stale = log.stale /\ log'.outdated = log.outdated
  <2> DEFINE t == log.typed \cup ({<<i, s>>} \ {<<i, "">>})
  <2>1. LogTyped /\ log.moves + 1 \in Nat /\ t \in SUBSET (Integration \X Secrets)
    <3>1. LogTyped /\ log.moves + 1 \in Nat
      BY <1>1, OneMore DEF TypeOK, LogTyped
    <3>2. <<i, s>> \in Integration \X Secrets /\ log.typed \in SUBSET (Integration \X Secrets)
      BY <3>1 DEF LogTyped
    <3> QED BY <3>1, <3>2
  <2>2. log' = [log EXCEPT !.moves = log.moves + 1, !.typed = t]
    BY <2>1 DEF TypeSecret, Moved, LogTyped
  <2> HIDE DEF t
  <2>3. LogTyped' /\ log'.typed = t /\ log'.unread = log.unread /\ log'.stale = log.stale /\ log'.outdated = log.outdated
    BY <2>1, <2>2 DEF LogTyped
  <2> QED BY <2>3 DEF t
<1>3. /\ UITyped' /\ ui'.form[i].typed = s
      /\ \A j \in Integration : ui'.form[j].busy = ui.form[j].busy
      /\ \A j \in Integration \ {i} : ui'.form[j] = ui.form[j]
  <2> DEFINE f == [ui.form[i] EXCEPT !.typed = s]
             g == [ui.form EXCEPT ![i] = f]
  <2>1. f \in FormType /\ f.busy = ui.form[i].busy /\ f.typed = s
    BY <1>1 DEF UIType, FormType
  <2>2. ui' = [ui EXCEPT !.form = g]
    BY DEF TypeSecret
  <2> HIDE DEF f
  <2>3. g \in [Integration -> FormType] /\ g[i] = f /\ \A j \in Integration \ {i} : g[j] = ui.form[j]
    BY <1>1, <2>1 DEF UIType
  <2> HIDE DEF g
  <2> QED BY <1>1, <2>1, <2>2, <2>3 DEF UITyped, UIType
<1>4. \A j \in Integration : ui'.form[j].typed = "" \/ <<j, ui'.form[j].typed>> \in log'.typed
  BY <1>2, <1>3 DEF IInv, TypedKnown
<1>5. TypeOK'
  BY <1>1, <1>2, <1>3 DEF TypeOK, ServerTyped, CallsTyped
<1>6. OneEach'
  BY <1>1, <1>3 DEF IInv, OneEach
<1>7. CarriedKnown' /\ SourcesKnown' /\ TypedKnown'
  BY <1>1, <1>2, <1>4, KnownStays DEF TypedKnown
<1> QED BY <1>1, <1>5, <1>6, <1>7 DEF IInv

\* A press takes the form of its integration until it is answered.
LEMMA PressStep ==
  ASSUME IInv, NEW kind \in {"test", "save"}, NEW i \in Integration, Press(kind, i)
  PROVE  IInv'
<1> DEFINE c == Req(kind, i, ui.form[i].enabled, ui.form[i].typed)
<1>1. TypeOK /\ UNCHANGED <<page, server>> /\ ~ui.form[i].busy /\ calls' = calls \cup {c}
  BY DEF IInv, Press
<1>2. ui.form[i] \in FormType
  BY <1>1 DEF TypeOK, UITyped, UIType
<1>3. c \in Call
  <2>1. ui.form[i].enabled \in BOOLEAN /\ ui.form[i].typed \in SecretValues
    BY <1>2 DEF FormType, SecretValues
  <2> QED BY <2>1 DEF Req, Call, Of
<1>4. c.kind = kind /\ c.i = i /\ c.st = "sent" /\ c.secret = ui.form[i].typed
  BY DEF Req
<1> HIDE DEF c
<1>5. /\ LogTyped' /\ log'.typed = log.typed
      /\ log'.unread = log.unread /\ log'.stale = log.stale /\ log'.outdated = log.outdated
  BY <1>1, OneMore DEF TypeOK, LogTyped, Press, Moved
<1>6. /\ UITyped'
      /\ ui'.form[i].busy
      /\ \A j \in Integration : /\ ui.form[j].busy => ui'.form[j].busy
                                /\ ui'.form[j].typed = ui.form[j].typed
  <2> DEFINE f == [ui.form[i] EXCEPT !.busy = TRUE, !.saved = @ /\ kind = "test"]
             g == [ui.form EXCEPT ![i] = f]
  <2>1. f \in FormType /\ f.busy /\ f.typed = ui.form[i].typed /\ ui \in UIType
    BY <1>1, <1>2 DEF FormType, TypeOK, UITyped
  <2>2. ui' = [ui EXCEPT !.form = g]
    BY <2>1 DEF Press, UIType
  <2> HIDE DEF f
  <2>3. g \in [Integration -> FormType] /\ g[i] = f /\ \A j \in Integration \ {i} : g[j] = ui.form[j]
    BY <2>1 DEF UIType
  <2> HIDE DEF g
  <2> QED BY <2>1, <2>2, <2>3 DEF UITyped, UIType
<1>7. TypeOK'
  BY <1>1, <1>3, <1>5, <1>6 DEF TypeOK, ServerTyped, CallsTyped
<1>8. OneEach'
  BY <1>1, <1>4, <1>6 DEF IInv, OneEach, Asks
<1>9. TypedKnown'
  BY <1>1, <1>4, <1>5, <1>6 DEF IInv, TypedKnown
<1>10. CarriedKnown'
  BY <1>1, <1>4, <1>5 DEF IInv, CarriedKnown
<1>11. SourcesKnown'
  BY <1>1, <1>4, <1>5 DEF IInv, SourcesKnown, Rebuilding, Enabled, Stored
<1> QED BY <1>1, <1>7, <1>8, <1>9, <1>10, <1>11 DEF IInv

-----------------------------------------------------------------------------
(* Answers                                                                 *)

\* What was stored is shown; fields and busy marks stay.
LEMMA LoadStep ==
  ASSUME IInv, NEW c \in calls, SettingsLoad(c)
  PROVE  IInv'
<1>1. TypeOK /\ UNCHANGED <<page, server, log>> /\ calls' = calls \ {c} /\ c.kind = "get"
  BY DEF IInv, SettingsLoad
<1>2. /\ UITyped'
      /\ \A j \in Integration : /\ ui'.form[j].busy = ui.form[j].busy
                                /\ ui'.form[j].typed = ui.form[j].typed
  <2>1. CASE c.st = "failed"
    BY <1>1, <2>1 DEF SettingsLoad, TypeOK, UITyped, UIType
  <2>2. CASE c.st # "failed"
    <3>1. ui' = [ui EXCEPT !.loaded = TRUE, !.error = FALSE,
                           !.form = [i \in Integration |-> [ui.form[i] EXCEPT !.enabled = i \in c.seen]]]
      BY <2>2 DEF SettingsLoad
    <3> DEFINE g == [i \in Integration |-> [ui.form[i] EXCEPT !.enabled = i \in c.seen]]
    <3>2. \A j \in Integration : ui.form[j] \in FormType
      BY <1>1 DEF TypeOK, UITyped, UIType
    <3>3. \A j \in Integration : /\ g[j] \in FormType
                                 /\ g[j].busy = ui.form[j].busy /\ g[j].typed = ui.form[j].typed
      <4> SUFFICES ASSUME NEW j \in Integration
                   PROVE  /\ g[j] \in FormType
                          /\ g[j].busy = ui.form[j].busy /\ g[j].typed = ui.form[j].typed
        OBVIOUS
      <4> DEFINE b == j \in c.seen
      <4>1. b \in BOOLEAN /\ g[j] = [ui.form[j] EXCEPT !.enabled = b] /\ ui.form[j] \in FormType
        BY <3>2
      <4> HIDE DEF b, g
      <4> QED BY <4>1 DEF FormType
    <3>4. g \in [Integration -> FormType]
      BY <3>3
    <3>5. ui' = [ui EXCEPT !.loaded = TRUE, !.error = FALSE, !.form = g]
      BY <3>1
    <3> HIDE DEF g
    <3>6. ui'.form = g /\ UITyped'
      BY <1>1, <3>4, <3>5 DEF TypeOK, UITyped, UIType
    <3> QED BY <3>3, <3>6
  <2> QED BY <2>1, <2>2
<1>3. TypeOK'
  BY <1>1, <1>2 DEF TypeOK, ServerTyped, CallsTyped, LogTyped
<1>4. OneEach'
  BY <1>1, <1>2 DEF IInv, OneEach
<1>5. CarriedKnown' /\ SourcesKnown' /\ TypedKnown'
  BY <1>1, <1>2, KnownStays DEF IInv, TypedKnown, Rebuilding
<1> QED BY <1>1, <1>3, <1>4, <1>5 DEF IInv

\* A form that is freed had this request only.
LEMMA Freed ==
  ASSUME IInv, NEW c \in calls, Asks(c), calls' = calls \ {c}, UNCHANGED <<page, server, log>>,
         ~Rebuilding(c), UITyped',
         \A j \in Integration \ {c.i} : ui'.form[j] = ui.form[j],
         ui'.form[c.i].typed = ui.form[c.i].typed
  PROVE  IInv'
<1>1. TypeOK'
  BY DEF IInv, TypeOK, ServerTyped, CallsTyped, LogTyped
<1>2. OneEach'
  BY DEF IInv, OneEach
<1>3. c.i \in Integration
  BY DEF IInv, OneEach
<1>4. \A j \in Integration : ui'.form[j].typed = ui.form[j].typed
  BY <1>3
<1>5. CarriedKnown' /\ SourcesKnown' /\ TypedKnown'
  BY <1>4, KnownStays DEF IInv, TypedKnown
<1> QED BY <1>1, <1>2, <1>5 DEF IInv

LEMMA TestAnsweredStep ==
  ASSUME IInv, NEW c \in calls, TestAnswered(c)
  PROVE  IInv'
<1>1. TypeOK /\ UNCHANGED <<page, server, log>> /\ calls' = calls \ {c} /\ Asks(c) /\ ~Rebuilding(c)
  BY DEF IInv, TestAnswered, Asks, Rebuilding
<1>2. c.i \in Integration
  BY <1>1 DEF IInv, OneEach
<1>3. /\ UITyped' /\ ui'.form[c.i].typed = ui.form[c.i].typed
      /\ \A j \in Integration \ {c.i} : ui'.form[j] = ui.form[j]
  <2> DEFINE f == [ui.form[c.i] EXCEPT !.busy = FALSE]
             g == [ui.form EXCEPT ![c.i] = f]
  <2>1. ui \in UIType
    BY <1>1 DEF TypeOK, UITyped
  <2>2. f \in FormType /\ f.typed = ui.form[c.i].typed
    <3>1. ui.form[c.i] \in FormType
      BY <1>2, <2>1 DEF UIType
    <3> QED BY <3>1 DEF FormType
  <2>3. ui' = [ui EXCEPT !.form = g]
    BY DEF TestAnswered
  <2> HIDE DEF f
  <2>4. g \in [Integration -> FormType] /\ g[c.i] = f /\ \A j \in Integration \ {c.i} : g[j] = ui.form[j]
    BY <1>2, <2>1, <2>2 DEF UIType
  <2> HIDE DEF g
  <2> QED BY <1>2, <2>1, <2>2, <2>3, <2>4 DEF UITyped, UIType
<1> QED BY <1>1, <1>3, Freed

LEMMA RereadStep ==
  ASSUME IInv, NEW c \in calls, Reread(c)
  PROVE  IInv'
<1>1. TypeOK /\ UNCHANGED <<page, server, log>> /\ calls' = calls \ {c} /\ Asks(c) /\ ~Rebuilding(c)
  BY DEF IInv, Reread, Asks, Rebuilding
<1>2. c.i \in Integration
  BY <1>1 DEF IInv, OneEach
<1>3. /\ UITyped' /\ ui'.form[c.i].typed = ui.form[c.i].typed
      /\ \A j \in Integration \ {c.i} : ui'.form[j] = ui.form[j]
  <2> DEFINE f == [ui.form[c.i] EXCEPT !.busy = FALSE]
             g == [ui.form EXCEPT ![c.i] = f]
             u == [ui EXCEPT !.form[c.i].busy = FALSE]
  <2>1. ui \in UIType
    BY <1>1 DEF TypeOK, UITyped
  <2>2. f \in FormType /\ f.typed = ui.form[c.i].typed
    <3>1. ui.form[c.i] \in FormType
      BY <1>2, <2>1 DEF UIType
    <3> QED BY <3>1 DEF FormType
  <2>3. CASE c.st = "failed"
    <3>1. ui' = [ui EXCEPT !.form = g, !.error = TRUE]
      BY <2>1, <2>3 DEF Reread, UIType
    <3> HIDE DEF f
    <3>2. g \in [Integration -> FormType] /\ g[c.i] = f /\ \A j \in Integration \ {c.i} : g[j] = ui.form[j]
      BY <1>2, <2>1, <2>2 DEF UIType
    <3> HIDE DEF g
    <3> QED BY <1>2, <2>1, <2>2, <3>1, <3>2 DEF UITyped, UIType
  <2>4. CASE c.st # "failed"
    <3> DEFINE b == c.i \in c.seen
               e == [f EXCEPT !.enabled = b]
               v == [e EXCEPT !.saved = TRUE]
               h == [u.form EXCEPT ![c.i] = e]
               k == [h EXCEPT ![c.i] = v]
    <3>1. b \in BOOLEAN
      OBVIOUS
    <3>2. ui' = [u EXCEPT !.form[c.i].enabled = b, !.form[c.i].saved = TRUE, !.error = FALSE]
      BY <2>4 DEF Reread
    <3>0. u = [ui EXCEPT !.form = g]
      OBVIOUS
    <3> HIDE DEF b, f
    <3>3. e \in FormType /\ e.typed = f.typed
      BY <2>2, <3>1 DEF FormType
    <3>4. g \in [Integration -> FormType] /\ g[c.i] = f /\ \A j \in Integration \ {c.i} : g[j] = ui.form[j]
      BY <1>2, <2>1, <2>2 DEF UIType
    <3> HIDE DEF g, u
    <3>5. u \in UIType /\ u.form = g
      BY <2>1, <3>0, <3>4 DEF UIType
    <3>6. [u.form EXCEPT ![c.i].enabled = b] = h
      BY <1>2, <3>4, <3>5 DEF UIType
    <3>7. ui' = [[u EXCEPT !.form = h] EXCEPT !.form[c.i].saved = TRUE, !.error = FALSE]
      BY <3>2, <3>6
    <3> HIDE DEF e
    <3>8. h \in [Integration -> FormType] /\ h[c.i] = e /\ \A j \in Integration \ {c.i} : h[j] = g[j]
      BY <1>2, <3>3, <3>4, <3>5
    <3>9. v \in FormType /\ v.typed = e.typed
      BY <3>3 DEF FormType
    <3> HIDE DEF h
    <3>10. [h EXCEPT ![c.i].saved = TRUE] = k
      BY <1>2, <3>8
    <3>11. ui' = [u EXCEPT !.form = k, !.error = FALSE]
      BY <3>5, <3>7, <3>10 DEF UIType
    <3> HIDE DEF v
    <3>12. k \in [Integration -> FormType] /\ k[c.i] = v /\ \A j \in Integration \ {c.i} : k[j] = h[j]
      BY <1>2, <3>8, <3>9
    <3> HIDE DEF k
    <3>13. ui' \in UIType /\ ui'.form = k
      BY <3>5, <3>11, <3>12 DEF UIType
    <3> QED BY <1>2, <2>2, <3>3, <3>4, <3>8, <3>9, <3>12, <3>13 DEF UITyped
  <2> QED BY <2>3, <2>4
<1> QED BY <1>1, <1>3, Freed

\* After a save the settings are read again, under the same busy mark.
LEMMA SaveAnsweredStep ==
  ASSUME IInv, NEW c \in calls, SaveAnswered(c)
  PROVE  IInv'
<1>1. /\ TypeOK /\ UNCHANGED <<page, server, log>> /\ Asks(c) /\ ~Rebuilding(c)
      /\ c.kind = "save" /\ c \in Call
  BY DEF IInv, SaveAnswered, Asks, Rebuilding, TypeOK, CallsTyped
<1>2. c.i \in Integration
  BY <1>1 DEF IInv, OneEach
<1>3. CASE c.st # "ok"
  <2>1. calls' = calls \ {c}
    BY <1>3 DEF SaveAnswered
  <2>2. /\ UITyped' /\ ui'.form[c.i].typed = ui.form[c.i].typed
        /\ \A j \in Integration \ {c.i} : ui'.form[j] = ui.form[j]
    <3> DEFINE f == [ui.form[c.i] EXCEPT !.busy = FALSE]
               g == [ui.form EXCEPT ![c.i] = f]
    <3>1. ui \in UIType
      BY <1>1 DEF TypeOK, UITyped
    <3>2. f \in FormType /\ f.typed = ui.form[c.i].typed
      <4>1. ui.form[c.i] \in FormType
        BY <1>2, <3>1 DEF UIType
      <4> QED BY <4>1 DEF FormType
    <3>3. ui' = [ui EXCEPT !.form = g, !.error = TRUE]
      BY <1>3 DEF SaveAnswered
    <3> HIDE DEF f
    <3>4. g \in [Integration -> FormType] /\ g[c.i] = f /\ \A j \in Integration \ {c.i} : g[j] = ui.form[j]
      BY <1>2, <3>1, <3>2 DEF UIType
    <3> HIDE DEF g
    <3> QED BY <1>2, <3>1, <3>2, <3>3, <3>4 DEF UITyped, UIType
  <2> QED BY <1>1, <2>1, <2>2, Freed
<1>4. CASE c.st = "ok"
  <2> DEFINE e == Req("reread", c.i, FALSE, "")
  <2>1. GoesOn(c, e) /\ e.kind = "reread"
    BY <1>1, <1>2, <1>4 DEF SaveAnswered, GoesOn, Req, Call, Of, SecretValues
  <2> HIDE DEF e
  <2>2. ui' = [ui EXCEPT !.form[c.i].typed = ""]
    BY <1>4 DEF SaveAnswered
  <2>3. /\ UITyped' /\ ui'.form[c.i].typed = ""
        /\ \A j \in Integration \ {c.i} : ui'.form[j] = ui.form[j]
        /\ \A j \in Integration : ui'.form[j].busy = ui.form[j].busy
    <3> DEFINE f == [ui.form[c.i] EXCEPT !.typed = ""]
               g == [ui.form EXCEPT ![c.i] = f]
    <3>1. ui \in UIType
      BY <1>1 DEF TypeOK, UITyped
    <3>2. f \in FormType /\ f.typed = "" /\ f.busy = ui.form[c.i].busy
      <4>1. ui.form[c.i] \in FormType
        BY <1>2, <3>1 DEF UIType
      <4> QED BY <4>1 DEF FormType
    <3>3. ui' = [ui EXCEPT !.form = g]
      BY <2>2
    <3> HIDE DEF f
    <3>4. g \in [Integration -> FormType] /\ g[c.i] = f /\ \A j \in Integration \ {c.i} : g[j] = ui.form[j]
      BY <1>2, <3>1, <3>2 DEF UIType
    <3> HIDE DEF g
    <3> QED BY <1>2, <3>1, <3>2, <3>3, <3>4 DEF UITyped, UIType
  <2>4. OneEach'
    BY <2>1, <2>3, OneEachGoesOn DEF IInv
  <2>6. \A d \in calls' : d.kind = "save" => d \in calls /\ d # c
    BY <2>1 DEF GoesOn
  <2>7. TypeOK'
    BY <1>1, <2>1, <2>3 DEF TypeOK, ServerTyped, CallsTyped, LogTyped, GoesOn
  <2>8. TypedKnown' /\ CarriedKnown'
    BY <1>1, <2>3, <2>6 DEF IInv, TypedKnown, CarriedKnown
  <2>9. SourcesKnown'
    <3>1. \A d \in calls : Rebuilding(d) => d \in calls'
      BY <1>1, <2>1 DEF GoesOn
    <3>2. \A d \in calls' : Rebuilding(d) => d \in calls
      BY <2>6 DEF Rebuilding
    <3> QED BY <1>1, <3>1, <3>2 DEF IInv, SourcesKnown, Enabled, Stored
  <2> QED BY <1>1, <2>4, <2>7, <2>8, <2>9 DEF IInv
<1> QED BY <1>3, <1>4
-----------------------------------------------------------------------------
(* The master                                                              *)

\* A request that stores nothing and is not about to goes on, or one that is
\* answered fails.
LEMMA MasterGoesOn ==
  ASSUME IInv, NEW c \in calls, NEW e, GoesOn(c, e),
         page' = page, ui' = ui, LogTyped', log'.typed = log.typed, ServerTyped',
         e.st = "sent" => FALSE
  PROVE  TypeOK' /\ OneEach' /\ TypedKnown'
<1>1. TypeOK
  BY DEF IInv
<1>2. TypeOK'
  BY <1>1 DEF TypeOK, UITyped, CallsTyped, GoesOn
<1>3. OneEach'
  BY OneEachGoesOn DEF IInv
<1>4. \A d \in calls' : d.st = "sent" => d \in calls
  BY DEF GoesOn
<1>5. TypedKnown'
  BY <1>4 DEF IInv, TypedKnown
<1> QED BY <1>2, <1>3, <1>5

LEMMA GetStep ==
  ASSUME IInv, NEW c \in calls, GetIntegrations(c)
  PROVE  IInv'
<1> DEFINE e == [c EXCEPT !.st = "ok", !.seen = Enabled(Stored)]
<1>1. TypeOK /\ UNCHANGED <<page, server, ui, log>> /\ c.kind # "save" /\ c \in Call
  BY DEF IInv, GetIntegrations, TypeOK, CallsTyped
<1>2. GoesOn(c, e) /\ e.st = "ok" /\ e.kind # "save"
  <2>1. Enabled(Stored) \in SUBSET Integration
    BY DEF Enabled
  <2> QED BY <1>1, <2>1 DEF GetIntegrations, GoesOn, Call
<1> HIDE DEF e
<1>3. ServerTyped' /\ LogTyped'
  BY <1>1 DEF TypeOK, ServerTyped, LogTyped
<1>4. TypeOK' /\ OneEach' /\ TypedKnown'
  BY <1>1, <1>2, <1>3, MasterGoesOn
<1>5. \A d : d.kind = "save" => (d \in calls <=> d \in calls')
  BY <1>1, <1>2 DEF GoesOn
<1>6. CarriedKnown'
  BY <1>1, <1>5 DEF IInv, CarriedKnown
<1>7. SourcesKnown'
  BY <1>1, <1>5 DEF IInv, SourcesKnown, Rebuilding, Enabled, Stored
<1> QED BY <1>1, <1>4, <1>6, <1>7 DEF IInv

\* After a failure the request is at its end, or goes on with what the history
\* excuses.
LEMMA FaultStep ==
  ASSUME IInv, NEW c \in calls, NEW e, GoesOn(c, e), e.st # "sent", UNCHANGED <<page, server, ui>>,
         LogTyped', log'.typed = log.typed, log'.stale = log.stale, log.unread \subseteq log'.unread,
         log.outdated \/ Rebuilding(c) => log'.outdated,
         ~Rebuilding(e),
         e.kind = "save" /\ e.st = "resolved" => e.i \in log'.unread /\ e.secret = ""
  PROVE  IInv'
<1>1. ServerTyped'
  BY DEF IInv, TypeOK, ServerTyped
<1>2. TypeOK' /\ OneEach' /\ TypedKnown'
  BY <1>1, MasterGoesOn
<1>3. \A d \in calls' : d = e \/ d \in calls
  BY DEF GoesOn
<1>4. CarriedKnown'
  BY <1>3 DEF IInv, CarriedKnown
<1>5. SourcesKnown'
  <2>1. \A d \in calls : Rebuilding(d) => d \in calls' \/ d = c
    BY DEF GoesOn
  <2> QED BY <1>3, <2>1 DEF IInv, SourcesKnown, Enabled, Stored
<1> QED BY <1>2, <1>4, <1>5 DEF IInv

\* The secret to use: the one sent, or the one stored.
LEMMA ResolveStep ==
  ASSUME IInv, NEW c \in calls, ResolveConfig(c)
  PROVE  IInv'
<1>1. TypeOK /\ c \in Call /\ UNCHANGED <<page, server, ui>> /\ c.kind \in {"save", "test"} /\ c.st = "sent"
  BY DEF IInv, ResolveConfig, TypeOK, CallsTyped
<1> DEFINE lost == IF c.kind = "save" THEN log.unread \cup {c.i} ELSE log.unread
<1>2. CASE /\ log' = [log EXCEPT !.faults = log.faults + 1, !.unread = lost] /\ Step(c, "resolved")
           /\ c.secret = ""
  <2> DEFINE e == [c EXCEPT !.st = "resolved"]
  <2>1. GoesOn(c, e) /\ e.st = "resolved" /\ e.kind = c.kind
    BY <1>1, <1>2, StepGoesOn
  <2>2. e.i = c.i /\ e.secret = ""
    BY <1>1, <1>2, <2>1 DEF GoesOn, Call
  <2>3. LogTyped /\ log.faults + 1 \in Nat /\ lost \in SUBSET Of
    BY <1>1, OneMore DEF TypeOK, LogTyped, Call
  <2>4. log.unread \subseteq lost /\ (c.kind = "save" => c.i \in lost)
    OBVIOUS
  <2> HIDE DEF e, lost
  <2>5. /\ LogTyped' /\ log'.typed = log.typed /\ log'.stale = log.stale /\ log'.unread = lost
        /\ log'.outdated = log.outdated
    BY <1>2, <2>3 DEF LogTyped
  <2> QED BY <1>1, <2>1, <2>2, <2>4, <2>5, FaultStep DEF Rebuilding
<1>3. CASE /\ calls' = (calls \ {c}) \cup {[c EXCEPT !.st = "resolved", !.secret = Carried(c)]}
           /\ UNCHANGED log
  <2> DEFINE e == [c EXCEPT !.st = "resolved", !.secret = Carried(c)]
  <2>1. c.i \in Integration
    BY <1>1 DEF IInv, OneEach, Asks
  <2>2. Carried(c) \in SecretValues
    BY <1>1, <2>1 DEF Carried, Stored, TypeOK, ServerTyped, Setting, Call
  <2>3. /\ GoesOn(c, e) /\ e.st = "resolved" /\ e.kind = c.kind /\ e.i = c.i /\ e.secret = Carried(c)
    BY <1>1, <1>3, <2>2 DEF GoesOn, Call
  <2> HIDE DEF e
  <2>4. ServerTyped' /\ LogTyped'
    BY <1>1, <1>3 DEF TypeOK, ServerTyped, LogTyped
  <2>5. TypeOK' /\ OneEach' /\ TypedKnown'
    BY <1>1, <1>3, <2>3, <2>4, MasterGoesOn
  <2>6. c.kind = "save" => Carried(c) = server.stored[c.i].secret \/ <<c.i, Carried(c)>> \in log.typed
    BY <1>1 DEF Carried, Stored, IInv, TypedKnown
  <2>7. CarriedKnown'
    BY <1>1, <1>3, <2>3, <2>6 DEF IInv, CarriedKnown, GoesOn
  <2>8. SourcesKnown'
    <3>1. ~Rebuilding(c) /\ ~Rebuilding(e)
      BY <1>1, <2>3 DEF Rebuilding
    <3>2. \A d : Rebuilding(d) => (d \in calls <=> d \in calls')
      BY <2>3, <3>1 DEF GoesOn
    <3>3. SourcesKnown
      BY DEF IInv
    <3> QED BY <1>1, <1>3, <3>2, <3>3 DEF SourcesKnown, Enabled, Stored
  <2> QED BY <1>1, <2>5, <2>7, <2>8 DEF IInv
<1> QED BY <1>2, <1>3 DEF ResolveConfig

LEMMA PingStep ==
  ASSUME IInv, NEW c \in calls, Ping(c)
  PROVE  IInv'
<1> DEFINE e == [c EXCEPT !.st = "ok"]
<1>1. TypeOK /\ UNCHANGED <<page, server, ui, log>> /\ c.kind = "test"
  BY DEF IInv, Ping
<1>2. GoesOn(c, e) /\ e.st = "ok" /\ e.kind # "save"
  BY <1>1, StepGoesOn DEF Ping
<1> HIDE DEF e
<1>3. ServerTyped' /\ LogTyped'
  BY <1>1 DEF TypeOK, ServerTyped, LogTyped
<1>4. TypeOK' /\ OneEach' /\ TypedKnown'
  BY <1>1, <1>2, <1>3, MasterGoesOn
<1>5. \A d : d.kind = "save" => (d \in calls <=> d \in calls')
  BY <1>1, <1>2 DEF GoesOn
<1>6. CarriedKnown'
  BY <1>1, <1>5 DEF IInv, CarriedKnown
<1>7. SourcesKnown'
  BY <1>1, <1>5 DEF IInv, SourcesKnown, Rebuilding, Enabled, Stored
<1> QED BY <1>1, <1>4, <1>6, <1>7 DEF IInv

\* The one save of this integration stores: the others' secrets stay, and the
\* connectors have to follow.
LEMMA UpsertStep ==
  ASSUME IInv, NEW c \in calls, UpsertIntegrationSetting(c)
  PROVE  IInv'
<1> DEFINE e == [c EXCEPT !.st = "stored"]
           r == [enabled |-> c.enabled, secret |-> c.secret]
<1>1. /\ TypeOK /\ c \in Call /\ UNCHANGED <<page, ui>> /\ c.kind = "save" /\ c.st = "resolved"
      /\ server' = [server EXCEPT !.stored[c.i] = r]
      /\ log' = [log EXCEPT !.stale = log.stale \cup Reading]
  BY DEF IInv, UpsertIntegrationSetting, TypeOK, CallsTyped
<1>2. GoesOn(c, e) /\ e.st = "stored" /\ e.kind = "save"
  BY <1>1, StepGoesOn DEF UpsertIntegrationSetting
<1> HIDE DEF e
<1>3. c.i \in Integration
  BY <1>1 DEF IInv, OneEach, Asks
<1>4. r \in Setting
  BY <1>1 DEF Setting, Call
<1> HIDE DEF r
<1>5. /\ ServerTyped' /\ server'.sources = server.sources
      /\ \A j \in Integration \ {c.i} : server'.stored[j] = server.stored[j]
  BY <1>1, <1>3, <1>4 DEF TypeOK, ServerTyped
<1>6. /\ LogTyped' /\ log'.typed = log.typed /\ log'.unread = log.unread
      /\ log'.stale = log.stale \cup Reading
  <2>1. \A d \in calls : d.i \in Of
    BY <1>1 DEF TypeOK, CallsTyped, Call
  <2>2. Reading \in SUBSET Of /\ LogTyped
    BY <1>1, <2>1 DEF Reading, TypeOK
  <2> DEFINE s == log.stale \cup Reading
  <2>3. s \in SUBSET Of /\ log' = [log EXCEPT !.stale = s]
    BY <1>1, <2>2 DEF LogTyped
  <2> HIDE DEF s
  <2>4. /\ LogTyped' /\ log'.typed = log.typed /\ log'.unread = log.unread /\ log'.stale = s
    BY <2>2, <2>3 DEF LogTyped
  <2> QED BY <2>4 DEF s
<1>7. TypeOK' /\ OneEach' /\ TypedKnown'
  BY <1>1, <1>2, <1>5, <1>6, MasterGoesOn
<1>8. \A d \in calls' : d = e \/ (d \in calls /\ d # c)
  BY <1>2 DEF GoesOn
<1>9. CarriedKnown'
  <2>1. \A d \in calls : d.kind = "save" /\ d # c => d.i \in Integration \ {c.i}
    BY <1>1 DEF IInv, OneEach, Asks
  <2> QED BY <1>1, <1>2, <1>5, <1>6, <1>8, <2>1 DEF IInv, CarriedKnown
<1>10. SourcesKnown'
  <2>1. e \in calls' /\ Rebuilding(e)
    BY <1>2 DEF GoesOn, Rebuilding
  <2>2. \A d \in calls' : Rebuilding(d) /\ d.st \in {"half read", "read"} => d.i \in log'.stale
    BY <1>2, <1>6, <1>8 DEF Reading, Rebuilding
  <2> QED BY <2>1, <2>2 DEF SourcesKnown
<1> QED BY <1>1, <1>7, <1>9, <1>10 DEF IInv

\* A save that rebuilds reads what is stored, and unless another setting is
\* stored meanwhile, the connectors become those.
LEMMA RebuildSteps ==
  ASSUME IInv, NEW c \in calls, ReadFirst(c) \/ ReadSecond(c) \/ SetSources(c)
  PROVE  IInv'
<1>1. TypeOK /\ c \in Call /\ UNCHANGED <<page, ui>> /\ c.kind = "save" /\ Rebuilding(c)
  BY DEF IInv, ReadFirst, ReadSecond, SetSources, TypeOK, CallsTyped, Rebuilding
<1>2. server'.stored = server.stored /\ ServerTyped'
  BY <1>1 DEF ReadFirst, ReadSecond, SetSources, TypeOK, ServerTyped, Call
<1>3. Enabled(Stored)' = Enabled(Stored)
  BY <1>2 DEF Enabled, Stored
<1>4. Enabled(Stored) \in SUBSET Integration /\ c.seen \in SUBSET Integration
  BY <1>1 DEF Enabled, Call
<1>5. LogTyped
  BY <1>1 DEF TypeOK
<1>6. PICK e : /\ GoesOn(c, e) /\ e.kind = "save" /\ e.i = c.i
               /\ \/ /\ e.st = "half read" /\ e.seen = Enabled(Stored) \cap {"siem"}
                     /\ log' = [log EXCEPT !.stale = log.stale \ {c.i}]
                     /\ UNCHANGED server
                  \/ /\ c.st = "half read" /\ e.st = "read"
                     /\ e.seen = c.seen \cup (Enabled(Stored) \ {"siem"})
                     /\ UNCHANGED <<server, log>>
                  \/ /\ c.st = "read" /\ e.st = "ok" /\ server'.sources = c.seen
                     /\ log' = [log EXCEPT !.outdated = c.i \in log.stale]
  <2>1. CASE ReadFirst(c)
    <3> DEFINE e == [c EXCEPT !.st = "half read", !.seen = Enabled(Stored) \cap {"siem"}]
    <3>1. /\ GoesOn(c, e) /\ e.kind = "save" /\ e.i = c.i
          /\ e.st = "half read" /\ e.seen = Enabled(Stored) \cap {"siem"}
      BY <1>1, <1>4, <2>1 DEF ReadFirst, GoesOn, Call
    <3> HIDE DEF e
    <3> QED BY <2>1, <3>1 DEF ReadFirst
  <2>2. CASE ReadSecond(c)
    <3> DEFINE e == [c EXCEPT !.st = "read", !.seen = @ \cup (Enabled(Stored) \ {"siem"})]
    <3>1. /\ GoesOn(c, e) /\ e.kind = "save" /\ e.i = c.i /\ c.st = "half read" /\ e.st = "read"
          /\ e.seen = c.seen \cup (Enabled(Stored) \ {"siem"})
      BY <1>1, <1>4, <2>2 DEF ReadSecond, GoesOn, Call
    <3> HIDE DEF e
    <3> QED BY <2>2, <3>1 DEF ReadSecond
  <2>3. CASE SetSources(c)
    <3> DEFINE e == [c EXCEPT !.st = "ok"]
    <3>1. GoesOn(c, e) /\ e.kind = "save" /\ e.st = "ok"
      BY <1>1, <2>3, StepGoesOn DEF SetSources
    <3>2. c.st = "read" /\ server'.sources = c.seen /\ e.i = c.i
      BY <1>1, <2>3, <3>1 DEF SetSources, TypeOK, ServerTyped, GoesOn
    <3> HIDE DEF e
    <3> QED BY <2>3, <3>1, <3>2 DEF SetSources
  <2> QED BY <2>1, <2>2, <2>3
<1>7. LogTyped' /\ log'.typed = log.typed /\ log'.unread = log.unread
  <2>1. CASE log' = [log EXCEPT !.stale = log.stale \ {c.i}]
    BY <1>5, <2>1 DEF LogTyped
  <2>2. CASE log' = log
    BY <1>5, <2>2 DEF LogTyped
  <2>3. CASE log' = [log EXCEPT !.outdated = c.i \in log.stale]
    <3> DEFINE b == c.i \in log.stale
    <3>1. b \in BOOLEAN /\ log' = [log EXCEPT !.outdated = b]
      BY <2>3
    <3> HIDE DEF b
    <3> QED BY <1>5, <3>1 DEF LogTyped
  <2> QED BY <1>6, <2>1, <2>2, <2>3
<1>8. TypeOK' /\ OneEach' /\ TypedKnown'
  <2>1. e.st # "sent"
    BY <1>6
  <2> QED BY <1>1, <1>2, <1>6, <1>7, <2>1, MasterGoesOn
<1>9. \A d \in calls' : d = e \/ (d \in calls /\ d # c)
  BY <1>6 DEF GoesOn
<1>10. CarriedKnown'
  BY <1>1, <1>2, <1>6, <1>7, <1>9 DEF IInv, CarriedKnown
<1>11. \A d \in calls : d.kind = "save" /\ d # c => d.i # c.i
  BY <1>1 DEF IInv, OneEach, Asks
<1>12. SourcesKnown
  BY DEF IInv
<1>13. e \in calls'
  BY <1>6 DEF GoesOn
<1>14. SourcesKnown'
  <2>1. CASE /\ e.st = "half read" /\ e.seen = Enabled(Stored) \cap {"siem"}
             /\ log' = [log EXCEPT !.stale = log.stale \ {c.i}]
    <3>1. log'.stale = log.stale \ {c.i}
      BY <1>5, <2>1 DEF LogTyped
    <3> QED BY <1>3, <1>6, <1>9, <1>11, <1>12, <1>13, <2>1, <3>1 DEF SourcesKnown, Rebuilding
  <2>2. CASE /\ c.st = "half read" /\ e.st = "read" /\ log' = log
             /\ e.seen = c.seen \cup (Enabled(Stored) \ {"siem"})
    <3>1. c.i \notin log.stale => e.seen = Enabled(Stored)
      BY <1>1, <1>12, <2>2 DEF SourcesKnown
    <3> QED BY <1>3, <1>6, <1>9, <1>12, <1>13, <2>2, <3>1 DEF SourcesKnown, Rebuilding
  <2>3. CASE /\ c.st = "read" /\ e.st = "ok" /\ server'.sources = c.seen
             /\ log' = [log EXCEPT !.outdated = c.i \in log.stale]
    <3> DEFINE b == c.i \in log.stale
    <3>1. log' = [log EXCEPT !.outdated = b] /\ (b <=> c.i \in log.stale)
      BY <2>3
    <3> HIDE DEF b
    <3>2. log'.stale = log.stale /\ log'.outdated = b
      BY <1>5, <3>1 DEF LogTyped
    <3>3. ~b => c.seen = Enabled(Stored)
      BY <1>1, <1>12, <2>3, <3>1 DEF SourcesKnown
    <3> QED BY <1>3, <1>6, <1>9, <1>12, <2>3, <3>2, <3>3 DEF SourcesKnown, Rebuilding
  <2> QED BY <1>6, <2>1, <2>2, <2>3
<1> QED BY <1>1, <1>8, <1>10, <1>14 DEF IInv

LEMMA NextIInv == IInv /\ [Next]_vars => IInv'
<1> SUFFICES ASSUME IInv, [Next]_vars PROVE IInv'
  OBVIOUS
<1>1. CASE \E i \in Integration : \/ SetEnabled(i) \/ Press("test", i) \/ Press("save", i)
                                  \/ \E s \in Secrets : TypeSecret(i, s)
  BY <1>1, SetEnabledStep, PressStep, TypeSecretStep
<1>2. CASE \E c \in calls : SettingsLoad(c) \/ TestAnswered(c) \/ SaveAnswered(c) \/ Reread(c)
  BY <1>2, LoadStep, TestAnsweredStep, SaveAnsweredStep, RereadStep
<1>3. CASE \E c \in calls : GetIntegrations(c) \/ ResolveConfig(c) \/ Ping(c)
  BY <1>3, GetStep, ResolveStep, PingStep
<1>4. CASE \E c \in calls : UpsertIntegrationSetting(c) \/ ReadFirst(c) \/ ReadSecond(c) \/ SetSources(c)
  BY <1>4, UpsertStep, RebuildSteps
<1>5. CASE \E c \in calls : CannotRebuild(c) \/ CannotStore(c) \/ Refused(c)
  <2>1. PICK c \in calls : CannotRebuild(c) \/ CannotStore(c) \/ Refused(c)
    BY <1>5
  <2>2. PICK st \in {"ok", "failed"} : Step(c, st)
    BY <2>1 DEF CannotRebuild, CannotStore, Refused
  <2> DEFINE e == [c EXCEPT !.st = st]
  <2>3. TypeOK
    BY DEF IInv
  <2>4. GoesOn(c, e) /\ e.st = st
    <3>1. st \in {"sent", "resolved", "stored", "half read", "read", "ok", "failed"}
      OBVIOUS
    <3> QED BY Zenon, <2>2, <2>3, <3>1, StepGoesOn
  <2> HIDE DEF e
  <2>5. LogTyped /\ log.faults + 1 \in Nat
    BY <2>3, OneMore DEF TypeOK
  <2>6. /\ UNCHANGED <<page, server, ui>>
        /\ \/ log' = [log EXCEPT !.faults = log.faults + 1, !.outdated = TRUE]
           \/ log' = [log EXCEPT !.faults = log.faults + 1] /\ ~Rebuilding(c)
    BY <2>1 DEF CannotRebuild, CannotStore, Refused, Rebuilding
  <2>7. /\ LogTyped' /\ log'.typed = log.typed /\ log'.stale = log.stale /\ log'.unread = log.unread
        /\ log.outdated \/ Rebuilding(c) => log'.outdated
    <3>1. CASE log' = [log EXCEPT !.faults = log.faults + 1, !.outdated = TRUE]
      BY <2>5, <3>1 DEF LogTyped
    <3>2. CASE log' = [log EXCEPT !.faults = log.faults + 1] /\ ~Rebuilding(c)
      BY <2>5, <3>2 DEF LogTyped
    <3> QED BY <2>6, <3>1, <3>2
  <2>8. ~Rebuilding(e) /\ e.st # "sent" /\ e.st # "resolved"
    BY <2>4 DEF Rebuilding
  <2> QED BY <2>4, <2>6, <2>7, <2>8, FaultStep
<1>6. CASE UNCHANGED vars
  BY <1>6 DEF vars, IInv, TypeOK, ServerTyped, UITyped, CallsTyped, LogTyped, OneEach, TypedKnown,
              CarriedKnown, SourcesKnown, Enabled, Stored
<1> QED BY <1>1, <1>2, <1>3, <1>4, <1>5, <1>6 DEF Next

-----------------------------------------------------------------------------
(* The theorems                                                            *)

\* Every state the page and the master can reach satisfies the inductive
\* invariant: a save carries what is stored or was typed, unless that could not
\* be read, and the connectors follow what is stored as the last rebuild to end
\* knew it.
THEOREM InductiveInvariant == Spec => []IInv
  BY InitIInv, NextIInv, PTL DEF Spec

\* At rest the connectors are those enabled.
LEMMA IInvImplies == IInv => SourcesFollow
  BY DEF IInv, SourcesKnown, SourcesFollow

\* Storing takes what the save carries, and nothing else stores.
LEMMA SecretStep ==
  ASSUME IInv, [Next]_vars, NEW i \in Integration,
         server'.stored[i].secret # server.stored[i].secret
  PROVE  \/ <<i, server'.stored[i].secret>> \in log.typed
         \/ i \in log.unread /\ server'.stored[i].secret = ""
<1>1. PICK c \in calls : UpsertIntegrationSetting(c)
  <2>1. server' # server
    OBVIOUS
  <2>2. CASE \E c \in calls : SetSources(c)
    BY <2>2 DEF SetSources, IInv, TypeOK, ServerTyped
  <2>3. CASE \E c \in calls : UpsertIntegrationSetting(c)
    BY <2>3
  <2> QED BY <2>1, <2>2, <2>3 DEF Next, vars, SetEnabled, Press, TypeSecret, SettingsLoad, TestAnswered,
        SaveAnswered, Reread, GetIntegrations, ResolveConfig, Ping, Refused, ReadFirst, ReadSecond,
        CannotRebuild, CannotStore
<1>2. /\ TypeOK /\ c.kind = "save" /\ c.st = "resolved"
      /\ server' = [server EXCEPT !.stored[c.i] = [enabled |-> c.enabled, secret |-> c.secret]]
  BY <1>1 DEF IInv, UpsertIntegrationSetting
<1>3. i = c.i /\ server'.stored[i].secret = c.secret
  BY <1>2 DEF TypeOK, ServerTyped
<1> QED BY <1>2, <1>3 DEF IInv, CarriedKnown
=============================================================================
