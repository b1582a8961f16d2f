-------------------------- MODULE ValidationProofs --------------------------
(***************************************************************************)
(* The theorem about the client's answers, for every number of keys,       *)
(* values, attempts and requests in the server.                            *)
(*                                                                         *)
(* The argument: whatever is still on its way to a key in the server is a  *)
(* value the key may have, so is what the key has.  An acknowledged write  *)
(* narrows these values to its own only if it was alone on its key; then   *)
(* all that is on its way to the key is another attempt of the same step.  *)
(***************************************************************************)
EXTENDS Validation, NaturalsInduction, WellFoundedInduction, TLAPS

Request == Read \cup Change
Handler == [req : Request \cup {None},
            pc  : {"free", "waiting", "writing", "done"},
            res : Val \cup {None}]
ClientState == [pc : {"idle", "send", "wait", "failed"}, step : Request \cup {None},
                attempt : Nat, slot : Slot \cup {0}, sent : BOOLEAN]

TypeInv ==
  /\ kv \in [Key -> Val \cup {None}]
  /\ handlers \in [Slot -> Handler]
  /\ \A s \in Slot : handlers[s].pc # "free" => handlers[s].req \in Request
  /\ client \in ClientState
  /\ client.pc # "idle" => client.step \in Request
  /\ possible \in [Key -> SUBSET (Val \cup {None})]
  /\ alone \in BOOLEAN

\* The handler that has writeMu is the one whose write is pending.
OneWriter ==
  /\ writer \in Slot \cup {0}
  /\ pending = None <=> writer = 0
  /\ \A s \in Slot : handlers[s].pc = "writing" => writer = s
  /\ writer # 0 =>
       LET h == handlers[writer] IN
       /\ h.pc = "writing" /\ h.req \in Change
       /\ pending = [key |-> h.req.key, entry |-> h.req.entry]

\* Handler s is going to write its request.
OnItsWay(s) == handlers[s].pc \in {"waiting", "writing"} /\ handlers[s].req \in Change

\* What a key has, and all that is on its way to it, is possible.
ValuesPossible ==
  /\ \A k \in Key : kv[k] \in possible[k]
  /\ \A s \in Slot : OnItsWay(s) =>
       Visible(handlers[s].req.entry) \in possible[handlers[s].req.key]
  /\ client.pc # "idle" /\ client.step \in Change =>
       Visible(client.step.entry) \in possible[client.step.key]

\* The client waits for the handler of its step.
WaitsForStep ==
  client.pc = "wait" =>
    /\ client.slot \in Slot
    /\ handlers[client.slot].pc # "free"
    /\ handlers[client.slot].req = client.step

\* All that is on its way to the key of a write that is alone is the same entry,
\* and when the write is answered the key has it.
AloneOnKey ==
  alone /\ client.pc # "idle" /\ client.step \in Change =>
    /\ \A s \in Slot : OnItsWay(s) /\ handlers[s].req.key = client.step.key =>
         handlers[s].req.entry = client.step.entry
    /\ client.pc = "wait" /\ handlers[client.slot].pc = "done" =>
         kv[client.step.key] = Visible(client.step.entry)

Explained ==
  /\ TypeInv
  /\ OneWriter
  /\ ValuesPossible
  /\ WaitsForStep
  /\ AloneOnKey
  /\ AnswersExplained

-----------------------------------------------------------------------------
\* A write carries an entry that can be seen, a read none.
LEMMA RequestType ==
  /\ \A c \in Change : /\ c.key \in Key /\ c.entry \in Entry
                       /\ Visible(c.entry) \in Val \cup {None}
                       /\ c \notin Read
  /\ \A r \in Read : r.key \in Key /\ r.entry = None
  /\ None \notin Entry
<1>1. None \notin Entry /\ Tombstone \notin Val /\ None \notin Val
  BY SentinelsDiffer DEF Entry
<1>2. ASSUME NEW c \in Change
      PROVE  c.key \in Key /\ c.entry \in Entry
  BY DEF Change, Entry
<1>3. ASSUME NEW r \in Read
      PROVE  r.key \in Key /\ r.entry = None
  BY DEF Read
<1> QED
  BY <1>1, <1>2, <1>3 DEF Visible, Entry

\* At the start all keys are absent and nothing is on its way.
LEMMA InitExplained == Init => Explained
BY DEF Init, Explained, TypeInv, OneWriter, OnItsWay, ValuesPossible, WaitsForStep,
   AloneOnKey, AnswersExplained, Store!Init, Free, Idle, Handler, ClientState, Request

\* A new step adds its value to those its key may have.
LEMMA NextStepExplained == Explained /\ NextStep => Explained'
<1> SUFFICES ASSUME Explained, NextStep PROVE Explained'
  OBVIOUS
<1>1. PICK s \in Generated :
        /\ client' = [Idle EXCEPT !.pc = "send", !.step = s]
        /\ IF s \in Change
           THEN /\ state' = [state EXCEPT ![s.key] = Visible(s.entry)]
                /\ possible' = [possible EXCEPT ![s.key] = @ \cup {Visible(s.entry)}]
                /\ alone' = ~Writing(s.key)
           ELSE UNCHANGED <<state, possible, alone>>
  BY Zenon DEF NextStep
<1>2. s \in Request /\ client.pc = "idle" /\ UNCHANGED serverVars
  BY DEF NextStep, Generated, Request
<1>3. /\ client'.pc = "send" /\ client'.step = s /\ client' \in ClientState
  BY <1>1, <1>2 DEF Idle, ClientState
<1>4. ASSUME s \in Change
      PROVE  /\ s.key \in Key /\ Visible(s.entry) \in Val \cup {None}
             /\ possible' \in [Key -> SUBSET (Val \cup {None})]
             /\ Visible(s.entry) \in possible'[s.key]
             /\ alone' \in BOOLEAN
             /\ alone' => \A q \in Slot : ~(OnItsWay(q) /\ handlers[q].req.key = s.key)
  <2>1. s.key \in Key /\ Visible(s.entry) \in Val \cup {None}
    BY <1>4, RequestType
  <2>2. /\ possible' = [possible EXCEPT ![s.key] = @ \cup {Visible(s.entry)}]
        /\ possible \in [Key -> SUBSET (Val \cup {None})]
        /\ alone' = ~Writing(s.key)
    BY <1>1, <1>4 DEF Explained, TypeInv
  <2>3. Writing(s.key) \in BOOLEAN
    BY DEF Writing
  <2>4. alone' => \A q \in Slot : ~(OnItsWay(q) /\ handlers[q].req.key = s.key)
    BY <2>2 DEF Writing, OnItsWay
  <2> QED
    BY <2>1, <2>2, <2>3, <2>4
<1>5. /\ possible' \in [Key -> SUBSET (Val \cup {None})] /\ alone' \in BOOLEAN
      /\ \A k \in Key : possible[k] \subseteq possible'[k]
  BY <1>1, <1>4 DEF Explained, TypeInv
<1>6. TypeInv'
  BY <1>2, <1>3, <1>5 DEF Explained, TypeInv, serverVars
<1>7. OneWriter' /\ WaitsForStep' /\ AnswersExplained'
  BY <1>2, <1>3 DEF Explained, OneWriter, WaitsForStep, AnswersExplained, serverVars
<1>8. ValuesPossible'
  BY <1>2, <1>3, <1>4, <1>5, RequestType
     DEF Explained, ValuesPossible, OnItsWay, serverVars, TypeInv
<1>9. AloneOnKey'
  BY <1>2, <1>3, <1>4 DEF AloneOnKey, OnItsWay, serverVars
<1> QED
  BY <1>6, <1>7, <1>8, <1>9 DEF Explained

\* Steps of the client that leave the server alone keep its step.
LEMMA ClientExplained ==
  ASSUME Explained,
         \/ SendWithoutBody \/ Refused \/ Timeout \/ Retry \/ GiveUp
  PROVE  Explained'
<1>1. UNCHANGED <<serverVars, possible, alone>>
  BY DEF SendWithoutBody, Refused, Timeout, Retry, GiveUp
<1>2. /\ client' \in ClientState /\ client'.pc # "wait"
      /\ client'.pc # "idle" => client.pc # "idle" /\ client'.step = client.step
  <2>1. client \in ClientState
    BY DEF Explained, TypeInv
  <2>2. CASE SendWithoutBody \/ Timeout \/ Retry
    <3>1. client.attempt + 1 \in Nat
      BY <2>1 DEF ClientState
    <3>2. CASE SendWithoutBody
      BY <2>1, <3>1, <3>2 DEF SendWithoutBody, ClientState
    <3>3. CASE Timeout \/ Retry
      BY <2>1, <3>3 DEF Timeout, Retry, ClientState
    <3> QED
      BY <2>2, <3>2, <3>3
  <2>3. CASE Refused
    <3> DEFINE isPut == client.step.kind = "PUT"
    <3>1. isPut \in BOOLEAN /\ client.sent \in BOOLEAN
      BY <2>1 DEF ClientState
    <3>2. \E sent \in {client.sent, isPut} :
            client' = [client EXCEPT !.pc = "failed", !.attempt = @ + 1, !.sent = sent]
      BY <2>3 DEF Refused
    <3>3. client.pc = "send"
      BY <2>3 DEF Refused
    <3> HIDE DEF isPut
    <3>4. PICK sent \in BOOLEAN :
            client' = [client EXCEPT !.pc = "failed", !.attempt = @ + 1, !.sent = sent]
      BY <3>1, <3>2, Zenon
    <3>5. client.attempt + 1 \in Nat
      BY <2>1 DEF ClientState
    <3>6. client' = [pc |-> "failed", step |-> client.step, attempt |-> client.attempt + 1,
                     slot |-> client.slot, sent |-> sent]
      BY <2>1, <3>4 DEF ClientState
    <3> QED
      BY <2>1, <3>3, <3>5, <3>6 DEF ClientState
  <2>4. CASE GiveUp
    BY <2>4 DEF GiveUp, Idle, ClientState
  <2> QED
    BY <2>2, <2>3, <2>4
<1> QED
  BY <1>1, <1>2 DEF Explained, TypeInv, OneWriter, OnItsWay, ValuesPossible,
     WaitsForStep, AloneOnKey, AnswersExplained, serverVars

\* Slots are numbers, of which any set has a least one.
LEMMA LeastSlot == ASSUME FreeSlots # {} PROVE Min(FreeSlots) \in FreeSlots
<1>1. FreeSlots \subseteq Nat
  BY CountsArePositive DEF FreeSlots, Slot
<1>2. PICK n \in FreeSlots : \A m \in FreeSlots : ~ (<<m, n>> \in OpToRel(<, Nat))
  BY <1>1, NatLessThanWellFounded, WFMin, Zenon
<1>3. \A m \in FreeSlots : n <= m
  <2> SUFFICES ASSUME NEW m \in FreeSlots, m < n PROVE FALSE
    BY <1>1
  <2>1. <<m, n>> \in OpToRel(<, Nat)
    BY <1>1 DEF OpToRel
  <2> QED
    BY <1>2, <2>1, Zenon
<1> QED
  BY <1>3 DEF Min

\* The handler starts with the client's step.
LEMMA SendExplained == Explained /\ Send => Explained'
<1> SUFFICES ASSUME Explained, Send PROVE Explained'
  OBVIOUS
<1> DEFINE s == Min(FreeSlots)
           h == [req |-> client.step, pc |-> "waiting", res |-> None]
<1>1. s \in Slot /\ handlers[s] = Free
  BY LeastSlot DEF Send, FreeSlots
<1>2. /\ client.pc = "send" /\ client.step \in Request
      /\ handlers' = [handlers EXCEPT ![s] = h]
      /\ UNCHANGED <<kv, pending, up, writer, state, possible, alone>>
  BY DEF Send, Explained, TypeInv
<1>3. /\ client'.pc = "wait" /\ client'.step = client.step /\ client'.slot = s
      /\ client' \in ClientState
  <2> DEFINE isPut == client.step.kind = "PUT"
  <2>1. client' = [client EXCEPT !.pc = "wait", !.attempt = @ + 1, !.slot = s,
                                 !.sent = isPut]
    BY DEF Send
  <2>2. client \in ClientState /\ isPut \in BOOLEAN
    BY DEF Explained, TypeInv
  <2> HIDE DEF s, isPut
  <2>3. client.attempt + 1 \in Nat
    BY <2>2 DEF ClientState
  <2>4. client' = [pc |-> "wait", step |-> client.step, attempt |-> client.attempt + 1,
                   slot |-> s, sent |-> isPut]
    BY <2>1, <2>2 DEF ClientState
  <2> QED
    BY <1>1, <2>2, <2>3, <2>4 DEF ClientState, Request
<1> HIDE DEF s
<1>4. /\ handlers' \in [Slot -> Handler] /\ handlers'[s] = h
      /\ \A q \in Slot \ {s} : handlers'[q] = handlers[q]
  BY <1>1, <1>2 DEF Explained, TypeInv, Handler
<1>5. TypeInv'
  BY <1>1, <1>2, <1>3, <1>4 DEF Explained, TypeInv
<1>6. OneWriter'
  BY <1>1, <1>2, <1>4 DEF Explained, OneWriter, Free
<1>7. ValuesPossible'
  BY <1>1, <1>2, <1>3, <1>4 DEF Explained, ValuesPossible, OnItsWay
<1>8. WaitsForStep' /\ AnswersExplained'
  BY <1>1, <1>3, <1>4 DEF WaitsForStep, AnswersExplained
<1>9. AloneOnKey'
  BY <1>1, <1>2, <1>3, <1>4 DEF Explained, AloneOnKey, OnItsWay
<1> QED
  BY <1>5, <1>6, <1>7, <1>8, <1>9 DEF Explained

\* An answer ends the step.
LEMMA AnswerExplained == Explained /\ Answer => Explained'
<1> SUFFICES ASSUME Explained, Answer PROVE Explained'
  OBVIOUS
<1> DEFINE s == client.slot
<1>1. /\ client.pc = "wait" /\ s \in Slot /\ handlers[s].pc = "done"
      /\ handlers' = [handlers EXCEPT ![s] = Free] /\ client' = Idle
      /\ UNCHANGED <<kv, pending, up, writer, state, alone>>
      /\ client.step \in Request
  BY DEF Answer, Explained, WaitsForStep, TypeInv
<1>2. possible' = IF client.step \in Change /\ alone
                  THEN [possible EXCEPT ![client.step.key] = {Visible(client.step.entry)}]
                  ELSE possible
  BY DEF Answer
<1>3. /\ handlers' \in [Slot -> Handler] /\ handlers'[s] = Free
      /\ \A q \in Slot \ {s} : handlers'[q] = handlers[q]
      /\ client' \in ClientState /\ client'.pc = "idle"
  BY <1>1 DEF Explained, TypeInv, Handler, ClientState, Free, Idle
<1>4. TypeInv'
  BY <1>1, <1>2, <1>3, RequestType DEF Explained, TypeInv, Free
<1>5. OneWriter'
  BY <1>1, <1>3 DEF Explained, OneWriter, Free
<1>6. ValuesPossible'
  <2>1. ASSUME NEW q \in Slot, OnItsWay(q)'
        PROVE  q # s /\ OnItsWay(q) /\ handlers'[q] = handlers[q]
    BY <1>3, <2>1 DEF OnItsWay, Free
  <2>2. CASE client.step \in Change /\ alone
    <3> DEFINE k == client.step.key
    <3>1. /\ k \in Key /\ possible'[k] = {Visible(client.step.entry)}
          /\ \A j \in Key \ {k} : possible'[j] = possible[j]
      BY <1>2, <2>2, RequestType DEF Explained, TypeInv
    <3>2. kv[k] = Visible(client.step.entry)
      BY <1>1, <2>2 DEF Explained, AloneOnKey
    <3>3. ASSUME NEW q \in Slot, OnItsWay(q)'
          PROVE  Visible(handlers'[q].req.entry) \in possible'[handlers'[q].req.key]
      <4>1. handlers[q].req.key \in Key /\ handlers[q].req \in Change
        BY <2>1, <3>3, RequestType DEF OnItsWay
      <4>2. CASE handlers[q].req.key = k
        BY <1>1, <2>1, <2>2, <3>1, <3>3, <4>2 DEF Explained, AloneOnKey
      <4>3. CASE handlers[q].req.key # k
        BY <2>1, <3>1, <3>3, <4>1, <4>3 DEF Explained, ValuesPossible
      <4> QED
        BY <4>2, <4>3
    <3>4. \A j \in Key : kv'[j] \in possible'[j]
      BY <1>1, <3>1, <3>2 DEF Explained, ValuesPossible
    <3> QED
      BY <1>3, <3>3, <3>4 DEF ValuesPossible
  <2>3. CASE ~(client.step \in Change /\ alone)
    BY <1>1, <1>2, <1>3, <2>1, <2>3 DEF Explained, ValuesPossible
  <2> QED
    BY <2>2, <2>3
<1>7. WaitsForStep' /\ AnswersExplained' /\ AloneOnKey'
  BY <1>3 DEF WaitsForStep, AnswersExplained, AloneOnKey
<1> QED
  BY <1>4, <1>5, <1>6, <1>7 DEF Explained

-----------------------------------------------------------------------------
(***************************************************************************)
(* The server.                                                             *)
(***************************************************************************)
\* A read returns what its key has.
LEMMA HandleGetExplained ==
  ASSUME Explained, NEW s \in Slot, HandleGet(s)
  PROVE  Explained'
<1>1. /\ handlers[s].pc = "waiting" /\ handlers[s].req \in Read
      /\ handlers' = [handlers EXCEPT ![s].pc = "done",
                                     ![s].res = kv[handlers[s].req.key]]
      /\ UNCHANGED <<kv, pending, up, writer, client, possible, alone>>
  BY DEF HandleGet, clientVars
<1>2. handlers[s].req.key \in Key /\ handlers[s].req \notin Change
  BY <1>1, RequestType
<1>3. /\ handlers' \in [Slot -> Handler]
      /\ handlers'[s].pc = "done" /\ handlers'[s].req = handlers[s].req
      /\ handlers'[s].res = kv[handlers[s].req.key]
      /\ \A q \in Slot \ {s} : handlers'[q] = handlers[q]
  BY <1>1, <1>2 DEF Explained, TypeInv, Handler
<1>4. TypeInv'
  BY <1>1, <1>3 DEF Explained, TypeInv
<1>5. OneWriter'
  BY <1>1, <1>2, <1>3 DEF Explained, OneWriter
<1>6. \A q \in Slot : OnItsWay(q)' => OnItsWay(q) /\ handlers'[q] = handlers[q]
  BY <1>3 DEF OnItsWay
<1>7. ValuesPossible'
  BY <1>1, <1>6 DEF Explained, ValuesPossible
<1>8. WaitsForStep' /\ AloneOnKey'
  BY <1>1, <1>2, <1>3, <1>6 DEF Explained, WaitsForStep, AloneOnKey
<1>9. AnswersExplained'
  BY <1>1, <1>2, <1>3 DEF Explained, AnswersExplained, WaitsForStep, ValuesPossible
<1> QED
  BY <1>4, <1>5, <1>7, <1>8, <1>9 DEF Explained

\* The write of a handler becomes the pending one.
LEMMA LockExplained ==
  ASSUME Explained, NEW s \in Slot, Lock(s)
  PROVE  Explained'
<1>1. /\ handlers[s].pc = "waiting" /\ handlers[s].req \in Change
      /\ pending = None
      /\ pending' = [key |-> handlers[s].req.key, entry |-> handlers[s].req.entry]
      /\ pending' \in Store!Write
      /\ writer' = s
      /\ handlers' = [handlers EXCEPT ![s].pc = "writing"]
      /\ UNCHANGED <<kv, up, client, possible, alone>>
  BY DEF Lock, Store!Start, clientVars
<1>2. /\ handlers' \in [Slot -> Handler]
      /\ handlers'[s].pc = "writing" /\ handlers'[s].req = handlers[s].req
      /\ \A q \in Slot \ {s} : handlers'[q] = handlers[q]
  BY <1>1 DEF Explained, TypeInv, Handler
<1>3. TypeInv'
  BY <1>1, <1>2 DEF Explained, TypeInv
<1>4. OneWriter'
  <2>1. writer = 0 /\ \A q \in Slot : q # 0 /\ handlers[q].pc # "writing"
    BY <1>1, CountsArePositive DEF Explained, OneWriter, Slot
  <2>2. pending' # None
    BY <1>1, NoneIsNoWrite DEF Store!Write, Entry
  <2> QED
    BY <1>1, <1>2, <2>1, <2>2 DEF Explained, OneWriter
<1>5. \A q \in Slot : /\ OnItsWay(q)' => OnItsWay(q)
                      /\ handlers'[q].req = handlers[q].req
                      /\ handlers'[q].pc = "done" <=> handlers[q].pc = "done"
                      /\ handlers'[q].pc = "free" <=> handlers[q].pc = "free"
                      /\ handlers'[q].pc = "done" => handlers'[q] = handlers[q]
  BY <1>1, <1>2 DEF OnItsWay
<1>6. ValuesPossible'
  BY <1>1, <1>5 DEF Explained, ValuesPossible
<1>7. WaitsForStep' /\ AloneOnKey' /\ AnswersExplained'
  BY <1>1, <1>5 DEF Explained, WaitsForStep, AloneOnKey, AnswersExplained
<1> QED
  BY <1>3, <1>4, <1>6, <1>7 DEF Explained

\* A write that returns has given its key one of the possible values; if the
\* client's step is alone on that key, it is the value of the step.
LEMMA HandleWriteExplained ==
  ASSUME Explained, NEW s \in Slot, HandleWrite(s)
  PROVE  Explained'
<1> DEFINE req == handlers[s].req
<1>1. /\ writer = s /\ s # 0 /\ pending # None
      /\ kv' = Store!Applied(pending) /\ pending' = None /\ writer' = 0
      /\ handlers' = [handlers EXCEPT ![s].pc = "done"]
      /\ UNCHANGED <<up, client, possible, alone>>
  BY CountsArePositive DEF HandleWrite, Store!Commit, clientVars, Slot
<1>2. /\ handlers[s].pc = "writing" /\ req \in Change
      /\ pending = [key |-> req.key, entry |-> req.entry]
  BY <1>1 DEF Explained, OneWriter
<1>3. /\ req.key \in Key /\ Visible(req.entry) \in Val \cup {None} /\ req \notin Read
  BY <1>2, RequestType
<1>4. kv' = [kv EXCEPT ![req.key] = Visible(req.entry)]
  BY <1>1, <1>2 DEF Store!Applied, Visible
<1>5. /\ handlers' \in [Slot -> Handler]
      /\ handlers'[s].pc = "done" /\ handlers'[s].req = req
      /\ \A q \in Slot \ {s} : handlers'[q] = handlers[q]
  BY <1>1 DEF Explained, TypeInv, Handler
<1>6. TypeInv'
  BY <1>1, <1>2, <1>3, <1>4, <1>5 DEF Explained, TypeInv, Request
<1>7. OneWriter'
  BY <1>1, <1>5 DEF Explained, OneWriter
<1>8. \A q \in Slot : OnItsWay(q)' => OnItsWay(q) /\ handlers'[q] = handlers[q]
  BY <1>5 DEF OnItsWay
<1>9. OnItsWay(s)
  BY <1>2 DEF OnItsWay
<1>10. ValuesPossible'
  BY <1>1, <1>3, <1>4, <1>8, <1>9 DEF Explained, ValuesPossible, TypeInv
<1>11. WaitsForStep' /\ AnswersExplained'
  BY <1>1, <1>2, <1>3, <1>5 DEF Explained, WaitsForStep, AnswersExplained
<1>12. AloneOnKey'
  <2> SUFFICES ASSUME alone, client.pc # "idle", client.step \in Change
               PROVE  /\ \A q \in Slot :
                           OnItsWay(q)' /\ handlers'[q].req.key = client.step.key =>
                             handlers'[q].req.entry = client.step.entry
                      /\ client.pc = "wait" /\ handlers'[client.slot].pc = "done" =>
                           kv'[client.step.key] = Visible(client.step.entry)
    BY <1>1 DEF AloneOnKey
  <2>1. \A q \in Slot : OnItsWay(q) /\ handlers[q].req.key = client.step.key =>
          handlers[q].req.entry = client.step.entry
    BY DEF Explained, AloneOnKey
  <2>2. client.step.key \in Key /\ kv \in [Key -> Val \cup {None}]
    BY RequestType DEF Explained, TypeInv
  <2>3. ASSUME client.pc = "wait", handlers'[client.slot].pc = "done"
        PROVE  kv'[client.step.key] = Visible(client.step.entry)
    <3>1. CASE req.key = client.step.key
      BY <1>3, <1>4, <1>9, <2>1, <2>2, <3>1
    <3>2. CASE req.key # client.step.key
      <4>1. client.slot \in Slot /\ handlers[client.slot].req = client.step
        BY <2>3 DEF Explained, WaitsForStep
      <4>2. client.slot # s
        BY <3>2, <4>1
      <4>3. handlers[client.slot].pc = "done"
        BY <1>5, <2>3, <4>1, <4>2
      <4>4. kv[client.step.key] = Visible(client.step.entry)
        BY <2>3, <4>3 DEF Explained, AloneOnKey
      <4> QED
        BY <1>3, <1>4, <2>2, <3>2, <4>4
    <3> QED
      BY <3>1, <3>2
  <2> QED
    BY <1>8, <2>1, <2>3
<1> QED
  BY <1>6, <1>7, <1>10, <1>11, <1>12 DEF Explained

\* An answer nobody waits for changes nothing.
LEMMA DropExplained ==
  ASSUME Explained, NEW s \in Slot, Drop(s)
  PROVE  Explained'
<1>1. /\ handlers[s].pc = "done" /\ client.slot # s
      /\ handlers' = [handlers EXCEPT ![s] = Free]
      /\ UNCHANGED <<kv, pending, up, writer, client, possible, alone>>
  BY DEF Drop, clientVars
<1>2. /\ handlers' \in [Slot -> Handler] /\ handlers'[s] = Free
      /\ \A q \in Slot \ {s} : handlers'[q] = handlers[q]
  BY <1>1 DEF Explained, TypeInv, Handler, Free
<1>3. TypeInv' /\ OneWriter'
  BY <1>1, <1>2 DEF Explained, TypeInv, OneWriter, Free
<1>4. \A q \in Slot : OnItsWay(q)' => OnItsWay(q) /\ handlers'[q] = handlers[q]
  BY <1>2 DEF OnItsWay, Free
<1>5. ValuesPossible'
  BY <1>1, <1>4 DEF Explained, ValuesPossible
<1>6. client.pc = "wait" => client.slot \in Slot /\ handlers'[client.slot] = handlers[client.slot]
  BY <1>1, <1>2 DEF Explained, WaitsForStep
<1>7. WaitsForStep' /\ AloneOnKey' /\ AnswersExplained'
  BY <1>1, <1>4, <1>6 DEF Explained, WaitsForStep, AloneOnKey, AnswersExplained
<1> QED
  BY <1>3, <1>5, <1>7 DEF Explained

\* A crash may execute the pending write; nothing else is left in the server.
LEMMA CrashExplained == Explained /\ Crash => Explained'
<1> SUFFICES ASSUME Explained, Crash PROVE Explained'
  OBVIOUS
<1>1. /\ pending' = None /\ writer' = 0
      /\ handlers' = [s \in Slot |-> Free]
      /\ UNCHANGED <<possible, alone>>
      /\ \/ kv' = kv
         \/ pending # None /\ kv' = Store!Applied(pending)
  BY DEF Crash, Store!Crash
<1>2. /\ client' \in ClientState /\ client'.pc # "wait"
      /\ client'.pc # "idle" => client.pc # "idle" /\ client'.step = client.step
  BY DEF Crash, Explained, TypeInv, ClientState
<1>3. \A s \in Slot : handlers'[s] = Free
  BY <1>1
<1>4. kv' \in [Key -> Val \cup {None}] /\ \A k \in Key : kv'[k] \in possible[k]
  <2>1. CASE kv' = kv
    BY <2>1 DEF Explained, TypeInv, ValuesPossible
  <2>2. CASE pending # None /\ kv' = Store!Applied(pending)
    <3> DEFINE req == handlers[writer].req
    <3>1. /\ writer \in Slot /\ OnItsWay(writer) /\ req \in Change
          /\ pending = [key |-> req.key, entry |-> req.entry]
      BY <2>2 DEF Explained, OneWriter, OnItsWay
    <3>2. kv' = [kv EXCEPT ![req.key] = Visible(req.entry)]
      BY <2>2, <3>1 DEF Store!Applied, Visible
    <3>3. req.key \in Key /\ Visible(req.entry) \in Val \cup {None}
      BY <3>1, RequestType
    <3>4. Visible(req.entry) \in possible[req.key]
      BY <3>1 DEF Explained, ValuesPossible
    <3> QED
      BY <3>2, <3>3, <3>4 DEF Explained, TypeInv, ValuesPossible
  <2> QED
    BY <1>1, <2>1, <2>2
<1>5. TypeInv' /\ OneWriter'
  BY <1>1, <1>2, <1>3, <1>4 DEF Explained, TypeInv, OneWriter, Free, Handler
<1>6. ValuesPossible'
  BY <1>1, <1>2, <1>3, <1>4 DEF Explained, ValuesPossible, OnItsWay, Free
<1>7. WaitsForStep' /\ AloneOnKey' /\ AnswersExplained'
  BY <1>1, <1>2, <1>3
     DEF Explained, WaitsForStep, AloneOnKey, AnswersExplained, OnItsWay, Free
<1> QED
  BY <1>5, <1>6, <1>7 DEF Explained

\* Nor does a restart, after which the server still has no requests.
LEMMA UnchangedExplained ==
  ASSUME Explained, Restart \/ UNCHANGED vars
  PROVE  Explained'
<1>1. UNCHANGED <<kv, pending, handlers, writer, client, possible, alone>>
  BY DEF Restart, Store!Recover, vars, serverVars, clientVars
<1> QED
  BY <1>1 DEF Explained, TypeInv, OneWriter, OnItsWay, ValuesPossible, WaitsForStep,
     AloneOnKey, AnswersExplained

-----------------------------------------------------------------------------
\* All steps together.
LEMMA StepExplained == Explained /\ [Next]_vars => Explained'
<1> SUFFICES ASSUME Explained, [Next]_vars PROVE Explained'
  OBVIOUS
<1>1. CASE NextStep
  BY <1>1, NextStepExplained
<1>2. CASE Client \/ Timeout
  BY <1>2, SendExplained, AnswerExplained, ClientExplained DEF Client
<1>3. CASE Server
  BY <1>3, HandleGetExplained, LockExplained, HandleWriteExplained, DropExplained
     DEF Server
<1>4. CASE Crash
  BY <1>4, CrashExplained
<1>5. CASE Restart \/ UNCHANGED vars
  BY <1>5, UnchangedExplained
<1> QED
  BY <1>1, <1>2, <1>3, <1>4, <1>5 DEF Next

\* The invariant behind the client's answers: what a key has and all that is on
\* its way to it in the server are values its steps explain.
THEOREM ExplainedInvariant == Spec => []Explained
BY InitExplained, StepExplained, PTL DEF Spec

\* Every GET of the client is answered with a value the steps before it explain,
\* whatever was sent again, timed out or was lost with the server.
THEOREM AnswersAreExplained == Spec => []AnswersExplained
<1>1. Explained => AnswersExplained
  BY DEF Explained
<1> QED
  BY <1>1, ExplainedInvariant, PTL
=============================================================================
