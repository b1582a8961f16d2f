----------------------------- MODULE Validation -----------------------------
(***************************************************************************)
(* The programs of cmd around the engine: gen writes a file of steps and   *)
(* the answers they should get, client sends them one at a time (its       *)
(* semaphore admits one) and sends a step again when it fails, and server  *)
(* runs a goroutine per request on the engine, which is a KVStore.         *)
(*                                                                         *)
(* A request fails when the server is down or goes down, and when no       *)
(* answer comes in time.  In the last case its goroutine lives on: it may  *)
(* still be waiting for writeMu when the client has moved on, and get it   *)
(* after a later request, because a mutex is not a queue.                  *)
(***************************************************************************)
EXTENDS Naturals, FiniteSetsExt

CONSTANTS
  Key, Val, None, Tombstone,  \* as in KVStore
  Attempts,     \* tries of a step: one, and one after each backoff
  MaxHandlers   \* bound: requests the server works on at a time

ASSUME SentinelsDiffer == /\ Tombstone \notin Val
                          /\ None \notin Val \cup {Tombstone}
ASSUME CountsArePositive == Attempts \in Nat \ {0} /\ MaxHandlers \in Nat \ {0}

VARIABLES
  kv, pending, up,  \* the engine, as KVStore promises it
  handlers,         \* the requests in the server
  writer,           \* the handler whose write is pending (it has writeMu), or 0
  state,            \* the map gen keeps: what the steps so far should leave
  client,           \* the step of the client: its state, attempt and handler,
                    \* and whether the body of its PUT has been sent
  possible,         \* (for correctness) the values each key may have
  alone             \* (for correctness) no other write of this step's key lives

serverVars == <<kv, pending, up, handlers, writer>>
clientVars == <<state, client>>
vars == <<serverVars, clientVars, possible, alone>>

\* A write that fails in the engine is answered with 200 like any other and
\* would explain every answer: it is left out.
Store == INSTANCE KVStore WITH MayReject <- FALSE

Slot == 1..MaxHandlers
Entry == Val \cup {Tombstone}
ASSUME NoneIsNoWrite == None \notin [key : Key, entry : Entry]

Read == [kind : {"GET"}, key : Key, entry : {None}]
Change == [kind : {"PUT"}, key : Key, entry : Val]
            \cup [kind : {"DELETE"}, key : Key, entry : {Tombstone}]

Visible(e) == IF e = Tombstone THEN None ELSE e
Free == [req |-> None, pc |-> "free", res |-> None]
Idle == [pc |-> "idle", step |-> None, attempt |-> 0, slot |-> 0, sent |-> FALSE]

Init ==
  /\ Store!Init
  /\ handlers = [s \in Slot |-> Free]
  /\ writer = 0
  /\ state = [k \in Key |-> None]
  /\ client = Idle
  /\ possible = [k \in Key |-> {None}]
  /\ alone = TRUE

\* Is a handler still going to write k?
Writing(k) ==
  \E s \in Slot : /\ handlers[s].pc \in {"waiting", "writing"}
                  /\ handlers[s].req \in Change
                  /\ handlers[s].req.key = k

FreeSlots == {s \in Slot : handlers[s] = Free}

-----------------------------------------------------------------------------
(***************************************************************************)
(* gen and the main loop of client.                                        *)
(***************************************************************************)
\* A step deletes only keys that exist; it reads those, and expects what it
\* wrote, or others, and expects NOT_FOUND.
Generated ==
  Read \cup {c \in Change : c.kind = "DELETE" => state[c.key] # None}

NextStep ==
  /\ client.pc = "idle"
  /\ \E s \in Generated :
       /\ client' = [Idle EXCEPT !.pc = "send", !.step = s]
       /\ IF s \in Change
          THEN /\ state' = [state EXCEPT ![s.key] = Visible(s.entry)]
               /\ possible' = [possible EXCEPT ![s.key] = @ \cup {Visible(s.entry)}]
               /\ alone' = ~Writing(s.key)
          ELSE UNCHANGED <<state, possible, alone>>
  /\ UNCHANGED serverVars

\* client.Do reaches the server: the handler starts.
Send ==
  /\ client.pc = "send" /\ ~client.sent /\ up
  /\ FreeSlots # {}
  /\ LET s == Min(FreeSlots) IN
       /\ handlers' = [handlers EXCEPT ![s] =
                         [req |-> client.step, pc |-> "waiting", res |-> None]]
       /\ client' = [client EXCEPT !.pc = "wait", !.attempt = @ + 1, !.slot = s,
                                   !.sent = client.step.kind = "PUT"]
  /\ UNCHANGED <<kv, pending, up, writer, state, possible, alone>>

\* Clone copies the reader of the body and not the body: after the first
\* attempt that sent it a PUT has none, and the handler returns when it reads it.
SendWithoutBody ==
  /\ client.pc = "send" /\ client.sent
  /\ client' = [client EXCEPT !.pc = "failed", !.attempt = @ + 1]
  /\ UNCHANGED <<serverVars, state, possible, alone>>

\* An attempt that is refused does not count.
Refused_uncounted ==
  /\ client.pc = "send" /\ ~up
  /\ client' = [client EXCEPT !.pc = "failed"]
  /\ UNCHANGED <<serverVars, state, possible, alone>>

\* The server is down, and the body unsent or lost on a dead connection.
Refused ==
  /\ client.pc = "send" /\ ~up
  /\ \E sent \in {client.sent, client.step.kind = "PUT"} :
       client' = [client EXCEPT !.pc = "failed", !.attempt = @ + 1, !.sent = sent]
  /\ UNCHANGED <<serverVars, state, possible, alone>>

\* No answer in time; the handler is on its own.
Timeout ==
  /\ client.pc = "wait" /\ handlers[client.slot].pc # "done"
  /\ client' = [client EXCEPT !.pc = "failed", !.slot = 0]
  /\ UNCHANGED <<serverVars, state, possible, alone>>

\* doWithRetry: sleep and try again, ...
Retry ==
  /\ client.pc = "failed" /\ client.attempt < Attempts
  /\ client' = [client EXCEPT !.pc = "send"]
  /\ UNCHANGED <<serverVars, state, possible, alone>>

\* ... or print the error and go on with the next step.
GiveUp ==
  /\ client.pc = "failed" /\ client.attempt = Attempts
  /\ client' = Idle
  /\ UNCHANGED <<serverVars, state, possible, alone>>

\* doPUT, doGET, doDELETE with the answer: a write that no other one on its
\* key can overtake leaves one possible value.
Answer ==
  /\ client.pc = "wait" /\ handlers[client.slot].pc = "done"
  /\ handlers' = [handlers EXCEPT ![client.slot] = Free]
  /\ client' = Idle
  /\ possible' = IF client.step \in Change /\ alone
                 THEN [possible EXCEPT ![client.step.key] = {Visible(client.step.entry)}]
                 ELSE possible
  /\ UNCHANGED <<kv, pending, up, writer, state, alone>>

-----------------------------------------------------------------------------
(***************************************************************************)
(* The handlers of server.                                                 *)
(***************************************************************************)
\* Engine.Get.
HandleGet(s) ==
  /\ up /\ handlers[s].pc = "waiting" /\ handlers[s].req \in Read
  /\ handlers' = [handlers EXCEPT ![s].pc = "done", ![s].res = kv[handlers[s].req.key]]
  /\ UNCHANGED <<kv, pending, up, writer, clientVars, possible, alone>>

\* The request is answered before its write is in the log.
Lock_answers(s) ==
  /\ handlers[s].pc = "waiting" /\ handlers[s].req \in Change
  /\ Store!Start
  /\ pending' = [key |-> handlers[s].req.key, entry |-> handlers[s].req.entry]
  /\ writer' = s
  /\ handlers' = [handlers EXCEPT ![s].pc = "done"]
  /\ UNCHANGED <<clientVars, possible, alone>>

\* Engine.Put, Engine.Delete: writeMu.Lock ...
Lock(s) ==
  /\ handlers[s].pc = "waiting" /\ handlers[s].req \in Change
  /\ Store!Start
  /\ pending' = [key |-> handlers[s].req.key, entry |-> handlers[s].req.entry]
  /\ writer' = s
  /\ handlers' = [handlers EXCEPT ![s].pc = "writing"]
  /\ UNCHANGED <<clientVars, possible, alone>>

\* ... to the return.
HandleWrite(s) ==
  /\ writer = s
  /\ Store!Commit
  /\ writer' = 0
  /\ handlers' = [handlers EXCEPT ![s].pc = "done"]
  /\ UNCHANGED <<clientVars, possible, alone>>

\* The answer to a client that has left goes nowhere.
Drop(s) ==
  /\ handlers[s].pc = "done" /\ client.slot # s
  /\ handlers' = [handlers EXCEPT ![s] = Free]
  /\ UNCHANGED <<kv, pending, up, writer, clientVars, possible, alone>>

\* The server goes down with all its goroutines; the client's connection fails.
Crash ==
  /\ Store!Crash
  /\ handlers' = [s \in Slot |-> Free]
  /\ writer' = 0
  /\ client' = IF client.pc = "wait" THEN [client EXCEPT !.pc = "failed", !.slot = 0]
                                     ELSE client
  /\ UNCHANGED <<state, possible, alone>>

Restart ==
  /\ Store!Recover
  /\ UNCHANGED <<handlers, writer, clientVars, possible, alone>>

-----------------------------------------------------------------------------
Client == Send \/ SendWithoutBody \/ Refused \/ Retry \/ GiveUp \/ Answer
Server == \E s \in Slot : HandleGet(s) \/ Lock(s) \/ HandleWrite(s) \/ Drop(s)

Next == NextStep \/ Client \/ Timeout \/ Server \/ Crash \/ Restart

Spec == Init /\ [][Next]_vars

FairSpec ==
  /\ Spec
  /\ WF_vars(Client) /\ WF_vars(Restart)
  /\ WF_vars(Server)

\* Every value a GET of the client is answered with is one the steps before it
\* explain: the value of the last acknowledged write of the key, or of a write
\* since then that failed, or of one before it that was still on its way in the
\* server when it was sent.  A timeout, a repeated DELETE and a restart of the
\* server bring back nothing else (doWithRetry, and the handlers of
\* server).
AnswersExplained ==
  client.pc = "wait" /\ client.step \in Read /\ handlers[client.slot].pc = "done" =>
     handlers[client.slot].res \in possible[client.step.key]

\* The client comes to the end of every step, whatever becomes of the server
\* (doWithRetry).
StepEnds == client.pc = "send" ~> client.pc = "idle"
=============================================================================
