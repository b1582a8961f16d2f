------------------------------ MODULE KVStore ------------------------------
(***************************************************************************)
(* What the storage engine promises its callers: a map from keys to values *)
(* that one write at a time changes, atomically, and that a crash does not *)
(* change, except that the write a crash interrupts may have happened or   *)
(* not.  Nothing here mentions logs, tables, flushes or compactions.       *)
(***************************************************************************)
CONSTANTS
  Key, Val,
  None,        \* kv[k] of a key that is absent; pending when no write is open
  Tombstone,   \* the entry of a Delete
  MayReject    \* may a write end without effect while the store is up?

VARIABLES
  kv,          \* the value of each key, None when absent
  pending,     \* the write being executed, or None
  up           \* is the store running?

kvVars == <<kv, pending, up>>

Write == [key : Key, entry : Val \cup {Tombstone}]

Applied(w) ==
  [kv EXCEPT ![w.key] = IF w.entry = Tombstone THEN None ELSE w.entry]

Init ==
  /\ kv = [k \in Key |-> None]
  /\ pending = None
  /\ up = TRUE

\* A Put or a Delete starts.
Start ==
  /\ up /\ pending = None
  /\ pending' \in Write
  /\ UNCHANGED <<kv, up>>

\* The write takes effect, for its key only.
Commit ==
  /\ up /\ pending # None
  /\ pending' = None
  /\ kv' = Applied(pending)
  /\ UNCHANGED up

\* The write is abandoned without effect.
Reject ==
  /\ MayReject
  /\ up /\ pending # None
  /\ pending' = None
  /\ UNCHANGED <<kv, up>>

\* Only the interrupted write is in doubt.
Crash ==
  /\ up
  /\ up' = FALSE
  /\ pending' = None
  /\ kv' \in {kv} \cup (IF pending # None THEN {Applied(pending)} ELSE {})

Recover ==
  /\ ~up
  /\ up' = TRUE
  /\ UNCHANGED <<kv, pending>>

Next == Start \/ Commit \/ Reject \/ Crash \/ Recover

Spec == Init /\ [][Next]_kvVars
=============================================================================
