---------------------------- MODULE ServingSpec ----------------------------
(***************************************************************************)
(* What a serving engine promises its requests, whichever way it spreads   *)
(* the work: requests are admitted in order of arrival; one is turned away *)
(* only when the KV blocks it needs are not free; an admitted request      *)
(* produces its tokens one at a time, exactly as many as it asked for, and *)
(* then completes; only an engine that was stopped may abandon one.        *)
(***************************************************************************)
EXTENDS Integers, FiniteSets, Functions

CONSTANTS
  Request,      \* 1 .. n, in order of arrival
  Capacity,     \* KV blocks
  Blocks(_)     \* KV blocks for a prompt of so many tokens

VARIABLES
  closed,       \* the engine has been stopped
  status,       \* where each request is in its life
  ask,          \* what each request asks for: [prompt, output]
  tokens        \* the tokens it has been given

svars == <<closed, status, ask, tokens>>

Status == {"unborn", "waiting", "running", "done", "refused", "abandoned"}

With(s) == {r \in Request : status[r] = s}
Oldest(r) == status[r] = "waiting" /\ \A q \in With("waiting") : r <= q

\* Blocks of the requests that have been admitted and not completed.
InUse == SumFunctionOnSet([r \in Request |-> Blocks(ask[r].prompt)],
                          With("running") \cup With("abandoned"))
Room(r) == InUse + Blocks(ask[r].prompt) <= Capacity

SInit ==
  /\ closed = FALSE
  /\ status = [r \in Request |-> "unborn"]
  /\ ask = [r \in Request |-> [prompt |-> 0, output |-> 0]]
  /\ tokens = [r \in Request |-> 0]

Submit(r) ==
  /\ ~closed /\ status[r] = "unborn" /\ \A q \in Request : q < r => status[q] # "unborn"
  /\ status' = [status EXCEPT ![r] = "waiting"]
  /\ ask'[r].output > 0 /\ \A q \in Request \ {r} : ask'[q] = ask[q]
  /\ UNCHANGED <<closed, tokens>>

Begin(r) ==
  /\ ~closed /\ Oldest(r) /\ Room(r)
  /\ status' = [status EXCEPT ![r] = "running"]
  /\ UNCHANGED <<closed, ask, tokens>>

Refuse(r) ==
  /\ ~closed /\ Oldest(r) /\ ~Room(r)
  /\ status' = [status EXCEPT ![r] = "refused"]
  /\ UNCHANGED <<closed, ask, tokens>>

\* A token; the last one may complete the request in the same step.
Emit(r) ==
  /\ status[r] = "running" /\ tokens[r] < ask[r].output
  /\ tokens' = [tokens EXCEPT ![r] = @ + 1]
  /\ \/ UNCHANGED status
     \/ ~closed /\ tokens'[r] = ask[r].output /\ status' = [status EXCEPT ![r] = "done"]
     \/ closed /\ status' = [status EXCEPT ![r] = "abandoned"]
  /\ UNCHANGED <<closed, ask>>

\* A stopped engine gives a request up where it stands.
GiveUp(r) ==
  /\ closed /\ status[r] = "running"
  /\ status' = [status EXCEPT ![r] = "abandoned"]
  /\ UNCHANGED <<closed, ask, tokens>>

Complete(r) ==
  /\ ~closed /\ status[r] = "running" /\ tokens[r] = ask[r].output
  /\ status' = [status EXCEPT ![r] = "done"]
  /\ UNCHANGED <<closed, ask, tokens>>

Close ==
  /\ closed' = TRUE
  /\ UNCHANGED <<status, ask, tokens>>

SNext ==
  \/ Close
  \/ \E r \in Request :
       Submit(r) \/ Begin(r) \/ Refuse(r) \/ Emit(r) \/ GiveUp(r) \/ Complete(r)

SSpec == SInit /\ [][SNext]_svars
=============================================================================
