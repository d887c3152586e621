--------------------------- MODULE ProgressTokens ----------------------------
(***************************************************************************)
(* Progress notifications of one notifier (progress/progressEmitter.ts):   *)
(* emitters that may share a token, their heartbeats, and sendMonotonic,   *)
(* which remembers the last value of the tokens that sent most recently.   *)
(* Values are thousandths of a step.                                       *)
(***************************************************************************)
EXTENDS Naturals, Sequences, SequencesExt, FiniteSets

CONSTANTS
  Emitters,
  TokenOf,     \* [Emitters -> the host's progress token]
  Steps,       \* steps that are emitted
  Totals,      \* totals sent with them; 0: none
  MaxTracked,  \* MAX_TRACKED_TOKENS
  MaxSent      \* bound on notifications of a token

Unit == 1000

Tokens == {TokenOf[e] : e \in Emitters}

ProgressAssumption ==
  /\ MaxTracked \in Nat \ {0} /\ Steps \subseteq Nat \ {0} /\ Totals \subseteq Nat

VARIABLES
  live,    \* emitters that are made and not disposed of
  payload, \* [Emitters -> their last payload]
  beats,   \* [Emitters -> heartbeats since then]
  lastSent,\* tokens remembered, the one that sent last at the end
  value,   \* [Tokens -> the value remembered, while it is]
  sent,    \* [Tokens -> values sent so far] (history)
  others   \* [Tokens -> tokens that sent since it did] (history)

progressVars == <<live, payload, beats, lastSent, value, sent, others>>

NoPayload == [progress |-> 0, total |-> 0]

ProgressInit ==
  /\ live = {} /\ lastSent = <<>>
  /\ payload = [e \in Emitters |-> NoPayload] /\ beats = [e \in Emitters |-> 0]
  /\ value = [t \in Tokens |-> 0]
  /\ sent = [t \in Tokens |-> <<>>] /\ others = [t \in Tokens |-> {}]

LiveTokens == {TokenOf[e] : e \in live}

(* Environment: a token in use sends again before MaxTracked others did -  *)
(* its heartbeat comes every ten seconds.                                  *)
SendsInTime(token) ==
  \A t \in LiveTokens \ {token} : Cardinality(others[t] \cup {token}) < MaxTracked

\* MUTANT of Remember: the place of a token is where it was first put.
RememberFirst(token) ==
  LET put == IF token \in ToSet(lastSent) THEN lastSent ELSE Append(lastSent, token)
  IN  IF Len(put) > MaxTracked THEN Tail(put) ELSE put
(* perToken: the token goes to the end, the oldest is forgotten.           *)
Without(token) ==
  IF token \in ToSet(lastSent)
  THEN RemoveAt(lastSent, CHOOSE at \in DOMAIN lastSent : lastSent[at] = token) ELSE lastSent
Remember(token) ==
  LET put == Append(Without(token), token)
  IN  IF Len(put) > MaxTracked THEN Tail(put) ELSE put

Nudged(token, progress) ==
  IF token \in ToSet(lastSent) /\ progress <= value[token] THEN value[token] + 1 ELSE progress

SendMonotonic(token, progress) ==
  /\ SendsInTime(token) /\ Len(sent[token]) < MaxSent
  /\ value' = [value EXCEPT ![token] = Nudged(token, progress)]
  /\ lastSent' = Remember(token)
  /\ sent' = [sent EXCEPT ![token] = Append(@, Nudged(token, progress))]
  /\ others' = [t \in Tokens |-> IF t = token THEN {} ELSE others[t] \cup {token}]

(* makeProgressEmitter. A token that is not in use is of a new request.    *)
Make(e) ==
  /\ e \notin live /\ (TokenOf[e] \in LiveTokens \/ sent[TokenOf[e]] = <<>>)
  /\ live' = live \cup {e}
  /\ UNCHANGED <<payload, beats, lastSent, value, sent, others>>

Emit(e, step, total) ==
  LET progress == Unit * (IF total # 0 /\ total < step THEN total ELSE step)
  IN  /\ e \in live
      /\ payload' = [payload EXCEPT ![e] = [progress |-> progress, total |-> total]]
      /\ beats' = [beats EXCEPT ![e] = 0]
      /\ SendMonotonic(TokenOf[e], progress)
      /\ UNCHANGED live

Heartbeat(e) ==
  /\ e \in live /\ payload[e] # NoPayload
  /\ beats' = [beats EXCEPT ![e] = @ + 1]
  /\ SendMonotonic(TokenOf[e], payload[e].progress + (IF payload[e].total # 0 THEN 0 ELSE beats[e] + 1))
  /\ UNCHANGED <<live, payload>>

Dispose(e) ==
  /\ e \in live
  /\ live' = live \ {e}
  /\ payload' = [payload EXCEPT ![e] = NoPayload] /\ beats' = [beats EXCEPT ![e] = 0]
  /\ UNCHANGED <<lastSent, value, sent, others>>

ProgressNext ==
  \E e \in Emitters :
    \/ Make(e) \/ Heartbeat(e) \/ Dispose(e)
    \/ \E step \in Steps, total \in Totals : Emit(e, step, total)

ProgressSpec == ProgressInit /\ [][ProgressNext]_progressVars

----------------------------------------------------------------------------
(* Progress only ever increases, per token (sendMonotonic): whichever      *)
(* emitters share it, wherever their steps and heartbeats stand, and       *)
(* although only the last tokens are remembered.                           *)
Increases == \A t \in Tokens : \A i, j \in 1 .. Len(sent[t]) : i < j => sent[t][i] < sent[t][j]
=============================================================================
