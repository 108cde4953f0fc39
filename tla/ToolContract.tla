----------------------------- MODULE ToolContract -----------------------------
(***************************************************************************)
(* What the gateway promises for a tool call, whatever the engine does     *)
(* inside: a handler runs at most once and only for a caller who may run   *)
(* it, one audit record is kept before the caller gets an answer, record   *)
(* and answer tell the same story, and a value is only ever the product of *)
(* a run.  Execution implements it.                                        *)
(***************************************************************************)

CONSTANTS
  Calls,     \* the tool calls
  Requests,  \* who may ask for what
  NoRequest, \* nothing asked yet
  MayRun     \* the requests whose caller is authorised

VARIABLES
  asked,   \* asked[c] : what c asks for
  ran,     \* ran[c] : c's handler has been run
  record,  \* record[c] : what the audit says of c
  answer   \* answer[c] : what the caller got

vars == <<asked, ran, record, answer>>

Verdicts == {"refused", "allowed"}
Answers == {"value", "error", "aborted"}

Init ==
  /\ asked = [c \in Calls |-> NoRequest]
  /\ ran = [c \in Calls |-> FALSE]
  /\ record = [c \in Calls |-> "none"]
  /\ answer = [c \in Calls |-> "none"]

Ask(c) ==
  /\ asked[c] = NoRequest
  /\ \E q \in Requests : asked' = [asked EXCEPT ![c] = q]
  /\ UNCHANGED <<ran, record, answer>>

Run(c) ==
  /\ asked[c] \in MayRun
  /\ ~ran[c] /\ record[c] = "none"
  /\ ran' = [ran EXCEPT ![c] = TRUE]
  /\ UNCHANGED <<asked, record, answer>>

Record(c) ==
  /\ asked[c] # NoRequest /\ record[c] = "none"
  /\ record' = [record EXCEPT ![c] =
       IF asked[c] \in MayRun THEN "allowed" ELSE "refused"]
  /\ UNCHANGED <<asked, ran, answer>>

Answer(c) ==
  /\ record[c] # "none" /\ answer[c] = "none"
  /\ \E a \in Answers :
       /\ a \in {"value", "aborted"} => ran[c]
       /\ answer' = [answer EXCEPT ![c] = a]
  /\ UNCHANGED <<asked, ran, record>>

Next == \E c \in Calls : Ask(c) \/ Run(c) \/ Record(c) \/ Answer(c)

Spec == Init /\ [][Next]_vars
===============================================================================
