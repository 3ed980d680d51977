---------------------------- MODULE HcpExchange -----------------------------
(***************************************************************************)
(* What bmlite_tranceive promises its caller (BMLite_sdk/inc/hcp_tiny.h):  *)
(* a command packet goes to the module whole and is executed at most once, *)
(* and a call that returns OK has the reply of the module to this very     *)
(* command in the packet buffer, and its status in bep_result.  A call may *)
(* fail, but TIMEOUT is only returned for a command that was executed and  *)
(* NO_MEMORY only for a reply too long for the packet buffer.              *)
(*                                                                         *)
(* HcpTransport implements this specification.                             *)
(***************************************************************************)
EXTENDS Integers

CONSTANTS PKT_SIZE_MAX, CmdSizes, RspSizes, ResetOn, MaxCalls

VARIABLES
  busy,     \* a call is running
  call,     \* its number, or that of the last one
  cmdSize,  \* size of the command packet of each call
  answer,   \* what the module executed for each call, and answered
  outcome,  \* what the last call returned
  reply     \* what the last call left for the caller

xvars == <<busy, call, cmdSize, answer, outcome, reply>>

CmdPacket(c, n) == [i \in 1..n |-> <<"cmd", c, i>>]
RspPacket(c, n) == [i \in 1..n |-> <<"rsp", c, i>>]

NoAnswer == [size |-> 0, status |-> "OK", cmd |-> <<>>]
NoReply  == [bytes |-> <<>>, status |-> "NONE"]

Executed == answer[call] # NoAnswer

Call(n) ==
  /\ ~busy
  /\ call < MaxCalls
  /\ outcome \notin ResetOn
  /\ busy' = TRUE
  /\ call' = call + 1
  /\ cmdSize' = [cmdSize EXCEPT ![call + 1] = n]
  /\ reply' = NoReply
  /\ UNCHANGED <<answer, outcome>>

\* A command may still be executed after its call has failed.
Execute(size, status) ==
  /\ call > 0
  /\ ~Executed
  /\ answer' = [answer EXCEPT ![call] =
                  [size |-> size, status |-> status,
                   cmd |-> CmdPacket(call, cmdSize[call])]]
  /\ UNCHANGED <<busy, call, cmdSize, outcome, reply>>

Succeed ==
  /\ busy
  /\ Executed
  /\ busy' = FALSE
  /\ outcome' = "OK"
  /\ reply' = [bytes  |-> RspPacket(call, answer[call].size),
               status |-> answer[call].status]
  /\ UNCHANGED <<call, cmdSize, answer>>

Fail(r) ==
  /\ busy
  /\ r = "TIMEOUT" => Executed
  /\ r = "NO_MEMORY" => Executed /\ answer[call].size >= PKT_SIZE_MAX
  /\ busy' = FALSE
  /\ outcome' = r
  /\ UNCHANGED <<call, cmdSize, answer, reply>>

Reset ==
  /\ ~busy
  /\ outcome \in ResetOn
  /\ outcome' = "NONE"
  /\ UNCHANGED <<busy, call, cmdSize, answer, reply>>

Init ==
  /\ busy = FALSE
  /\ call = 0
  /\ cmdSize = [c \in 1..MaxCalls |-> 0]
  /\ answer = [c \in 1..MaxCalls |-> NoAnswer]
  /\ outcome = "NONE"
  /\ reply = NoReply

Next ==
  \/ \E n \in CmdSizes : Call(n)
  \/ \E size \in RspSizes, status \in {"OK", "FAILED"} : Execute(size, status)
  \/ Succeed
  \/ \E r \in {"IO_ERROR", "NO_MEMORY", "TIMEOUT"} : Fail(r)
  \/ Reset

Spec == Init /\ [][Next]_xvars

=============================================================================
