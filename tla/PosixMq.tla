------------------------------- MODULE PosixMq -------------------------------
(***************************************************************************)
(* The kernel's POSIX message queues, as far as sender.cpp and             *)
(* receiver.cpp use them (external to the repository).                     *)
(*                                                                         *)
(* A name refers to at most one queue object.  mq_open with O_CREAT opens  *)
(* the object the name refers to or creates an empty one; mq_unlink only   *)
(* removes the name, so processes that hold a descriptor keep using an     *)
(* object that nobody can open any more.  Names and contents outlive every *)
(* process.  All messages have priority 0: an object is a FIFO.  No queue  *)
(* is O_NONBLOCK: a send to a full queue and a receive from an empty one   *)
(* block, which is the guard of MqSend and MqReceive.                      *)
(***************************************************************************)
EXTENDS Common

CONSTANT MaxFaults  (* bound: system calls that return -1 in a behaviour *)
ASSUME MaxFaultsAssumption == MaxFaults \in Nat

VARIABLES
  names,   (* names[n]: the queue object n refers to, or NoQueue          *)
  queues,  (* queues[q]: the messages in queue object q, oldest first     *)
  faults   (* system calls that have failed so far                        *)

mqVars == <<names, queues, faults>>

NoQueue == 0

MqTypeOK ==
  /\ names \in [QueueNames -> Nat]
  /\ queues \in Seq(Seq(Message))
  /\ faults \in Nat

MqInit ==
  /\ names = [n \in QueueNames |-> NoQueue]
  /\ queues = <<>>
  /\ faults = 0

(* The object an mq_open(n, O_CREAT | O_RDWR) returns now. *)
Opened(n) == IF names[n] # NoQueue THEN names[n] ELSE Len(queues) + 1

MqOpen(n) ==
  /\ names' = [names EXCEPT ![n] = Opened(n)]
  /\ queues' = IF names[n] # NoQueue THEN queues ELSE Append(queues, <<>>)
  /\ UNCHANGED faults

MqSend(q, m) ==
  /\ Len(queues[q]) < kMaxMessages
  /\ queues' = [queues EXCEPT ![q] = Append(@, m)]
  /\ UNCHANGED <<names, faults>>

MqReceive(q) ==
  /\ queues[q] # <<>>
  /\ queues' = [queues EXCEPT ![q] = Tail(@)]
  /\ UNCHANGED <<names, faults>>

(* ENOENT is ignored by the callers, so unlinking a free name does nothing. *)
MqUnlink(n) ==
  /\ names' = [names EXCEPT ![n] = NoQueue]
  /\ UNCHANGED <<queues, faults>>

(* Any call can return -1 instead (limits, permissions, memory): it then    *)
(* has no effect on the queues.                                            *)
MqFails ==
  /\ faults < MaxFaults
  /\ faults' = faults + 1
  /\ UNCHANGED <<names, queues>>
=============================================================================
