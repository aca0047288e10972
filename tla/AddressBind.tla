---------------------------- MODULE AddressBind ----------------------------
(***************************************************************************)
(* tunnel/bind.go: the one UDP socket of lm0.                              *)
(*                                                                         *)
(* The AmneziaWG device opens and closes the bind, one after the other,    *)
(* whenever its port or state changes, keeps a goroutine in each receive   *)
(* function until that returns an error, and sends from goroutines of its  *)
(* own at any time.  Every Open makes a new socket; b.mu protects only     *)
(* b.socket, so a Send may still be writing, and a receiver still reading, *)
(* when the bind is closed and opened again.                               *)
(***************************************************************************)
EXTENDS Naturals, FiniteSets

CONSTANTS Sockets,     \* every Open takes a fresh one
          Senders,     \* goroutines that call Send
          Nil,
          Batch,       \* buffers of one Send
          Backlog      \* packets the kernel keeps for a socket

ASSUME BindAssumption ==
  /\ Nil \notin Sockets \cup Senders /\ Batch \in Nat \ {0} /\ Backlog \in Nat \ {0}

VARIABLES
  mu,        \* Nil, "device" or the sender that holds b.mu
  socket,    \* b.socket, or Nil
  open,      \* sockets the kernel has open
  used,      \* sockets that have been
  queue,     \* socket -> packets that have arrived
  call,      \* what the device waits for: "none", "open" or "close"
  receiver,  \* socket -> its receive function: "none", "reading" or "failed"
  send,      \* sender -> "idle", "lock", "write"
  captured,  \* sender -> the socket it writes to, or Nil
  left,      \* sender -> buffers it has still to write
  via,       \* observation: sender -> sockets that have carried its buffers
  stray      \* observation: receivers that have read another socket

bindVars == <<mu, socket, open, used, queue, call, receiver, send, captured, left, via, stray>>
sendVars == <<send, captured, left, via>>

BindInit ==
  /\ mu = Nil /\ socket = Nil /\ open = {} /\ used = {}
  /\ queue = [s \in Sockets |-> 0] /\ call = "none"
  /\ receiver = [s \in Sockets |-> "none"]
  /\ send = [x \in Senders |-> "idle"] /\ captured = [x \in Senders |-> Nil]
  /\ left = [x \in Senders |-> 0] /\ via = [x \in Senders |-> {}] /\ stray = {}

-----------------------------------------------------------------------------
(* Open and Close                                                          *)

Call(method) ==
  /\ call = "none" /\ call' = method
  /\ UNCHANGED <<mu, socket, open, used, queue, receiver, sendVars, stray>>

DeviceLocks ==
  /\ call # "none" /\ mu = Nil /\ mu' = "device"
  /\ UNCHANGED <<socket, open, used, queue, call, receiver, sendVars, stray>>

Return == mu' = Nil /\ call' = "none"

Opens ==
  /\ call = "open" /\ mu = "device" /\ Return
  /\ socket = Nil
  /\ \E s \in Sockets \ used :
       /\ socket' = s /\ open' = open \cup {s} /\ used' = used \cup {s}
       /\ receiver' = [receiver EXCEPT ![s] = "reading"]
  /\ UNCHANGED <<queue, sendVars, stray>>

\* The bind is open already, or the address cannot be bound
OpenFails ==
  /\ call = "open" /\ mu = "device" /\ Return
  /\ UNCHANGED <<socket, open, used, queue, receiver, sendVars, stray>>

Closes ==
  /\ call = "close" /\ mu = "device" /\ Return
  /\ open' = open \ {socket} /\ socket' = Nil
  /\ UNCHANGED <<used, queue, receiver, sendVars, stray>>

-----------------------------------------------------------------------------
(* Receive functions                                                       *)

Arrives(s) ==
  /\ s \in open /\ queue[s] < Backlog
  /\ queue' = [queue EXCEPT ![s] = @ + 1]
  /\ UNCHANGED <<mu, socket, open, used, call, receiver, sendVars, stray>>

\* Slip: the receiver reads whatever socket the bind has
ReadsFromBind(r) == socket

\* The socket a receive function reads: the one its Open made
ReadsFrom(r) == r

\* A packet, or the error that ends the receiver when its socket is closed
Receives(r) ==
  /\ receiver[r] = "reading"
  /\ LET s == ReadsFrom(r)
     IN  \/ /\ s \in open /\ queue[s] > 0
            /\ queue' = [queue EXCEPT ![s] = @ - 1]
            /\ stray' = IF s = r THEN stray ELSE stray \cup {r}
            /\ UNCHANGED receiver
         \/ /\ s \notin open
            /\ receiver' = [receiver EXCEPT ![r] = "failed"]
            /\ UNCHANGED <<queue, stray>>
  /\ UNCHANGED <<mu, socket, open, used, call, sendVars>>

-----------------------------------------------------------------------------
(* Send                                                                    *)

SendBegins(x) ==
  /\ send[x] = "idle" /\ mu = Nil
  /\ mu' = x /\ send' = [send EXCEPT ![x] = "lock"]
  /\ UNCHANGED <<socket, open, used, queue, call, receiver, captured, left, via, stray>>

\* Slip: the mutex is kept until Send returns
CapturesLocked(x) ==
  /\ send[x] = "lock"
  /\ IF socket = Nil
     THEN /\ send' = [send EXCEPT ![x] = "idle"] /\ mu' = Nil
          /\ UNCHANGED <<captured, left, via>>
     ELSE /\ send' = [send EXCEPT ![x] = "write"] /\ UNCHANGED mu
          /\ captured' = [captured EXCEPT ![x] = socket]
          /\ left' = [left EXCEPT ![x] = Batch] /\ via' = [via EXCEPT ![x] = {}]
  /\ UNCHANGED <<socket, open, used, queue, call, receiver, stray>>

Captures(x) ==
  /\ send[x] = "lock" /\ mu' = Nil
  /\ IF socket = Nil
     THEN /\ send' = [send EXCEPT ![x] = "idle"]
          /\ UNCHANGED <<captured, left, via>>
     ELSE /\ send' = [send EXCEPT ![x] = "write"]
          /\ captured' = [captured EXCEPT ![x] = socket]
          /\ left' = [left EXCEPT ![x] = Batch] /\ via' = [via EXCEPT ![x] = {}]
  /\ UNCHANGED <<socket, open, used, queue, call, receiver, stray>>

\* Slip: each buffer goes to the socket of the moment
WritesToBind(x) == socket

\* The socket Send writes to: the one it captured
WritesTo(x) == captured[x]

SendReturns(x) ==
  /\ send' = [send EXCEPT ![x] = "idle"] /\ captured' = [captured EXCEPT ![x] = Nil]
  /\ mu' = IF mu = x THEN Nil ELSE mu

\* One buffer, or the end of the call, with an error or not; a write may take for ever
Writes(x) ==
  /\ send[x] = "write"
  /\ \/ /\ WritesTo(x) \in open /\ left[x] > 0
        /\ left' = [left EXCEPT ![x] = @ - 1]
        /\ via' = [via EXCEPT ![x] = @ \cup {WritesTo(x)}]
        /\ UNCHANGED <<send, captured, mu>>
     \/ /\ SendReturns(x) /\ UNCHANGED <<left, via>>
  /\ UNCHANGED <<socket, open, used, queue, call, receiver, stray>>

-----------------------------------------------------------------------------
BindNext ==
  \/ Call("open") \/ Call("close") \/ DeviceLocks \/ Opens \/ OpenFails \/ Closes
  \/ \E s \in Sockets : Arrives(s) \/ Receives(s)
  \/ \E x \in Senders : SendBegins(x) \/ Captures(x) \/ Writes(x)

BindSpec == BindInit /\ [][BindNext]_bindVars

\* A receiver runs, a goroutine that holds b.mu runs, and a waiter that finds
\* b.mu free infinitely often gets it.  No write has to come to an end.
FairBindSpec ==
  /\ BindSpec
  /\ \A s \in Sockets : WF_bindVars(Receives(s))
  /\ SF_bindVars(DeviceLocks) /\ WF_bindVars(Opens \/ OpenFails) /\ WF_bindVars(Closes)
  /\ \A x \in Senders : WF_bindVars(Captures(x))

-----------------------------------------------------------------------------
(* Properties                                                              *)

\* All buffers of one Send leave from one socket, so junk, signature packets and
\* handshake have one source port even when the bind is reopened meanwhile.
BatchLeavesTogether == \A x \in Senders : Cardinality(via[x]) <= 1

\* A receiver of an earlier Open "must never start reading the new socket".
OldReceiversStayOff == stray = {}

\* Close ends every receiver of its socket, also when the bind is open again by
\* the time it looks; the device waits for that.
ClosedReceiversReturn ==
  \A s \in Sockets : receiver[s] = "reading" /\ s \notin open ~> receiver[s] = "failed"

\* Close returns, even while a Send is stuck in a write.
CloseReturns == call = "close" ~> call = "none"

-----------------------------------------------------------------------------
(* Strengthening                                                           *)

\* Every variable has its type.
BindTypeOK ==
  /\ mu \in Senders \cup {Nil, "device"} /\ call \in {"none", "open", "close"}
  /\ socket \in Sockets \cup {Nil}
  /\ open \subseteq used /\ used \subseteq Sockets /\ stray \subseteq Sockets
  /\ queue \in [Sockets -> 0 .. Backlog]
  /\ receiver \in [Sockets -> {"none", "reading", "failed"}]
  /\ send \in [Senders -> {"idle", "lock", "write"}]
  /\ captured \in [Senders -> Sockets \cup {Nil}]
  /\ left \in [Senders -> 0 .. Batch] /\ via \in [Senders -> SUBSET Sockets]

\* The kernel has one socket of the bind open, the one b.socket is, and the receive
\* function its Open returned reads it: a bind never leaks a socket, and never has
\* one nobody reads.
OneSocketServed ==
  /\ open = {socket} \ {Nil}
  /\ \A s \in open : receiver[s] = "reading"

\* The buffers a Send has written, and the socket the next ones go to
SendOK(x) ==
  /\ \E s \in Sockets \cup {Nil} : via[x] \subseteq {s}
  /\ send[x] = "write" => via[x] \subseteq {captured[x]}

BindInv == OneSocketServed /\ stray = {} /\ \A x \in Senders : SendOK(x)
=============================================================================
