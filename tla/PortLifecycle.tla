--------------------------- MODULE PortLifecycle ----------------------------
(***************************************************************************)
(* What the proxy server promises about each port, whatever its sockets,   *)
(* its router and its listener table do in between: a port is opened for   *)
(* one service at a time, the next one gets it only after the listener of  *)
(* the last one is gone, and while it is open it speaks the protocol of    *)
(* the service it was opened for.  ProxyServer implements it.              *)
(***************************************************************************)

CONSTANTS
  Services,   \* services
  Ports,      \* ports
  Protocol,   \* service -> "http" or "tcp"
  None        \* no service, no protocol

VARIABLE
  port        \* port -> [phase, svc, protocol]

Free == [phase |-> "free", svc |-> None, protocol |-> None]

Init == port = [p \in Ports |-> Free]

Becomes(p, to) == port' = [port EXCEPT ![p] = to]

\* bind_port: one service at a time opens a port, and only a free one.
Claim(p, s) ==
  /\ port[p] = Free /\ \A q \in Ports : port[q].phase # "opening"
  /\ Becomes(p, [phase |-> "opening", svc |-> s, protocol |-> Protocol[s]])

\* The route is there: what was claimed is what is opened.
Open(p) ==
  /\ port[p].phase = "opening"
  /\ Becomes(p, [port[p] EXCEPT !.phase = "open"])

\* It is given up before it has a route.
GiveUp(p) == port[p].phase = "opening" /\ Becomes(p, Free)

\* unbind_port: no service has it any more, the listener is still there.
Close(p) ==
  /\ port[p].phase = "open"
  /\ Becomes(p, [phase |-> "closing", svc |-> None, protocol |-> port[p].protocol])

\* The listener is gone.
Release(p) == port[p].phase = "closing" /\ Becomes(p, Free)

Next ==
  \E p \in Ports :
    \/ \E s \in Services : Claim(p, s)
    \/ Open(p) \/ GiveUp(p) \/ Close(p) \/ Release(p)

Spec == Init /\ [][Next]_port

=============================================================================
