-------------------------------- MODULE Net ---------------------------------
(***************************************************************************)
(* src/src/net.c: the life of a packet socket.  net_create asks the system *)
(* for one thing after the other, _get_if_cfg with a socket of its own;    *)
(* when a call fails, what was acquired so far has to be given back.       *)
(***************************************************************************)
EXTENDS Integers

VARIABLES at,    \* the call net_create makes next, "up", "failed" or "destroyed"
          held   \* "ctx" (struct net_ctx), "cfg" (the socket rq_fd), "raw" (ctx->sock)

netVars == <<at, held>>

Calls == {"calloc", "cfg_socket", "hwaddr", "ifindex", "raw_socket", "bind"}
Things == {"ctx", "cfg", "raw"}

NetTypeOK == at \in Calls \cup {"up", "failed", "destroyed"} /\ held \subseteq Things

NetInit == at = "calloc" /\ held = {}

Acquired == [calloc |-> {"ctx"}, cfg_socket |-> {"cfg"}, hwaddr |-> {}, ifindex |-> {},
             raw_socket |-> {"raw"}, bind |-> {}]

\* _get_if_cfg closes rq_fd when it has got the index.
Dropped == [c \in Calls |-> IF c = "ifindex" THEN {"cfg"} ELSE {}]

Following == [calloc |-> "cfg_socket", cfg_socket |-> "hwaddr", hwaddr |-> "ifindex",
              ifindex |-> "raw_socket", raw_socket |-> "bind", bind |-> "up"]

\* Mutant: every failure goes to err_has_ctx.
OnlyContext(c) == {"ctx"} \cup (IF c \in {"hwaddr", "ifindex"} THEN {"cfg"} ELSE {})

\* The early returns of _get_if_cfg, and the labels err_has_sock, err_has_ctx.
GivenBack(c) ==
  {"ctx"} \cup (CASE c \in {"hwaddr", "ifindex"} -> {"cfg"} [] c = "bind" -> {"raw"}
                  [] OTHER -> {})

CallSucceeds(c) ==
  /\ at = c
  /\ at' = Following[c]
  /\ held' = (held \cup Acquired[c]) \ Dropped[c]

CallFails(c) ==
  /\ at = c
  /\ at' = "failed"
  /\ held' = held \ GivenBack(c)

Destroy ==
  /\ at = "up"
  /\ at' = "destroyed"
  /\ held' = held \ {"raw", "ctx"}

\* A net_create that fails at any call leaves nothing behind, one that returns
\* leaves the packet socket alone, and net_destroy gives that back.
NothingLeftOpen ==
  /\ at \in {"failed", "destroyed"} => held = {}
  /\ at = "up" => held = {"ctx", "raw"}

=============================================================================
