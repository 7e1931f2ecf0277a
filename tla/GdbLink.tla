------------------------------ MODULE GdbLink ------------------------------
(***************************************************************************)
(* The GDB link (links/gdb.c): a child process behind two pipes. Opening   *)
(* the link starts a child and writes the two commands that every session  *)
(* begins with; closing it writes a last one, signals the child and looks  *)
(* once after each signal whether it is gone, without ever waiting for it. *)
(* A child that is still there then is looked for again at the next open.  *)
(*                                                                         *)
(* A child is unborn, running, killed (SIGKILL has been sent), dead (a     *)
(* zombie) or reaped. An MI command is one symbol of the wire.             *)
(***************************************************************************)
EXTENDS LinkQueue

CONSTANTS
  MaxChildren,  \* bound on the children started
  Refused,      \* typed symbols that sm_gdb_line_invokes_shell recognises
  AllowShell    \* the broker was started with --gdb-allow-shell

ASSUME GdbAssumption == MaxChildren \in Nat /\ AllowShell \in BOOLEAN

VARIABLES
  child,        \* the state of every child
  pid,          \* the child the link knows of, 0 for none
  target_spec,  \* the target the link will select
  allow_shell

Children == 1 .. MaxChildren

gdbVars == <<child, pid, target_spec, allow_shell>>

\* gdb_set_param of "allow_shell": refused while there is no child. No caller
\* in the broker sets another parameter that this link has.
gdb_set_param(old, new) == IF fd = "open" THEN new ELSE old

\* main applies the option to the link it has just made.
GdbInit ==
  /\ child = [c \in Children |-> "unborn"]
  /\ pid = 0
  /\ target_spec \in {"none", "first"}
  /\ allow_shell = gdb_set_param(FALSE, AllowShell)

GdbTypeOK ==
  /\ child \in [Children -> {"unborn", "running", "killed", "dead", "reaped"}]
  /\ pid \in {0} \cup Children
  /\ target_spec \in {"none", "first"}
  /\ allow_shell \in BOOLEAN

\* gdb_reap: a child that is dead is reaped and forgotten.
gdb_reap(children, p) ==
  IF p # 0 /\ children[p] = "dead"
    THEN [child |-> [children EXCEPT ![p] = "reaped"], pid |-> 0]
    ELSE [child |-> children, pid |-> p]

\* gdb_bootstrap_mi: the commands every session begins with.
gdb_bootstrap_mi ==
  IF target_spec = "none" THEN <<"async">> ELSE <<"async", target_spec>>

\* gdb_open and gdb_connect_begin: gdb_spawn and the first commands. A fresh
\* pipe holds them; they are lost when the child has ended already (no such
\* program, say). A failure of pipe2 or fork leaves the link closed.
gdb_open(fails, lost) ==
  LET r == gdb_reap(child, pid)
      unborn == {c \in Children : child[c] = "unborn"}
  IN  /\ fd = "closed" /\ unborn # {}
      /\ wq' = <<>>
      /\ UNCHANGED <<target_spec, allow_shell>>
      /\ IF fails
           THEN child' = r.child /\ pid' = r.pid /\ UNCHANGED <<fd, sent, historyVars>>
           ELSE LET new == CHOOSE c \in unborn : \A d \in unborn : c <= d
                IN  /\ child' = [r.child EXCEPT ![new] = IF lost THEN "dead" ELSE "running"]
                    /\ pid' = new
                    /\ fd' = "open"
                    /\ sent' = IF lost THEN <<>> ELSE gdb_bootstrap_mi
                    /\ taken' = sent'
                    /\ spoilt' = FALSE

\* A child that does not end on SIGTERM is left running.
gdb_close_polite(quick) ==
  /\ fd = "open" /\ fd' = "closed"
  /\ wq' = <<>>
  /\ \E r \in {gdb_reap(IF quick /\ pid # 0 THEN [child EXCEPT ![pid] = "dead"] ELSE child, pid)} :
       child' = r.child /\ pid' = r.pid
  /\ UNCHANGED <<sent, historyVars, target_spec, allow_shell>>

\* gdb_close: -gdb-exit, SIGTERM and SIGKILL; quick says that the child is gone
\* by the last look. The last command goes to a pipe nobody may read: it is not
\* counted as accepted.
gdb_close(quick) ==
  LET signalled == IF pid = 0 \/ child[pid] # "running" THEN child
                   ELSE [child EXCEPT ![pid] = IF quick THEN "dead" ELSE "killed"]
  IN  /\ fd = "open" /\ fd' = "closed"
      /\ wq' = <<>>
      /\ \E r \in {gdb_reap(signalled, pid)} : child' = r.child /\ pid' = r.pid
      /\ UNCHANGED <<sent, historyVars, target_spec, allow_shell>>

\* contains_shell_command, over what is typed.
Blocked(data) == ~allow_shell /\ \E i \in DOMAIN data : data[i] \in Refused

\* gdb_write_data: refused whole, or queued behind the rest.
gdb_write_data(data, k, err) ==
  /\ fd = "open" /\ k <= Len(data)
  /\ IF Blocked(data) THEN UNCHANGED queueVars ELSE QueuedWrite(data, data, k, err) /\ UNCHANGED fd
  /\ UNCHANGED gdbVars

\* gdb_send_break: an MI command through the same queue.
gdb_send_break(k, err) ==
  /\ fd = "open" /\ k <= 1
  /\ QueuedWrite(<<"interrupt">>, <<"interrupt">>, k, err)
  /\ UNCHANGED <<fd, gdbVars>>

\* A child ends, by itself or because it was killed.
ChildEnds(c) ==
  /\ child[c] \in {"running", "killed"}
  /\ child' = [child EXCEPT ![c] = "dead"]
  /\ UNCHANGED <<queueVars, pid, target_spec, allow_shell>>

(***************************************************************************)
(* Properties.                                                             *)
(***************************************************************************)

\* A GDB that still runs is the one of the open link: no close, failed open or
\* reopen leaves one behind that holds the debug probe (gdb_close, gdb_spawn).
NoGdbLeftRunning ==
  \A c \in Children : child[c] = "running" => fd = "open" /\ pid = c

\* --gdb-allow-shell permits the commands that are refused otherwise (the
\* usage text of main.c).
OptionHonoured == AllowShell => allow_shell

\* The link keeps track of every child until it is reaped.
EveryChildReaped ==
  \A c \in Children : child[c] \in {"running", "killed", "dead"} => pid = c
=============================================================================
